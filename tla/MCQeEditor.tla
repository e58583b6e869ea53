------------------------------ MODULE MCQeEditor ------------------------------
EXTENDS QeEditor
\* A short file, and one that does not fit.
MCTexts == {<<>>, <<"x", "n">>, <<"x", "_", "x", "n">>}
===============================================================================
