------------------------------- MODULE MCSchema -------------------------------
EXTENDS Schema

\* a file that is new, or of a version before the rebuild or after it
MCVersions == {0, 2, 3, 12}
===============================================================================
