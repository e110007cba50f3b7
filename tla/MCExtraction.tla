----------------------------- MODULE MCExtraction -----------------------------
EXTENDS Extraction

\* two tenants in a session of one name, and one of them in another session;
\* the second and the fourth turn open their conversations with the same words
MCTextOf == <<"a", "b", "b", "b">>
MCSessOf == <<1, 1, 1, 2>>
MCNsOf == <<"home", "work", "home", "work">>
===============================================================================
