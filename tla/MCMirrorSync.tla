---------------------------- MODULE MCMirrorSync ----------------------------
(***************************************************************************)
(* Three items of which two fit a page.                                    *)
(***************************************************************************)
EXTENDS MirrorSync

Symmetric == Permutations(Keys)

\* zotero.org and the desktop, which sends no Last-Modified-Version with a
\* list, for the items resource.
Zotero == [counts : {TRUE}, versions : BOOLEAN, sort : {"dateAdded"}]

\* And a server that does not count, one that refuses the sort, and a resource
\* that has no sort to ask for.
AllServers ==
    Zotero \cup [counts : {FALSE}, versions : {TRUE}, sort : {"dateAdded"}]
           \cup [counts : {TRUE}, versions : {TRUE}, sort : {"refused", "unasked"}]
=============================================================================
