--------------------------- MODULE MCDatasetBuild ---------------------------
(* DatasetBuild for TLC: two snapshots of a repository, fetched with two    *)
(* records per page.  Between them issue 4 was opened, which pushes issue 2 *)
(* onto the second page, and issue 2 was edited.                            *)
EXTENDS DatasetBuild, TLC

CONSTANTS d1, d2

Issue(number, edition) == [number |-> number, edition |-> edition]

Page(issues) == [issues |-> issues, pulls |-> 0]

MCContent ==
    d1 :> <<Page({Issue(3, 1), Issue(2, 1)}), Page({Issue(1, 1)})>> @@
    d2 :> <<Page({Issue(4, 1), Issue(3, 1)}), Page({Issue(2, 2), Issue(1, 1)})>>
=============================================================================
