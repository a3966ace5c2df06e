--------------------------- MODULE MCMemberNames ---------------------------
(* Small instances of MemberNames for TLC.  Each case bounds the events    *)
(* delivered and the changes from outside next to the faults it allows.    *)
EXTENDS MemberNames

Case(f, e, c) == [faults |-> f, events |-> e, changes |-> c]

AllCases ==
    {Case({"sync", "lost", "move"}, 1, 1), Case({"crash", "db", "lost", "move"}, 3, 2),
     Case({"sync", "db"}, 0, 1),
     Case({"manual"}, 2, 2), Case({"apply", "refused"}, 2, 2)}

ManualRename == {Case({"sync", "manual"}, 1, 1)}
=============================================================================
