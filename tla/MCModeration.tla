---------------------------- MODULE MCModeration ----------------------------
(***************************************************************************)
(* A small instance of Moderation for TLC: three rules, a few tables.      *)
(***************************************************************************)
EXTENDS Moderation

Act(k, s) == [kind |-> k, seconds |-> s]
Rule(ai, auto, level, spares, matcher, times, does) ==
    [ai |-> ai, on |-> TRUE, auto |-> auto, level |-> level, spares |-> spares,
     matcher |-> matcher, times |-> times, does |-> does]

(* Two machine rules of one level and a judged rule above them.            *)
JudgedAbove ==
    1 :> Rule(FALSE, TRUE, 1, FALSE, "pattern", 1, <<Act("mute", 1), Act("notify", 0)>>)
    @@ 2 :> Rule(FALSE, TRUE, 1, FALSE, "pattern", 1, <<Act("reply", 0), Act("mute", 2)>>)
    @@ 3 :> Rule(TRUE, TRUE, 3, FALSE, "semantic", 1, <<Act("recall", 0), Act("mute", 3)>>)

OneTable == {JudgedAbove}
NoFaults == {{}}
=============================================================================
