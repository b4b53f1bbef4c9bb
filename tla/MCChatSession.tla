--------------------------- MODULE MCChatSession ---------------------------
EXTENDS ChatSession, TLC

\* Turns, and threads, differ in name only.
Alike == Permutations(Turn) \cup Permutations(Thread)

\* The tab loads a thread, or rates, or a round trip fails: a behaviour is cut
\* off once two of these three happened, or the user acted during a load.
OneDisturbance ==
    ~raced /\ Cardinality({what \in {"load", "click", "fault"} :
        \/ what = "load" /\ \E l \in Load : load[l].pc # "unsent"
        \/ what = "click" /\ \E c \in Click : click[c].pc # "unsent"
        \/ what = "fault" /\ faults > 0}) <= 1
=============================================================================
