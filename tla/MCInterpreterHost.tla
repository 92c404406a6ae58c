--------------------------- MODULE MCInterpreterHost ---------------------------
(***************************************************************************)
(* An instance of InterpreterHost for TLC: replies of up to two events.    *)
(***************************************************************************)
EXTENDS InterpreterHost, TLC

\* An interpreter may give a fraction out of range.
MCFractions == {NaN, -50, 0, 50, 100, 150}
MCEvents == [kind : TextKinds, arg : Texts] \cup [kind : {"ExitPhase"}, arg : {"none"}]
              \cup [kind : {"Progress"}, arg : MCFractions \cup {NoBar}]
              \cup [kind : {"Finding"}, arg : Bodies]

\* Two phases nest and pop in one reply; two findings or errors can differ.
Single == {<<e>> : e \in MCEvents}
Pairs == {<<[kind |-> k, arg |-> a], [kind |-> m, arg |-> b]>> :
            k, m \in {"EnterPhase", "KnownError"}, a, b \in Texts}
MCReplies == {<<>>} \cup Single \cup Pairs

\* the texts are only compared
TextSymmetry == Permutations(Texts)
=============================================================================
