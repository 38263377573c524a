---------------------------- MODULE MCRetention ----------------------------
(* A small instance of Retention for TLC. *)
EXTENDS Retention, TLC

\* Article 2 updates article 1, or was its original.
MCRefs == (1 :> {2}) @@ (2 :> {1})
MCLast == (1 :> 2) @@ (2 :> 1)

\* A published article with an update in progress, or a draft with a spiked update.
MCInitial == {[state |-> <<"published", "draft">>, tasks |-> {}],
              [state |-> <<"draft", "spiked">>, tasks |-> {}]}
=============================================================================
