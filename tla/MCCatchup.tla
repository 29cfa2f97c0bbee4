----------------------------- MODULE MCCatchup -----------------------------
EXTENDS CatchupObligation, TLC

LaunchSymmetry == Permutations(Launches)

\* One conversation longer than a batch, and one that ends in a hidden message.
MCInboxes == {[conversation |-> <<1, 2, 1>>, hidden |-> {}],
              [conversation |-> <<1, 1, 2>>, hidden |-> {2}]}
=============================================================================
