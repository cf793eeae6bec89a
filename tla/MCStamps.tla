------------------------------- MODULE MCStamps -------------------------------
(* A few calls on one member. *)
EXTENDS Stamps, TLC

StampsSymmetry == Permutations(Editor)

\* Once times are out of order, what a client was shown is read no more but for its
\* version, nor what a request overwrites: StaleUpdatesAreRefused speaks of them
\* while times are ordered only.  Without a reading left, a call that has no time
\* writes nothing any more.
Read(c) ==
  IF reads = MaxReads /\ c.at # "stamped" THEN NoCall
  ELSE IF ordered THEN c
  ELSE [c EXCEPT !.crossed = {},
                 !.listed = IF c.at = "listed" THEN [Nothing EXCEPT !.version = c.listed.version]
                            ELSE Nothing,
                 !.seen.name = IF c.input.name = Keep THEN @ ELSE First]
StampsView ==
  <<user, row, [e \in Editor |-> Read(call[e])], other, ordered, clock, reads>>
===============================================================================
