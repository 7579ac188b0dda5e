----------------------- MODULE MCMasternodePayments -----------------------
EXTENDS MasternodePayments
(* States no property and no later step can tell apart: the counts of a    *)
(* height that is out of reach are not read, the file is not read again    *)
(* once the last restart is over, and a vote of this node that is kept is  *)
(* not taken from a peer, nor taken any more when it has been cleaned away. *)
InReach(c) == [h \in Heights \cap Needed |-> c[h]]
Distinct ==
  <<tip, peak, kept, InReach(counts), lastVote, nLast, at, relayed \ kept, dumped,
    IF restarts = MaxRestarts THEN NoFile
    ELSE IF file = Corrupt THEN Corrupt ELSE [file EXCEPT !.counts = InReach(@)],
    exact, restarts>>
=============================================================================
