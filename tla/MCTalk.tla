------------------------------- MODULE MCTalk -------------------------------
(* Logs of up to two lines, on either side of what a tail may hold; one of   *)
(* them grows as it is read.                                                *)
EXTENDS Talk

(* Each age knows what the one before it did. *)
MCAges ==
    {{}, {"boot", "logs"}, Routes \cup Keys}

Of(raw, text) == [raw |-> raw, text |-> text]
MCWants ==
    {[file |-> <<Of(4, 4)>>, n |-> 1], [file |-> <<Of(1, 1), Of(3, 3)>>, n |-> 1],
     [file |-> <<Of(2, 2), Of(1, 1)>>, n |-> 2], [file |-> <<Of(1, 1), Of(2, 2), Of(1, 1)>>, n |-> 2],
     [file |-> <<Of(1, 1), Of(1, 3)>>, n |-> 2]}
=============================================================================
