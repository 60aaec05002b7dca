--------------------------- MODULE MCModelServer ---------------------------
(***************************************************************************)
(* Three threads.  Either two requests race with a warm-up: products and   *)
(* canvases are interchangeable, so the first request's are fixed and the  *)
(* second one asks for the same or another of each.  Or three requests,    *)
(* two of them for one product, so that the third one's product evicts     *)
(* theirs between any two steps.  The caches hold one entry each, and the  *)
(* clock may pass an entry's expiry once.                                  *)
(***************************************************************************)
EXTENDS ModelServer, TLC

CONSTANTS t1, t2, t3, p1, p2, square, story

Ask(p, v) == [product |-> p, canvas |-> v]

MCAsked ==
    {(t1 :> Ask(p1, square)) @@ (t2 :> Ask(p, v)) @@ (t3 :> WarmUp) :
        p \in Products, v \in Canvases}
    \cup {(t1 :> Ask(p1, square)) @@ (t2 :> Ask(p1, square)) @@ (t3 :> Ask(p2, square))}
=============================================================================
