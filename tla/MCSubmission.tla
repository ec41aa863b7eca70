---------------------------- MODULE MCSubmission ----------------------------
(* Model-checking instances of Submission.                                   *)
EXTENDS Submission

CONSTANTS t1, t2, t3, t4, g1, g2, k1, k2

Req(i, k) == [id |-> i, key |-> k]

\* Two ids and a session without id share a key, an id and a session without id share
\* another, one request has an id and no key, one has neither.
MCDisciplined ==
    {Req(t1, k1), Req(t2, k1), Req(NoId, k1), Req(NoId, k2), Req(t3, k2), Req(t4, NoKey),
     Req(NoId, NoKey)}

\* The same work is submitted under its id with an old key and with a new one.
MCTwoKeys == {Req(t1, k1), Req(t1, k2), Req(t2, k2)}
=============================================================================
