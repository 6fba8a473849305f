------------------------------ MODULE MCCarriage ------------------------------
(* Instances of Carriage for model checking. *)
EXTENDS Carriage

CONSTANTS a, b, q

Declares(nonce, n1, deadline, carrier) ==
  [kind |-> "declaration", nonce |-> nonce, newLeafCount |-> n1, deadline |-> deadline,
   designatedCarrier |-> carrier, appPointer |-> NoPointer, openedAt |-> nonce,
   key |-> 1, defect |-> "none"]

\* Two declarations compete for the first nonce, one of them with an early deadline; one
\* takes the second; one has openings older than its nonce; one has each defect; a
\* pointer, and a successor too urgent for the program, are signed by the key the wallet
\* rotates to.
MCPackages ==
  LET First == Declares(0, 1, 9, NoAccount) IN
  {First, Declares(0, 1, 3, a), Declares(1, 2, 9, a),
   [Declares(1, 2, 5, NoAccount) EXCEPT !.openedAt = 0],
   [kind |-> "pointer", nonce |-> 0, deadline |-> 9, appPointer |-> q, key |-> 2,
    defect |-> "none"],
   [kind |-> "successor", nonce |-> 0, deadline |-> 2, target |-> b, key |-> 2,
    defect |-> "none"]}
  \cup {[First EXCEPT !.defect = d] : d \in {"bytes", "shape", "proof"}}

\* Both fees move together, up to an eighth in a block: a quarter in all.
MCFees == {[base |-> f, blob |-> f] : f \in {8, 9, 10}}

\* The properties of the runs are not about the window over which the drain is counted.
OneWindowInit == CarriageInit /\ windowStart = MaxTime
OneWindow == OneWindowInit /\ [][CarriageNext]_allVars

=============================================================================
