---------------------------- MODULE ProviderBond ----------------------------
(***************************************************************************)
(* What the instance promises about a bonded stake, without time, money or *)
(* data: a stake is put up once, it is returned only to a provider that    *)
(* asked to leave and has no claim open against it, and it is forfeited by *)
(* an unanswered claim or by lapsing while serving.  Returned and          *)
(* forfeited are final, and every claim is closed once.                    *)
(***************************************************************************)
CONSTANTS Providers, Claims, NoProvider

VARIABLES
  stake,      \* stake[p]: "absent", "serving", "leaving", "returned" or "forfeited"
  claimOn,    \* claimOn[c]: the provider claim c is made against, or NoProvider
  closed      \* the claims that were answered or have failed

bondVars == <<stake, claimOn, closed>>

OpenClaims(p) == {c \in Claims \ closed : claimOn[c] = p}

BondInit ==
  /\ stake = [p \in Providers |-> "absent"]
  /\ claimOn = [c \in Claims |-> NoProvider]
  /\ closed = {}

Enter(p) ==
  /\ stake[p] = "absent"
  /\ stake' = [stake EXCEPT ![p] = "serving"]
  /\ UNCHANGED <<claimOn, closed>>

Leave(p) ==
  /\ stake[p] = "serving"
  /\ stake' = [stake EXCEPT ![p] = "leaving"]
  /\ UNCHANGED <<claimOn, closed>>

Return(p) ==
  /\ stake[p] = "leaving"
  /\ OpenClaims(p) = {}
  /\ stake' = [stake EXCEPT ![p] = "returned"]
  /\ UNCHANGED <<claimOn, closed>>

Forfeit(p) ==
  /\ stake[p] = "serving"
  /\ stake' = [stake EXCEPT ![p] = "forfeited"]
  /\ UNCHANGED <<claimOn, closed>>

Accuse(c, p) ==
  /\ claimOn[c] = NoProvider
  /\ stake[p] \in {"serving", "leaving"}
  /\ claimOn' = [claimOn EXCEPT ![c] = p]
  /\ UNCHANGED <<stake, closed>>

Answer(c) ==
  /\ claimOn[c] # NoProvider /\ c \notin closed
  /\ stake[claimOn[c]] \in {"serving", "leaving"}
  /\ closed' = closed \cup {c}
  /\ UNCHANGED <<stake, claimOn>>

Fail(c) ==
  /\ claimOn[c] # NoProvider /\ c \notin closed
  /\ stake[claimOn[c]] \in {"serving", "leaving", "forfeited"}
  /\ closed' = closed \cup {c}
  /\ stake' = [stake EXCEPT ![claimOn[c]] = "forfeited"]
  /\ UNCHANGED claimOn

BondNext ==
  \/ \E p \in Providers : Enter(p) \/ Leave(p) \/ Return(p) \/ Forfeit(p)
  \/ \E c \in Claims : Answer(c) \/ Fail(c) \/ \E p \in Providers : Accuse(c, p)

BondSpec == BondInit /\ [][BondNext]_bondVars

=============================================================================
