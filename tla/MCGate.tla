-------------------------------- MODULE MCGate --------------------------------
(***************************************************************************)
(* A small instance of Gate.  The initial state chooses what a behaviour   *)
(* is about: calls over every transport, the clockwork of the limiter, or  *)
(* the configuration of a server.                                          *)
(***************************************************************************)
EXTENDS Gate, TLC

CONSTANTS c1, c2, c3, t1, w1, a1, b1, x1, alice, bob, phone, laptop,
          Parts,     \* what is looked at
          Calling    \* tokens that are used

VARIABLE part

\* Two principals, each with a client, and a token that is none.
MCOwner == (a1 :> alice) @@ (b1 :> bob) @@ (x1 :> Nobody)
MCClients == (a1 :> {phone}) @@ (b1 :> {laptop}) @@ (x1 :> {})

\* Entries of three tokens, two subjects and two clients of one tenant.
StaticEntry ==
  [token : {"t1", "t2", "t3"}, subject : {alice, bob}, tenant : {"acme"},
   clients : (SUBSET {phone, laptop}) \ {{}}]

\* All lists of at most two entries, the empty one too, some of three, both kinds
\* of JWT, both modes and none.
Three(a, b) == <<[token |-> "t1", subject |-> alice, tenant |-> "acme", clients |-> {a}],
                 [token |-> "t2", subject |-> bob, tenant |-> "acme", clients |-> {b}],
                 [token |-> "t3", subject |-> bob, tenant |-> "acme", clients |-> {phone}]>>
Lists == UNION {[1..n -> StaticEntry] : n \in 0..2} \cup {Three(a, b) : a, b \in {phone, laptop}}

MCConfigs ==
  [jwt : {"unset"}, given : {TRUE}, static : Lists] \cup
  [jwt : {"claim", "open", "unset"}, given : {FALSE}, static : {<<>>}] \cup
  [jwt : {"claim"}, given : {TRUE}, static : {<<>>, <<Three(phone, phone)[1]>>}]

Claim(subject, role, list) == [subject |-> subject, role |-> role, tenant |-> "acme", clients |-> list]
MCClaims ==
  {Claim(alice, "authenticated", <<phone>>), Claim(bob, "authenticated", <<phone>>),
   Claim(alice, "authenticated", <<laptop, phone>>), Claim(bob, "authenticated", <<laptop, laptop>>),
   Claim(alice, "anonymous", <<laptop>>), Claim(alice, "authenticated", <<>>),
   Claim(Invalid, "authenticated", <<laptop>>)}

MCSymmetry == Permutations(Call)

\* Some tokens are not used, the rotated one not for a WebSocket; a body that is
\* too large is alice's, a foreign client id bob's, a malformed token comes first.
\* Two calls are under way at once; two are made, not three, after a malformed
\* token, when the key service is silent or was broken, and when keys are stale.
InPart ==
  /\ \A c \in Call : call[c].stage = "new" /\ call'[c].stage # "new" =>
       /\ call'[c].token \in Calling
       /\ call'[c].body = "wrong" => call'[c].token = a1
       /\ call'[c].client \notin Clients[call'[c].token] => call'[c].token # a1
       /\ call'[c].token \in Malformed => \A d \in Call : call[d].stage = "new"
  /\ \A w \in Ws : session'[w] \in (Calling \ Rotates) \cup {"closed"}
  /\ Cardinality({c \in Call : call'[c].stage \in {"verifying", "resolved"}}) <= 2
  /\ (\/ misled' # {} \/ verifier' # "up" \/ keys' = "stale"
      \/ \E c \in Call : call'[c].stage # "new" /\ call'[c].token \in Malformed) =>
        \E c \in Call : call'[c].stage = "new"

MCInit ==
  /\ Init /\ Limiter!Init /\ Configuration!Init
  /\ part \in Parts
  /\ part # "config" => config = [jwt |-> "unset", given |-> FALSE, static |-> <<>>]

MCNext ==
  \/ part = "calls" /\ Next /\ InPart /\ UNCHANGED <<part, limiterVars, configVars>>
  \/ part = "limiter" /\ Limiter!Next /\ UNCHANGED <<part, vars, configVars>>
  \/ part = "config" /\ Configuration!Next /\ UNCHANGED <<part, vars, limiterVars>>

MCSpec == MCInit /\ [][MCNext]_<<part, vars, limiterVars, configVars>>
=============================================================================
