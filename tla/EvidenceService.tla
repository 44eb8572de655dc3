--------------------------- MODULE EvidenceService ---------------------------
(***************************************************************************)
(* What internal/api/server.go promises to its clients: a service with one *)
(* ledger and one bucket that has at most one effect per request and says  *)
(* of it, in one indivisible step, what is so at that moment.  EvidenceAPI *)
(* implements this, though a handler checks a row it read earlier and      *)
(* calls the two stores one after the other.                               *)
(***************************************************************************)
EXTENDS EvidenceAPIData

VARIABLES
    packages, history, outbox,  \* the ledger
    objects, uploads,           \* the bucket and the uploads it would accept
    principal, request,         \* who asked for what
    effect,                     \* the package a request entered or decided
    answer                      \* what it was told

ledger == <<packages, history, outbox>>
serviceVars == <<packages, history, outbox, objects, uploads, principal, request, effect, answer>>

Ledger == INSTANCE EvidenceLedger

Init ==
    /\ Ledger!Init
    /\ objects = [k \in KeyTexts |-> NoObject]
    /\ uploads = {}
    /\ principal = [c \in Calls |-> NoPrincipal]
    /\ request = [c \in Calls |-> NoRequest]
    /\ effect = [c \in Calls |-> NoPackage]
    /\ answer = [c \in Calls |-> NoAnswer]

Sent(c) == CreateRequest(principal[c], request[c])

(* Package id has the tenant and the key of what c sent. *)
Kin(c, id) == Holds(packages, id, Sent(c).tenant, StoredKey[Sent(c).key])

(* The caller's tenant has the package it asks for; and its clearance covers it. *)
Visible(c) ==
    LET row == packages[request[c].package]
    IN  row # NoPackage /\ row.tenant = principal[c].tenant

Covered(c) ==
    ClearanceCovers(principal[c].clearance, packages[request[c].package].metadata.classification)

Entitled(c) == Visible(c) /\ Covered(c)

Present == {id \in PackageIDs : packages[id] # NoPackage}

(* The package as it is, or as it was before it was decided. *)
Versions(id) == {packages[id], [packages[id] EXCEPT !.status = "received"]}

-----------------------------------------------------------------------------
Ask(c, p, body) ==
    /\ request[c] = NoRequest
    /\ answer[c].code = "none"
    /\ principal' = [principal EXCEPT ![c] = p]
    /\ request' = [request EXCEPT ![c] = body]
    /\ UNCHANGED <<ledger, objects, uploads, effect, answer>>

(* A request is told once, and what it did is over with that. *)
Tell(c, code, id, row) ==
    /\ answer[c].code = "none"
    /\ answer' = [answer EXCEPT ![c] = [code |-> code, package |-> id, row |-> row]]
    /\ effect' = [effect EXCEPT ![c] = NoPackage]
    /\ UNCHANGED <<objects, principal, request>>

(* The one effect of a request, which it may be told of only as a failure. *)
Affect(c, id) ==
    /\ effect[c] = NoPackage
    /\ \/ /\ answer[c].code = "none"
          /\ effect' = [effect EXCEPT ![c] = id]
          /\ UNCHANGED <<objects, principal, request, answer>>
       \/ Tell(c, "failed", NoPackage, NoPackage)
    /\ UNCHANGED uploads

Receive(c, id) ==
    /\ request[c].op = "create"
    /\ Ledger!Receive(id, Sent(c))
    /\ Affect(c, id)

Decide(c, id) ==
    /\ request[c].op = "validate"
    /\ request[c].package = id
    /\ Entitled(c)
    /\ Ledger!Decide(id, request[c].status)
    /\ Affect(c, id)

(* An upload, for the package c created or for one with the same content. *)
Authorise(c, id, row) ==
    /\ request[c].op = "create"
    /\ Kin(c, id)
    /\ \/ effect[c] = id /\ Tell(c, "created", id, row)
       \/ effect[c] = NoPackage /\ Matches(Sent(c), packages[id]) /\ Tell(c, "retained", id, row)
    /\ uploads' = uploads \cup {UploadFor(row)}
    /\ UNCHANGED ledger

(* A package is shown to those entitled to it, as the bucket and the ledger are now. *)
Show(c, id, row) ==
    /\ request[c].op \in {"read", "confirm", "validate"}
    /\ request[c].package = id
    /\ Entitled(c)
    /\ \/ request[c].op = "read" /\ Tell(c, "read", id, row)
       \/ /\ request[c].op = "confirm"
          /\ objects[row.metadata.location] = row.metadata.digest
          /\ Tell(c, "confirmed", id, row)
       \/ /\ effect[c] = id
          /\ row = packages[id] /\ row.status = request[c].status
          /\ Tell(c, "recorded", id, row)
    /\ UNCHANGED <<ledger, uploads>>

(* Why a request is turned down: who asks, what is there, or a fault. *)
Reason(c, code) ==
    LET op == request[c].op
        Existing == op \in {"read", "confirm", "validate"}
    IN  \/ code \in {"unauthenticated", "forbidden"} /\ op = "none"
        \/ code = "not_found" /\ Existing /\ ~Visible(c)
        \/ code = "forbidden" /\ Existing /\ Visible(c) /\ ~Covered(c)
        \/ code = "conflict" /\ op = "create"
              /\ \E id \in PackageIDs : Kin(c, id) /\ ~Matches(Sent(c), packages[id])
        \/ code = "terminal" /\ op = "validate" /\ Entitled(c) /\ effect[c] = NoPackage
              /\ packages[request[c].package].status \in Terminal
        \/ code = "failed" /\ (op = "create" => effect[c] = NoPackage) /\ op # "none"
        \/ code = "invalid" /\ effect[c] = NoPackage
              /\ (op = "create" \/ (op = "validate" /\ Entitled(c)))
        \/ code = "unavailable" /\ op = "create" /\ \E id \in PackageIDs : Kin(c, id)
        \/ code = "unavailable" /\ op = "read" /\ Entitled(c)
        \/ code = "unverified" /\ op = "confirm" /\ Entitled(c)

Codes == {"unauthenticated", "forbidden", "not_found", "conflict", "terminal", "failed",
          "invalid", "unavailable", "unverified"}

TurnDown(c, code) ==
    /\ Reason(c, code)
    /\ Tell(c, code, NoPackage, NoPackage)
    /\ UNCHANGED <<ledger, uploads>>

-----------------------------------------------------------------------------
Upload(grant) ==
    /\ objects' = [objects EXCEPT ![grant.key] = grant.digest]
    /\ UNCHANGED <<ledger, uploads, principal, request, effect, answer>>

Expire(grant) ==
    /\ uploads' = uploads \ {grant}
    /\ UNCHANGED <<ledger, objects, principal, request, effect, answer>>

Next ==
    \/ \E c \in Calls :
          \/ \E p \in Callers, body \in Bodies : Ask(c, p, body)
          \/ \E id \in PackageIDs : Receive(c, id) \/ Decide(c, id)
          \/ \E id \in Present : \E row \in Versions(id) : Authorise(c, id, row) \/ Show(c, id, row)
          \/ \E code \in Codes : TurnDown(c, code)
    \/ \E grant \in uploads : Upload(grant) \/ Expire(grant)

Spec == Init /\ [][Next]_serviceVars
=============================================================================
