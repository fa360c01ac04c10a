---------------------------- MODULE ObjectsProofs ---------------------------
(***************************************************************************)
(* Proofs about Objects, for any set of callers, texts, keys and manifests.*)
(*                                                                         *)
(* Each field of a node is stored and loaded by itself, so the invariant   *)
(* says how the fields of a node belong together: its issuer, subject and  *)
(* signatures are those of its ID, and each property of it has a claim     *)
(* with which it makes up the ID, and the other way around.                *)
(***************************************************************************)
EXTENDS Objects, TLAPS

(* What the quads of one node have in common.                              *)
NodesAgree(issuers, subjects, properties, claims, signatures) ==
    /\ \A q \in issuers : q[2] = Hex(q[1][1])
    /\ \A q \in subjects : q[2] = Hex(q[1][2])
    /\ \A q \in properties : \E p \in claims :
          p[1] = q[1] /\ q[2].text \o p[2].text = q[1][3]
    /\ \A q \in claims : \E p \in properties :
          p[1] = q[1] /\ p[2].text \o q[2].text = q[1][3]
    /\ \A q \in signatures : q[2].of = q[1] /\ q[2].by = q[1][1]
    /\ \A q \in signatures :
          /\ \E p \in issuers : p[1] = q[1]
          /\ \E p \in subjects : p[1] = q[1]
          /\ \E p \in properties : p[1] = q[1]
          /\ \E p \in claims : p[1] = q[1]

NodesInv ==
    NodesAgree(quads.issuer, quads.subject, quads.property, quads.claim, quads.signature)

(* The quads of a claim are in the graph.                                  *)
Stored(c) ==
    /\ <<ID(c), Hex(c.issuer)>> \in quads.issuer
    /\ <<ID(c), Hex(c.subject)>> \in quads.subject
    /\ <<ID(c), Literal(c.property)>> \in quads.property
    /\ <<ID(c), Literal(c.claim)>> \in quads.claim
    /\ <<ID(c), c.signature>> \in quads.signature

(* Acknowledged claims are stored, and so is one about to be.              *)
AckedInv ==
    /\ \A c \in acked : Stored(c)
    /\ \A r \in Callers : pc[r] = "commitClaim" => Stored(arg[r])

(* What the dapp quads name was uploaded, before it was written.           *)
DappInv ==
    /\ \A q \in quads.manifestHash : q[2] \in swarm
    /\ \A r \in Callers : pc[r] \in {"dapp", "publish"} => hash[r] \in swarm
    /\ \A r \in Callers : pc[r] = "publish"
          => <<URIString(arg[r]), hash[r]>> \in quads.manifestHash

ObjectsInv ==
    TypeOK /\ NodesInv /\ AckedInv /\ DappInv /\ DeployedIsFound /\ ServedIsUploaded

(* The history and the tables with nothing but requests in motion.         *)
store == <<quads, swarm, root, acked, deployed>>

-----------------------------------------------------------------------------
LEMMA IDType == ASSUME NEW c \in Claims PROVE ID(c) \in IDs
<1>1. c.issuer \in Ids /\ c.subject \in Ids /\ c.property \in Properties /\ c.claim \in Contents
  BY DEF Claims
<1>2. c.property \in Seq(STRING) /\ c.claim \in Seq(STRING)
  BY <1>1, TextsAssumption
<1>3. c.property \o c.claim \in Seq(STRING)
  BY <1>2
<1> QED
  BY <1>1, <1>3 DEF ID, IDs

(* The tables after a claim is written.                                    *)
LEMMA ClaimWritten ==
    ASSUME TypeOK, NEW c \in Claims, quads' = WithClaimQuads(c)
    PROVE  /\ quads'.issuer = quads.issuer \cup {<<ID(c), Hex(c.issuer)>>}
           /\ quads'.subject = quads.subject \cup {<<ID(c), Hex(c.subject)>>}
           /\ quads'.property = quads.property \cup {<<ID(c), Literal(c.property)>>}
           /\ quads'.claim = quads.claim \cup {<<ID(c), Literal(c.claim)>>}
           /\ quads'.signature = quads.signature \cup {<<ID(c), c.signature>>}
           /\ quads'.manifestHash = quads.manifestHash
           /\ quads' = [issuer |-> quads'.issuer, subject |-> quads'.subject,
                        property |-> quads'.property, claim |-> quads'.claim,
                        signature |-> quads'.signature, manifestHash |-> quads'.manifestHash]
BY DEF TypeOK, WithClaimQuads

LEMMA DappWritten ==
    ASSUME TypeOK, NEW q, quads' = [quads EXCEPT !.manifestHash = @ \cup {q}]
    PROVE  /\ quads'.issuer = quads.issuer
           /\ quads'.subject = quads.subject
           /\ quads'.property = quads.property
           /\ quads'.claim = quads.claim
           /\ quads'.signature = quads.signature
           /\ quads'.manifestHash = quads.manifestHash \cup {q}
           /\ quads' = [issuer |-> quads'.issuer, subject |-> quads'.subject,
                        property |-> quads'.property, claim |-> quads'.claim,
                        signature |-> quads'.signature, manifestHash |-> quads'.manifestHash]
BY DEF TypeOK

(* What a claim is with a signature of its own or a replayed one.          *)
LEMMA ArrivingType ==
    ASSUME TypeOK, NEW c \in Unsigned, NEW s \in Arriving(c)
    PROVE  WithSignature(c, s) \in Claims
<1>1. c.issuer \in Ids /\ c.subject \in Ids /\ c.property \in Properties /\ c.claim \in Contents
  BY DEF Unsigned
<1>2. c.property \in Seq(STRING) /\ c.claim \in Seq(STRING)
  BY <1>1, TextsAssumption
<1>3. c.property \o c.claim \in Seq(STRING)
  BY <1>2
<1>4. ID(c) \in IDs
  BY <1>1, <1>3 DEF ID, IDs
<1>5. s \in Signatures
  <2>1. CASE s \in [by : Ids, of : {ID(c)}, variant : Variants]
    BY <1>4, <2>1 DEF Signatures
  <2>2. CASE s \in {d.signature : d \in acked}
    BY <2>2 DEF TypeOK, Claims
  <2> QED
    BY <2>1, <2>2 DEF Arriving
<1> QED
  BY <1>1, <1>5 DEF WithSignature, Claims

-----------------------------------------------------------------------------
(* Type correctness.                                                       *)

LEMMA TypeInit == Init => TypeOK
BY ObjectsOptionsAssumption DEF Init, TypeOK, WithClaim, WithURI, WithHash

(* Requests come and go without touching the tables.                       *)
LEMMA ArriveType ==
    ASSUME TypeOK, UNCHANGED store, NEW r \in Callers, NEW where, NEW a, NEW m,
           Arrive(r, where, a, m),
           where \in {"claim", "upload", "load", "serve"},
           where = "claim" => a \in Claims,
           where \in {"upload", "load"} => a \in URIs,
           where \in {"upload", "serve"} => m \in Manifests
    PROVE  TypeOK'
BY ObjectsOptionsAssumption DEF TypeOK, store, Arrive, WithClaim, WithURI, WithHash

LEMMA ReturnType ==
    ASSUME TypeOK, UNCHANGED <<quads, swarm>>, NEW r \in Callers, Return(r),
           root' \in Manifests \cup {None}, acked' \subseteq Claims,
           deployed' \subseteq Paths \X Manifests
    PROVE  TypeOK'
BY DEF TypeOK, Return, WithClaim, WithURI, WithHash

LEMMA TypeStep == TypeOK /\ [Next]_vars => TypeOK'
<1> SUFFICES ASSUME TypeOK, [Next]_vars PROVE TypeOK'
  OBVIOUS
<1>1. CASE UNCHANGED vars
  BY <1>1 DEF vars, TypeOK
<1>2. ASSUME NEW r \in Callers, NEW c \in Unsigned, NEW s \in Arriving(c),
             CreateClaim(r, WithSignature(c, s))
      PROVE  TypeOK'
  BY <1>2, ArrivingType, ArriveType DEF CreateClaim, store
<1>3. ASSUME NEW r \in Callers, WriteClaim(r) PROVE TypeOK'
  <2> DEFINE c == arg[r]
  <2>1. c \in Claims /\ quads' = WithClaimQuads(c) /\ Goto(r, "commitClaim")
        /\ UNCHANGED <<swarm, root, acked, deployed>>
    BY <1>3 DEF WriteClaim, TypeOK, WithClaim
  <2>2. /\ ID(c) \in IDs
        /\ Hex(c.issuer) \in Addresses /\ Hex(c.subject) \in Addresses
        /\ Literal(c.property) \in Literals(Properties)
        /\ Literal(c.claim) \in Literals(Contents)
        /\ c.signature \in Signatures
    BY <2>1, IDType DEF Claims, Addresses, Literal, Literals
  <2> HIDE DEF c
  <2>3. quads' \in [issuer : SUBSET (IDs \X Addresses), subject : SUBSET (IDs \X Addresses),
                    property : SUBSET (IDs \X Literals(Properties)),
                    claim : SUBSET (IDs \X Literals(Contents)),
                    signature : SUBSET (IDs \X Signatures),
                    manifestHash : SUBSET (Canonical \X Manifests)]
    <3>1. /\ quads'.issuer \subseteq IDs \X Addresses
          /\ quads'.subject \subseteq IDs \X Addresses
          /\ quads'.property \subseteq IDs \X Literals(Properties)
          /\ quads'.claim \subseteq IDs \X Literals(Contents)
          /\ quads'.signature \subseteq IDs \X Signatures
          /\ quads'.manifestHash \subseteq Canonical \X Manifests
      BY <2>1, <2>2, ClaimWritten DEF TypeOK
    <3> QED
      BY <2>1, <3>1, ClaimWritten
  <2>4. pc' = [pc EXCEPT ![r] = "commitClaim"] /\ UNCHANGED <<arg, hash, jobs>> /\ pc[r] = "claim"
    BY <2>1, <1>3 DEF Goto, WriteClaim
  <2> QED
    BY <2>1, <2>3, <2>4 DEF TypeOK, WithClaim, WithURI, WithHash
<1>4. ASSUME NEW r \in Callers, RejectClaim(r) \/ DappNotFound(r) \/ ServeContent(r) \/ Fail(r)
      PROVE  TypeOK'
  BY <1>4, ReturnType DEF RejectClaim, DappNotFound, ServeContent, Fail, TypeOK
<1>5. ASSUME NEW r \in Callers, CommitClaim(r) PROVE TypeOK'
  <2>1. acked' \subseteq Claims
    BY <1>5 DEF CommitClaim, TypeOK, WithClaim
  <2> QED
    BY <1>5, <2>1, ReturnType DEF CommitClaim, TypeOK
<1>6. ASSUME NEW r \in Callers, NEW u \in URIs, NEW m \in Manifests, Deploy(r, u, m)
      PROVE  TypeOK'
  BY <1>6, ArriveType DEF Deploy, store
<1>7. ASSUME NEW r \in Callers, UploadDirectory(r) PROVE TypeOK'
  BY <1>7 DEF UploadDirectory, Store, Goto, TypeOK, WithClaim, WithURI, WithHash
<1>8. ASSUME NEW r \in Callers, WriteDapp(r) PROVE TypeOK'
  <2> DEFINE q == <<URIString(arg[r]), hash[r]>>
  <2>1. /\ pc[r] = "dapp" /\ quads' = [quads EXCEPT !.manifestHash = @ \cup {q}]
        /\ pc' = [pc EXCEPT ![r] = "publish"]
        /\ UNCHANGED <<arg, hash, jobs, swarm, root, acked, deployed>>
    BY <1>8 DEF WriteDapp, Goto
  <2>2. q \in Canonical \X Manifests
    BY <2>1 DEF TypeOK, WithURI, WithHash, URIString, Canonical, URIs
  <2> HIDE DEF q
  <2>3. quads' \in [issuer : SUBSET (IDs \X Addresses), subject : SUBSET (IDs \X Addresses),
                    property : SUBSET (IDs \X Literals(Properties)),
                    claim : SUBSET (IDs \X Literals(Contents)),
                    signature : SUBSET (IDs \X Signatures),
                    manifestHash : SUBSET (Canonical \X Manifests)]
    BY <2>1, <2>2, DappWritten DEF TypeOK
  <2> QED
    BY <2>1, <2>3 DEF TypeOK, WithClaim, WithURI, WithHash
<1>9. ASSUME NEW r \in Callers, Publish(r) PROVE TypeOK'
  <2>1. deployed' \subseteq Paths \X Manifests
    BY <1>9 DEF Publish, TypeOK, WithURI, WithHash, URIs
  <2> QED
    BY <1>9, <2>1, ReturnType DEF Publish, TypeOK
<1>10. ASSUME NEW r \in Callers, NEW u \in URIs, SetRootDapp(r, u) PROVE TypeOK'
  BY <1>10, ArriveType DEF SetRootDapp, store
<1>11. ASSUME NEW r \in Callers, NEW m \in Manifests, LoadDapp(r, m) PROVE TypeOK'
  BY <1>11 DEF LoadDapp, TypeOK, WithClaim, WithURI, WithHash
<1>12. ASSUME NEW r \in Callers, SetDapp(r) PROVE TypeOK'
  <2>1. root' \in Manifests \cup {None}
    BY <1>12 DEF SetDapp, TypeOK, WithHash
  <2> QED
    BY <1>12, <2>1, ReturnType DEF SetDapp, TypeOK
<1>13. ASSUME NEW r \in Callers, ServeDapp(r) PROVE TypeOK'
  BY <1>13, ArriveType DEF ServeDapp, store, TypeOK
<1> QED
  BY <1>1, <1>2, <1>3, <1>4, <1>5, <1>6, <1>7, <1>8, <1>9, <1>10, <1>11, <1>12, <1>13
  DEF Next, ClaimStep, DappStep

(* Every variable keeps its type, and everything stored is spelt as Hex    *)
(* and URI.String spell it, whatever spelling the callers use.             *)
THEOREM TypeCorrect == Spec => []TypeOK
BY TypeInit, TypeStep, PTL DEF Spec

-----------------------------------------------------------------------------
(* The invariant.                                                          *)

LEMMA InvInit == Init => ObjectsInv
<1> SUFFICES ASSUME Init PROVE ObjectsInv
  OBVIOUS
<1>1. NodesInv
  BY DEF Init, NodesInv, NodesAgree
<1>2. AckedInv /\ DappInv
  BY DEF Init, AckedInv, DappInv
<1>3. DeployedIsFound /\ ServedIsUploaded
  BY DEF Init, DeployedIsFound, ServedIsUploaded
<1> QED
  BY <1>1, <1>2, <1>3, TypeInit DEF ObjectsInv

(* Only these fields matter to the nodes of claims.                        *)
LEMMA NodesUnchanged ==
    ASSUME NodesInv, quads'.issuer = quads.issuer, quads'.subject = quads.subject,
           quads'.property = quads.property, quads'.claim = quads.claim,
           quads'.signature = quads.signature
    PROVE  NodesInv'
BY DEF NodesInv

(* A claim that verifies is written to the node of its ID.                 *)
LEMMA NodesWritten ==
    ASSUME TypeOK, NodesInv, NEW c \in Claims, VerifyClaim(c), quads' = WithClaimQuads(c)
    PROVE  NodesInv' /\ Stored(c)'
<1> DEFINE id == ID(c)
<1>1. /\ id[1] = c.issuer /\ id[2] = c.subject /\ id[3] = c.property \o c.claim
      /\ c.signature.of = id /\ c.signature.by = c.issuer
      /\ Literal(c.property).text = c.property /\ Literal(c.claim).text = c.claim
  BY DEF ID, VerifyClaim, Literal
<1> HIDE DEF id
<1>2. /\ quads'.issuer = quads.issuer \cup {<<id, Hex(c.issuer)>>}
      /\ quads'.subject = quads.subject \cup {<<id, Hex(c.subject)>>}
      /\ quads'.property = quads.property \cup {<<id, Literal(c.property)>>}
      /\ quads'.claim = quads.claim \cup {<<id, Literal(c.claim)>>}
      /\ quads'.signature = quads.signature \cup {<<id, c.signature>>}
  BY ClaimWritten DEF id
<1>3. \A q \in quads'.issuer : q[2] = Hex(q[1][1])
  BY <1>1, <1>2 DEF NodesInv, NodesAgree
<1>4. \A q \in quads'.subject : q[2] = Hex(q[1][2])
  BY <1>1, <1>2 DEF NodesInv, NodesAgree
<1>5. \A q \in quads'.property : \E p \in quads'.claim :
          p[1] = q[1] /\ q[2].text \o p[2].text = q[1][3]
  <2> SUFFICES ASSUME NEW q \in quads'.property
               PROVE  \E p \in quads'.claim : p[1] = q[1] /\ q[2].text \o p[2].text = q[1][3]
    OBVIOUS
  <2>1. CASE q \in quads.property
    BY <1>2, <2>1 DEF NodesInv, NodesAgree
  <2>2. CASE q = <<id, Literal(c.property)>>
    <3>1. <<id, Literal(c.claim)>> \in quads'.claim
      BY <1>2
    <3> QED
      BY <1>1, <2>2, <3>1
  <2> QED
    BY <1>2, <2>1, <2>2
<1>6. \A q \in quads'.claim : \E p \in quads'.property :
          p[1] = q[1] /\ p[2].text \o q[2].text = q[1][3]
  <2> SUFFICES ASSUME NEW q \in quads'.claim
               PROVE  \E p \in quads'.property : p[1] = q[1] /\ p[2].text \o q[2].text = q[1][3]
    OBVIOUS
  <2>1. CASE q \in quads.claim
    BY <1>2, <2>1 DEF NodesInv, NodesAgree
  <2>2. CASE q = <<id, Literal(c.claim)>>
    <3>1. <<id, Literal(c.property)>> \in quads'.property
      BY <1>2
    <3> QED
      BY <1>1, <2>2, <3>1
  <2> QED
    BY <1>2, <2>1, <2>2
<1>7. \A q \in quads'.signature : q[2].of = q[1] /\ q[2].by = q[1][1]
  BY <1>1, <1>2 DEF NodesInv, NodesAgree
<1>8. \A q \in quads'.signature :
          /\ \E p \in quads'.issuer : p[1] = q[1]
          /\ \E p \in quads'.subject : p[1] = q[1]
          /\ \E p \in quads'.property : p[1] = q[1]
          /\ \E p \in quads'.claim : p[1] = q[1]
  <2> SUFFICES ASSUME NEW q \in quads'.signature
               PROVE  /\ \E p \in quads'.issuer : p[1] = q[1]
                      /\ \E p \in quads'.subject : p[1] = q[1]
                      /\ \E p \in quads'.property : p[1] = q[1]
                      /\ \E p \in quads'.claim : p[1] = q[1]
    OBVIOUS
  <2>1. CASE q \in quads.signature
    BY <1>2, <2>1 DEF NodesInv, NodesAgree
  <2>2. CASE q = <<id, c.signature>>
    <3>1. <<id, Hex(c.issuer)>> \in quads'.issuer /\ <<id, Hex(c.subject)>> \in quads'.subject
          /\ <<id, Literal(c.property)>> \in quads'.property
          /\ <<id, Literal(c.claim)>> \in quads'.claim
      BY <1>2
    <3> QED
      BY <2>2, <3>1
  <2> QED
    BY <1>2, <2>1, <2>2
<1> QED
  BY <1>2, <1>3, <1>4, <1>5, <1>6, <1>7, <1>8 DEF NodesInv, NodesAgree, Stored, id

(* What is stored stays stored.                                            *)
LEMMA StaysStored ==
    ASSUME NEW c, Stored(c),
           quads.issuer \subseteq quads'.issuer, quads.subject \subseteq quads'.subject,
           quads.property \subseteq quads'.property, quads.claim \subseteq quads'.claim,
           quads.signature \subseteq quads'.signature
    PROVE  /\ <<ID(c), Hex(c.issuer)>> \in quads'.issuer
           /\ <<ID(c), Hex(c.subject)>> \in quads'.subject
           /\ <<ID(c), Literal(c.property)>> \in quads'.property
           /\ <<ID(c), Literal(c.claim)>> \in quads'.claim
           /\ <<ID(c), c.signature>> \in quads'.signature
BY DEF Stored

(* Field is membership of a pair.                                          *)
LEMMA FieldPair ==
    ASSUME NEW S, NEW T, NEW pairs \in SUBSET (S \X T), NEW id, NEW v
    PROVE  v \in Field(pairs, id) <=> <<id, v>> \in pairs
BY DEF Field

(* The steps that leave the tables and the histories alone.                *)
LEMMA QuietStep ==
    ASSUME ObjectsInv, TypeOK', UNCHANGED store, NEW r \in Callers,
           \A x \in Callers \ {r} : pc'[x] = pc[x] /\ arg'[x] = arg[x] /\ hash'[x] = hash[x],
           pc'[r] \in {"idle", "claim", "upload", "load", "setDapp", "serve"},
           pc'[r] \in {"setDapp", "serve"} => hash'[r] \in swarm
    PROVE  ObjectsInv'
<1>1. NodesInv'
  BY DEF ObjectsInv, NodesInv, NodesAgree, store
<1>2. AckedInv'
  BY DEF ObjectsInv, AckedInv, Stored, store
<1>3. DappInv'
  BY DEF ObjectsInv, DappInv, store
<1>4. DeployedIsFound' /\ ServedIsUploaded'
  BY DEF ObjectsInv, DeployedIsFound, ServedIsUploaded, store
<1> QED
  BY <1>1, <1>2, <1>3, <1>4 DEF ObjectsInv

LEMMA InvStep == ObjectsInv /\ [Next]_vars => ObjectsInv'
<1> SUFFICES ASSUME ObjectsInv, [Next]_vars PROVE ObjectsInv'
  OBVIOUS
<1>0. TypeOK /\ TypeOK'
  BY TypeStep DEF ObjectsInv
<1>1. CASE UNCHANGED vars
  BY <1>1 DEF vars, ObjectsInv, TypeOK, NodesInv, NodesAgree, AckedInv, Stored, DappInv,
              DeployedIsFound, ServedIsUploaded
<1>2. ASSUME NEW r \in Callers, NEW where \in {"claim", "upload", "load", "serve"}, NEW a, NEW m,
             Arrive(r, where, a, m), UNCHANGED store, where = "serve" => m \in swarm
      PROVE  ObjectsInv'
  BY <1>0, <1>2, QuietStep DEF Arrive, TypeOK
<1>3. ASSUME NEW r \in Callers, Return(r), UNCHANGED store PROVE ObjectsInv'
  BY <1>0, <1>3, QuietStep DEF Return, TypeOK
<1>4. ASSUME NEW r \in Callers, WriteClaim(r) PROVE ObjectsInv'
  <2> DEFINE c == arg[r]
  <2>1. /\ c \in Claims /\ VerifyClaim(c) /\ quads' = WithClaimQuads(c)
        /\ pc' = [pc EXCEPT ![r] = "commitClaim"]
        /\ UNCHANGED <<arg, hash, jobs, swarm, root, acked, deployed>>
    BY <1>0, <1>4 DEF WriteClaim, Accepted, Goto, TypeOK, WithClaim
  <2>2. NodesInv' /\ Stored(c)'
    BY <1>0, <2>1, NodesWritten DEF ObjectsInv
  <2>3. /\ quads.issuer \subseteq quads'.issuer /\ quads.subject \subseteq quads'.subject
        /\ quads.property \subseteq quads'.property /\ quads.claim \subseteq quads'.claim
        /\ quads.signature \subseteq quads'.signature
        /\ quads'.manifestHash = quads.manifestHash
    BY <1>0, <2>1, ClaimWritten
  <2>4. AckedInv'
    <3>1. ASSUME NEW d \in acked PROVE Stored(d)'
      BY <2>3, <3>1, StaysStored DEF ObjectsInv, AckedInv, Stored
    <3>2. ASSUME NEW x \in Callers, pc'[x] = "commitClaim" PROVE Stored(arg[x])'
      <4>1. CASE x = r
        BY <2>1, <2>2, <4>1 DEF Stored
      <4>2. CASE x # r
        <5>1. Stored(arg[x])
          BY <1>0, <2>1, <3>2, <4>2 DEF ObjectsInv, AckedInv, TypeOK
        <5>2. arg'[x] = arg[x]
          BY <2>1
        <5> QED
          BY <5>1, <5>2, <2>3, StaysStored DEF Stored
      <4> QED
        BY <4>1, <4>2
    <3> QED
      BY <2>1, <3>1, <3>2 DEF AckedInv
  <2>5. DappInv'
    BY <1>0, <2>1, <2>3 DEF ObjectsInv, DappInv, TypeOK
  <2>6. DeployedIsFound' /\ ServedIsUploaded'
    BY <1>0, <2>1, <2>3 DEF ObjectsInv, DeployedIsFound, ServedIsUploaded, TypeOK
  <2> QED
    BY <1>0, <2>2, <2>4, <2>5, <2>6 DEF ObjectsInv
<1>5. ASSUME NEW r \in Callers, CommitClaim(r) PROVE ObjectsInv'
  <2>1. /\ pc[r] = "commitClaim" /\ acked' = acked \cup {arg[r]}
        /\ pc' = [pc EXCEPT ![r] = "idle"] /\ UNCHANGED <<quads, swarm, root, deployed>>
        /\ \A x \in Callers \ {r} : arg'[x] = arg[x] /\ hash'[x] = hash[x]
    BY <1>0, <1>5 DEF CommitClaim, Return, TypeOK
  <2>2. NodesInv'
    BY <2>1 DEF ObjectsInv, NodesInv, NodesAgree
  <2>3. AckedInv'
    BY <1>0, <2>1 DEF ObjectsInv, AckedInv, Stored, TypeOK
  <2>4. DappInv' /\ DeployedIsFound' /\ ServedIsUploaded'
    BY <1>0, <2>1 DEF ObjectsInv, DappInv, DeployedIsFound, ServedIsUploaded, TypeOK
  <2> QED
    BY <1>0, <2>2, <2>3, <2>4 DEF ObjectsInv
<1>6. ASSUME NEW r \in Callers, UploadDirectory(r) PROVE ObjectsInv'
  <2>1. /\ pc[r] = "upload" /\ swarm' = swarm \cup {hash[r]}
        /\ pc' = [pc EXCEPT ![r] = "dapp"]
        /\ UNCHANGED <<arg, hash, jobs, quads, root, acked, deployed>>
    BY <1>6 DEF UploadDirectory, Store, Goto
  <2>2. NodesInv' /\ AckedInv'
    BY <1>0, <2>1 DEF ObjectsInv, NodesInv, NodesAgree, AckedInv, Stored, TypeOK
  <2>3. DappInv' /\ DeployedIsFound' /\ ServedIsUploaded'
    BY <1>0, <2>1 DEF ObjectsInv, DappInv, DeployedIsFound, ServedIsUploaded, TypeOK
  <2> QED
    BY <1>0, <2>2, <2>3 DEF ObjectsInv
<1>7. ASSUME NEW r \in Callers, WriteDapp(r) PROVE ObjectsInv'
  <2> DEFINE q == <<URIString(arg[r]), hash[r]>>
  <2>1. /\ pc[r] = "dapp" /\ quads' = [quads EXCEPT !.manifestHash = @ \cup {q}]
        /\ pc' = [pc EXCEPT ![r] = "publish"]
        /\ UNCHANGED <<arg, hash, jobs, swarm, root, acked, deployed>>
    BY <1>7 DEF WriteDapp, Goto
  <2>2. /\ quads'.issuer = quads.issuer /\ quads'.subject = quads.subject
        /\ quads'.property = quads.property /\ quads'.claim = quads.claim
        /\ quads'.signature = quads.signature
        /\ quads'.manifestHash = quads.manifestHash \cup {q}
    BY <1>0, <2>1, DappWritten
  <2>3. NodesInv'
    BY <2>2, NodesUnchanged DEF ObjectsInv
  <2>4. AckedInv'
    BY <1>0, <2>1, <2>2 DEF ObjectsInv, AckedInv, Stored, TypeOK
  <2>5. DappInv'
    BY <1>0, <2>1, <2>2 DEF ObjectsInv, DappInv, TypeOK
  <2>6. DeployedIsFound'
    <3> SUFFICES ASSUME NEW d \in deployed
                 PROVE  d[2] \in Field(quads'.manifestHash, [form |-> "checksum", path |-> d[1]])
      BY <2>1 DEF DeployedIsFound
    <3> DEFINE u == [form |-> "checksum", path |-> d[1]]
    <3>1. d[2] \in Field(quads.manifestHash, u)
      BY DEF ObjectsInv, DeployedIsFound
    <3> QED
      BY <2>2, <3>1 DEF Field
  <2>7. ServedIsUploaded'
    BY <1>0, <2>1 DEF ObjectsInv, ServedIsUploaded, TypeOK
  <2> QED
    BY <1>0, <2>3, <2>4, <2>5, <2>6, <2>7 DEF ObjectsInv
<1>8. ASSUME NEW r \in Callers, Publish(r) PROVE ObjectsInv'
  <2>1. /\ pc[r] = "publish" /\ deployed' = deployed \cup {<<arg[r].path, hash[r]>>}
        /\ pc' = [pc EXCEPT ![r] = "idle"] /\ UNCHANGED <<quads, swarm, root, acked>>
        /\ \A x \in Callers \ {r} : arg'[x] = arg[x] /\ hash'[x] = hash[x]
    BY <1>0, <1>8 DEF Publish, Return, TypeOK
  <2>2. NodesInv' /\ AckedInv'
    BY <1>0, <2>1 DEF ObjectsInv, NodesInv, NodesAgree, AckedInv, Stored, TypeOK
  <2>3. DappInv' /\ ServedIsUploaded'
    BY <1>0, <2>1 DEF ObjectsInv, DappInv, ServedIsUploaded, TypeOK
  <2>4. hash[r] \in Field(quads.manifestHash, [form |-> "checksum", path |-> arg[r].path])
    <3>1. <<URIString(arg[r]), hash[r]>> \in quads.manifestHash
      BY <2>1 DEF ObjectsInv, DappInv
    <3>2. quads.manifestHash \in SUBSET (Canonical \X Manifests)
      BY <1>0 DEF TypeOK
    <3>3. hash[r] \in Field(quads.manifestHash, URIString(arg[r]))
      BY <3>1, <3>2, FieldPair
    <3> QED
      BY <3>3 DEF URIString
  <2>5. DeployedIsFound'
    <3> SUFFICES ASSUME NEW d \in deployed'
                 PROVE  d[2] \in Field(quads.manifestHash, [form |-> "checksum", path |-> d[1]])
      BY <2>1 DEF DeployedIsFound
    <3>1. CASE d \in deployed
      BY <3>1 DEF ObjectsInv, DeployedIsFound
    <3>2. CASE d = <<arg[r].path, hash[r]>>
      <4>1. d[1] = arg[r].path /\ d[2] = hash[r]
        BY <3>2
      <4> QED
        BY <2>4, <4>1
    <3> QED
      BY <2>1, <3>1, <3>2
  <2> QED
    BY <1>0, <2>2, <2>3, <2>5 DEF ObjectsInv
<1>9. ASSUME NEW r \in Callers, NEW m \in Manifests, LoadDapp(r, m) PROVE ObjectsInv'
  <2>1. quads.manifestHash \in SUBSET (Canonical \X Manifests)
    BY <1>0 DEF TypeOK
  <2>2. <<arg[r], m>> \in quads.manifestHash
    BY <1>9, <2>1, FieldPair DEF LoadDapp
  <2>3. m \in swarm
    BY <2>2 DEF ObjectsInv, DappInv
  <2> QED
    BY <1>0, <1>9, <2>3, QuietStep DEF LoadDapp, TypeOK, store
<1>10. ASSUME NEW r \in Callers, SetDapp(r) PROVE ObjectsInv'
  <2>1. /\ pc[r] = "setDapp" /\ root' = hash[r]
        /\ pc' = [pc EXCEPT ![r] = "idle"] /\ UNCHANGED <<quads, swarm, acked, deployed>>
        /\ \A x \in Callers \ {r} : arg'[x] = arg[x] /\ hash'[x] = hash[x]
    BY <1>0, <1>10 DEF SetDapp, Return, TypeOK
  <2>2. NodesInv' /\ AckedInv'
    BY <1>0, <2>1 DEF ObjectsInv, NodesInv, NodesAgree, AckedInv, Stored, TypeOK
  <2>3. DappInv' /\ DeployedIsFound' /\ ServedIsUploaded'
    BY <1>0, <2>1 DEF ObjectsInv, DappInv, DeployedIsFound, ServedIsUploaded, TypeOK
  <2> QED
    BY <1>0, <2>2, <2>3 DEF ObjectsInv
<1>11. ASSUME NEW r \in Callers, ClaimStep(r) PROVE ObjectsInv'
  BY <1>2, <1>3, <1>4, <1>5, <1>11 DEF ClaimStep, CreateClaim, RejectClaim, store
<1>12. ASSUME NEW r \in Callers, DappStep(r) PROVE ObjectsInv'
  <2>1. ServeDapp(r) => ObjectsInv'
    BY <1>2 DEF ServeDapp, store, ObjectsInv, ServedIsUploaded
  <2>2. \A u \in URIs, m \in Manifests : Deploy(r, u, m) => ObjectsInv'
    BY <1>2 DEF Deploy, store
  <2>3. \A u \in URIs : SetRootDapp(r, u) => ObjectsInv'
    BY <1>2 DEF SetRootDapp, store
  <2>4. DappNotFound(r) \/ ServeContent(r) => ObjectsInv'
    BY <1>3 DEF DappNotFound, ServeContent, store
  <2> QED
    BY <1>6, <1>7, <1>8, <1>9, <1>10, <1>12, <2>1, <2>2, <2>3, <2>4 DEF DappStep
<1>13. ASSUME NEW r \in Callers, Fail(r) PROVE ObjectsInv'
  BY <1>3, <1>13 DEF Fail, store
<1> QED
  BY <1>1, <1>11, <1>12, <1>13 DEF Next

LEMMA InvHolds == Spec => []ObjectsInv
BY InvInit, InvStep, PTL DEF Spec

-----------------------------------------------------------------------------
(* A deployed dapp is found by its URI with the checksum.                  *)
THEOREM DeployedIsFoundHolds == Spec => []DeployedIsFound
<1>1. ObjectsInv => DeployedIsFound
  BY DEF ObjectsInv
<1> QED
  BY <1>1, InvHolds, PTL

(* What is or becomes the root dapp can be read from Swarm.                *)
THEOREM ServedIsUploadedHolds == Spec => []ServedIsUploaded
<1>1. ObjectsInv => ServedIsUploaded
  BY DEF ObjectsInv
<1> QED
  BY <1>1, InvHolds, PTL

(* What the invariant says of the values of one node.                      *)
LEMMA NodeFields ==
    ASSUME NodesInv, NEW id
    PROVE  /\ \A s \in Field(quads.issuer, id) : s = Hex(id[1])
           /\ \A s \in Field(quads.subject, id) : s = Hex(id[2])
           /\ \A g \in Field(quads.signature, id) : g.of = id /\ g.by = id[1]
<1>1. \A s \in Field(quads.issuer, id) : s = Hex(id[1])
  BY DEF Field, NodesInv, NodesAgree
<1>2. \A s \in Field(quads.subject, id) : s = Hex(id[2])
  BY DEF Field, NodesInv, NodesAgree
<1>3. \A g \in Field(quads.signature, id) : g.of = id /\ g.by = id[1]
  BY DEF Field, NodesInv, NodesAgree
<1> QED
  BY <1>1, <1>2, <1>3

(* The only property of a node makes up its ID with any claim of it.       *)
LEMMA NodeTexts ==
    ASSUME NodesInv, NEW id, ~Clashes(id),
           NEW p \in Field(quads.property, id), NEW c \in Field(quads.claim, id)
    PROVE  p.text \o c.text = id[3]
<1>1. PICK q \in quads.claim : q[1] = id /\ q[2] = c
  BY DEF Field
<1>2. \E o \in quads.property : o[1] = q[1] /\ o[2].text \o q[2].text = q[1][3]
  BY DEF NodesInv, NodesAgree
<1>3. PICK o \in quads.property : o[1] = id /\ o[2].text \o c.text = id[3]
  BY <1>1, <1>2
<1>4. o[2] \in Field(quads.property, id)
  BY <1>3 DEF Field
<1>5. o[2] = p
  BY <1>4 DEF Clashes
<1> QED
  BY <1>3, <1>5

(* Every claim that a query returns has the ID of its node and the         *)
(* signature of its issuer, unless two claims clash on that node.          *)
THEOREM LoadedClaimsVerifyHolds == Spec => []LoadedClaimsVerify
<1>1. ASSUME TypeOK, NodesInv, NEW q \in quads.signature PROVE Loaded(q[1]) # {}
  <2> DEFINE id == q[1]
  <2>1. PICK i \in quads.issuer : i[1] = id
    BY <1>1 DEF NodesInv, NodesAgree
  <2>2. PICK s \in quads.subject : s[1] = id
    BY <1>1 DEF NodesInv, NodesAgree
  <2>3. PICK p \in quads.property : p[1] = id
    BY <1>1 DEF NodesInv, NodesAgree
  <2>4. PICK c \in quads.claim : c[1] = id
    BY <1>1 DEF NodesInv, NodesAgree
  <2>5. /\ i[2] \in Field(quads.issuer, id) /\ s[2] \in Field(quads.subject, id)
        /\ p[2] \in Field(quads.property, id) /\ c[2] \in Field(quads.claim, id)
        /\ q[2] \in Field(quads.signature, id)
    BY <2>1, <2>2, <2>3, <2>4 DEF Field
  <2>6. [issuer |-> HexToID(i[2]), subject |-> HexToID(s[2]), property |-> p[2].text,
         claim |-> c[2].text, signature |-> q[2]] \in Loaded(id)
    BY <2>5 DEF Loaded
  <2> QED
    BY <2>6
<1>2. ASSUME TypeOK, NodesInv, NEW q \in quads.signature, ~Clashes(q[1]), NEW c \in Loaded(q[1])
      PROVE  ID(c) = q[1] /\ VerifyClaim(c)
  <2> DEFINE id == q[1]
  <2>1. id \in IDs /\ ~Clashes(id)
    BY <1>2 DEF TypeOK
  <2>2. PICK i \in Field(quads.issuer, id), s \in Field(quads.subject, id),
             p \in Field(quads.property, id), m \in Field(quads.claim, id),
             g \in Field(quads.signature, id) :
                c = [issuer |-> HexToID(i), subject |-> HexToID(s), property |-> p.text,
                     claim |-> m.text, signature |-> g]
    BY <1>2 DEF Loaded
  <2> HIDE DEF id
  <2>3. c.issuer = id[1] /\ c.subject = id[2]
    <3>1. i = Hex(id[1]) /\ s = Hex(id[2])
      BY <1>2, NodeFields
    <3> QED
      BY <2>2, <3>1 DEF Hex, HexToID
  <2>4. c.property \o c.claim = id[3]
    <3>1. p.text \o m.text = id[3]
      BY <1>2, <2>1, NodeTexts
    <3> QED
      BY <2>2, <3>1
  <2>5. c.signature.of = id /\ c.signature.by = id[1]
    <3>1. g.of = id /\ g.by = id[1]
      BY <1>2, NodeFields
    <3> QED
      BY <2>2, <3>1
  <2>6. id = <<id[1], id[2], id[3]>>
    BY <2>1 DEF IDs
  <2> QED
    BY <2>3, <2>4, <2>5, <2>6 DEF ID, VerifyClaim, id
<1>3. ObjectsInv => LoadedClaimsVerify
  BY <1>1, <1>2 DEF ObjectsInv, LoadedClaimsVerify
<1> QED
  BY <1>3, InvHolds, PTL

(* A query by all the fields of an acknowledged claim finds its node and,  *)
(* when no claims clash, nothing else.                                     *)
THEOREM AcknowledgedIsFoundHolds == Spec => []AcknowledgedIsFound
<1>1. ASSUME ObjectsInv, NEW c \in acked, Plain(c)
      PROVE  ID(c) \in Matches(AllFields, FilterOf(c))
  <2>1. Stored(c)
    BY <1>1 DEF ObjectsInv, AckedInv
  <2>2. ID(c) \in {q[1] : q \in quads.signature}
    BY <2>1 DEF Stored
  <2> QED
    BY <1>1, <2>1, <2>2 DEF Matches, FilterOf, Plain, Stored
<1>2. ASSUME ObjectsInv, NEW c \in acked, Plain(c),
             \A q \in quads.property : ~Clashes(q[1]),
             NEW id \in Matches(AllFields, FilterOf(c))
      PROVE  id = ID(c)
  <2>0. TypeOK /\ NodesInv
    BY <1>2 DEF ObjectsInv
  <2>1. /\ <<id, Hex(c.issuer)>> \in quads.issuer /\ <<id, Hex(c.subject)>> \in quads.subject
        /\ <<id, Literal(c.property)>> \in quads.property
        /\ <<id, Literal(c.claim)>> \in quads.claim
    BY <1>2 DEF Matches, FilterOf, AllFields, Plain
  <2>2. id \in IDs
    BY <2>0, <2>1 DEF TypeOK
  <2>3. /\ Hex(c.issuer) \in Field(quads.issuer, id)
        /\ Hex(c.subject) \in Field(quads.subject, id)
        /\ Literal(c.property) \in Field(quads.property, id)
        /\ Literal(c.claim) \in Field(quads.claim, id)
    BY <2>1 DEF Field
  <2>4. ~Clashes(id)
    BY <1>2, <2>1
  <2>5. Hex(c.issuer) = Hex(id[1]) /\ Hex(c.subject) = Hex(id[2])
    BY <2>0, <2>3, NodeFields
  <2>6. Literal(c.property).text \o Literal(c.claim).text = id[3]
    BY <2>0, <2>3, <2>4, NodeTexts
  <2>7. id = <<id[1], id[2], id[3]>>
    BY <2>2 DEF IDs
  <2>8. c.issuer = id[1] /\ c.subject = id[2]
    BY <2>5 DEF Hex
  <2>9. c.property \o c.claim = id[3]
    BY <2>6 DEF Literal
  <2> QED
    BY <2>7, <2>8, <2>9 DEF ID
<1>3. ObjectsInv => AcknowledgedIsFound
  <2> SUFFICES ASSUME ObjectsInv, NEW c \in acked, Plain(c)
               PROVE  /\ ID(c) \in Matches(AllFields, FilterOf(c))
                      /\ (\A q \in quads.property : ~Clashes(q[1]))
                            => Matches(AllFields, FilterOf(c)) = {ID(c)}
    BY DEF AcknowledgedIsFound
  <2> QED
    BY <1>1, <1>2
<1> QED
  BY <1>3, InvHolds, PTL

-----------------------------------------------------------------------------
(* No property begins with another: the property is then read off the      *)
(* concatenation that Claim.ID hashes (api/types.go).                      *)
PrefixFree ==
    \A p, q \in Properties :
        (Len(p) <= Len(q) /\ \A i \in 1 .. Len(p) : p[i] = q[i]) => p = q

(* Of two texts that begin one text, one begins the other.                 *)
LEMMA OneBeginsTheOther ==
    ASSUME NEW p \in Seq(STRING), NEW q \in Seq(STRING),
           NEW c \in Seq(STRING), NEW d \in Seq(STRING),
           p \o c = q \o d, Len(p) <= Len(q)
    PROVE  \A i \in 1 .. Len(p) : p[i] = q[i]
<1> SUFFICES ASSUME NEW i \in 1 .. Len(p) PROVE p[i] = q[i]
  OBVIOUS
<1>1. (p \o c)[i] = p[i]
  OBVIOUS
<1>2. (q \o d)[i] = q[i]
  OBVIOUS
<1> QED
  BY <1>1, <1>2

(* Without such properties no two claims ever share a node.                *)
LEMMA PrefixFreeNoClash ==
    ASSUME PrefixFree, TypeOK, NodesInv, NEW id
    PROVE  ~Clashes(id)
<1> SUFFICES ASSUME NEW x \in Field(quads.property, id), NEW y \in Field(quads.property, id)
             PROVE  x = y
  BY DEF Clashes
<1>1. PICK a \in quads.property : a[1] = id /\ a[2] = x
  BY DEF Field
<1>2. PICK b \in quads.property : b[1] = id /\ b[2] = y
  BY DEF Field
<1>3. PICK c \in quads.claim : x.text \o c[2].text = id[3]
  BY <1>1 DEF NodesInv, NodesAgree
<1>4. PICK d \in quads.claim : y.text \o d[2].text = id[3]
  BY <1>2 DEF NodesInv, NodesAgree
<1>5. /\ x \in Literals(Properties) /\ y \in Literals(Properties)
      /\ c[2] \in Literals(Contents) /\ d[2] \in Literals(Contents)
  <2>1. /\ quads.property \subseteq IDs \X Literals(Properties)
        /\ quads.claim \subseteq IDs \X Literals(Contents)
    BY DEF TypeOK
  <2> QED
    BY <1>1, <1>2, <1>3, <1>4, <2>1
<1>6. /\ x.type = "string" /\ x.text \in Properties
      /\ y.type = "string" /\ y.text \in Properties
      /\ c[2].text \in Contents /\ d[2].text \in Contents
  BY <1>5 DEF Literals
<1>7. /\ x.text \in Seq(STRING) /\ y.text \in Seq(STRING)
      /\ c[2].text \in Seq(STRING) /\ d[2].text \in Seq(STRING)
  BY <1>6, TextsAssumption
<1>8. x.text = y.text
  <2>1. x.text \o c[2].text = y.text \o d[2].text
    BY <1>3, <1>4
  <2>2. Len(x.text) <= Len(y.text) \/ Len(y.text) <= Len(x.text)
    BY <1>7
  <2>3. CASE Len(x.text) <= Len(y.text)
    <3>1. \A i \in 1 .. Len(x.text) : x.text[i] = y.text[i]
      BY <1>7, <2>1, <2>3, OneBeginsTheOther
    <3> QED
      BY <1>6, <2>3, <3>1 DEF PrefixFree
  <2>4. CASE Len(y.text) <= Len(x.text)
    <3>1. \A i \in 1 .. Len(y.text) : y.text[i] = x.text[i]
      BY <1>7, <2>1, <2>4, OneBeginsTheOther
    <3> QED
      BY <1>6, <2>4, <3>1 DEF PrefixFree
  <2> QED
    BY <2>2, <2>3, <2>4
<1> QED
  BY <1>5, <1>6, <1>8 DEF Literals

(* What LoadedClaimsVerify and AcknowledgedIsFound say, without conditions *)
(* on what was written before.                                             *)
ClaimsStandAlone ==
    /\ \A q \in quads.signature : \A c \in Loaded(q[1]) : ID(c) = q[1] /\ VerifyClaim(c)
    /\ \A c \in acked : Plain(c) => Matches(AllFields, FilterOf(c)) = {ID(c)}

(* When no property begins with another, as in a vocabulary where each     *)
(* name has its delimiter, every node that a claim query loads is a claim  *)
(* that verifies, and a query by all the fields finds that one claim:      *)
(* the concatenation in Claim.ID (api/types.go) then costs nothing.        *)
THEOREM PrefixFreePropertiesAreSafe == PrefixFree => (Spec => []ClaimsStandAlone)
<1> SUFFICES ASSUME PrefixFree PROVE Spec => []ClaimsStandAlone
  OBVIOUS
<1>1. ObjectsInv /\ LoadedClaimsVerify /\ AcknowledgedIsFound => ClaimsStandAlone
  <2> SUFFICES ASSUME ObjectsInv, LoadedClaimsVerify, AcknowledgedIsFound
               PROVE  ClaimsStandAlone
    OBVIOUS
  <2>1. \A id : ~Clashes(id)
    BY PrefixFreeNoClash DEF ObjectsInv
  <2> QED
    BY <2>1 DEF ClaimsStandAlone, LoadedClaimsVerify, AcknowledgedIsFound
<1> QED
  BY <1>1, InvHolds, LoadedClaimsVerifyHolds, AcknowledgedIsFoundHolds, PTL
=============================================================================
