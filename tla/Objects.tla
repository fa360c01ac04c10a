------------------------------- MODULE Objects ------------------------------
(***************************************************************************)
(* The objects that a graph holds as quads, and how they are read back:    *)
(* the claims of the GraphQL API (api/types.go, api/graphql.go) and the    *)
(* dapps of `kord dapp deploy` and `kord dapp set-root` (cli/dapp.go,      *)
(* dapp/dapp.go, pkg/uri/uri.go), with the root dapp that the HTTP server  *)
(* of a node serves (kord/meta.go, kord/http.go).                          *)
(*                                                                         *)
(* There is one graph on one node.  Callers are the requests in progress.  *)
(* An object is written in one transaction and nothing is ever deleted, so *)
(* a node of the graph to which two objects were written has two values in *)
(* a field, and schema.LoadPathTo keeps whichever it meets last.           *)
(* Publishing the graph is GraphPublish's subject.                         *)
(*                                                                         *)
(* Definitions named "Bad" are mistakes the code could have been written   *)
(* with; no specification uses them.                                       *)
(***************************************************************************)
EXTENDS Naturals, Sequences

CONSTANTS
    Callers,
    Ids,        \* KORD IDs: addresses, each with its key
    Properties, \* the properties of claims: sequences of characters
    Contents,   \* what they claim: sequences of characters
    Variants,   \* the signatures that one key makes of one hash
    Paths,      \* the paths of dapp URIs
    Manifests,  \* hashes of uploaded directories
    None,       \* no manifest: nothing is served at the root
    MayFail,    \* may the registry, Swarm or SQLite fail?
    MaxJobs     \* bound on the requests that are made

ASSUME TextsAssumption == Properties \cup Contents \subseteq Seq(STRING)
ASSUME NoManifestAssumption == None \notin Manifests
ASSUME ObjectsOptionsAssumption == MayFail \in BOOLEAN /\ MaxJobs \in Nat

-----------------------------------------------------------------------------
(* Conversions.                                                            *)

(* How an address or a URI is spelt: as Hex() and URI.String do it, with   *)
(* the checksum; otherwise (in lower case, with another escaping of the    *)
(* path, with a query or a fragment); or so that uri.Parse refuses it.     *)
Forms == {"checksum", "other", "invalid"}

Hex(a) == [addr |-> a, form |-> "checksum"]

HexToID(s) == s.addr

(* A URI, its path already unescaped.                                      *)
URIs == [form : Forms, path : Paths]

(* uri.Parse fails on a wrong scheme, an invalid ID or a bad escape.       *)
Parses(u) == u.form # "invalid"

(* Bad: the URI is kept as it was spelt.                                   *)
BadURIString(u) == u

(* uri.Parse and URI.String: only the ID and the path are kept, and are    *)
(* written in one way.                                                     *)
URIString(u) == [form |-> "checksum", path |-> u.path]

Literal(t) == [type |-> "string", text |-> t]

Inner(t) == SubSeq(t, 2, Len(t) - 1)

(* The places where mark occurs in a text; strings.Index is the first.     *)
Marks(t, mark) ==
    {i \in 1 .. (Len(t) + 1) - Len(mark) : SubSeq(t, i, (i + Len(mark)) - 1) = mark}

After1(S) == S # {} /\ 1 \notin S

(* "..."^^<...> or "..."@..., where only the first mark is looked at.      *)
Tagged(t) ==
    /\ t[1] = "quote"
    /\ \/ t[Len(t)] = ">" /\ After1(Marks(t, <<"quote", "^", "^", "<">>))
       \/ After1(Marks(t, <<"quote", "@">>))

(* quad.StringToValue, which reads the syntax of N-Quads.  No value, a     *)
(* blank node and a typed or tagged literal are all something else than    *)
(* the plain literal.                                                      *)
StringToValue(t) ==
    CASE t = <<>> -> [type |-> "other", text |-> t]
      [] Len(t) \in {1, 2} -> Literal(t)
      [] OTHER ->
         IF t[1] = "<" /\ t[Len(t)] = ">" THEN [type |-> "iri", text |-> Inner(t)]
         ELSE IF t[1] = "quote" /\ t[Len(t)] = "quote" THEN Literal(Inner(t))
         ELSE IF (t[1] = "_" /\ t[2] = ":") \/ Tagged(t)
         THEN [type |-> "other", text |-> t]
         ELSE Literal(t)

(* Claim.ID is the hash of the fields one after the other: the addresses   *)
(* have a fixed length, the property and the claim do not.                 *)
ID(c) == <<c.issuer, c.subject, c.property \o c.claim>>

IDs == Ids \X Ids \X Seq(STRING)

Signatures == [by : Ids, of : IDs, variant : Variants]

Claims == [issuer : Ids, subject : Ids, property : Properties, claim : Contents,
           signature : Signatures]

WithSignature(c, s) ==
    [issuer |-> c.issuer, subject |-> c.subject, property |-> c.property,
     claim |-> c.claim, signature |-> s]

(* The address that Ecrecover finds is the issuer's.                       *)
VerifyClaim(c) == c.signature.of = ID(c) /\ c.signature.by = c.issuer

-----------------------------------------------------------------------------
VARIABLES
    quads,      \* predicate -> the pairs of subject and object in the graph
    swarm,      \* the manifests Swarm holds
    root,       \* Server.dapp
    pc,         \* where a caller's request is
    arg,        \* the claim it creates or the dapp URI it was given
    hash,       \* the manifest it deploys, has loaded or serves
    acked,      \* history: the claims whose creation was acknowledged
    deployed,   \* history: path and manifest of the deployments that succeeded
    jobs        \* requests made so far

vars == <<quads, swarm, root, pc, arg, hash, acked, deployed, jobs>>

WithClaim == {"claim", "commitClaim"}
WithURI   == {"upload", "dapp", "publish", "load"}
WithHash  == {"upload", "dapp", "publish", "setDapp", "serve"}

Literals(T) == [type : {"string"}, text : T]
Addresses == {Hex(a) : a \in Ids}
Canonical == [form : {"checksum"}, path : Paths]

(* Every variable has its type, and what is stored is canonical, however   *)
(* the callers spell it: addresses and URIs have their checksum, and texts *)
(* are plain literals.                                                     *)
TypeOK ==
    /\ quads \in [issuer : SUBSET (IDs \X Addresses), subject : SUBSET (IDs \X Addresses),
                  property : SUBSET (IDs \X Literals(Properties)),
                  claim : SUBSET (IDs \X Literals(Contents)),
                  signature : SUBSET (IDs \X Signatures),
                  manifestHash : SUBSET (Canonical \X Manifests)]
    /\ swarm \subseteq Manifests
    /\ root \in Manifests \cup {None}
    /\ pc \in [Callers -> {"idle"} \cup WithClaim \cup WithURI \cup WithHash]
    /\ DOMAIN arg = Callers
    /\ DOMAIN hash = Callers
    /\ \A r \in Callers :
          /\ pc[r] \in WithClaim => arg[r] \in Claims
          /\ pc[r] \in WithURI => arg[r] \in URIs
          /\ pc[r] \in WithHash => hash[r] \in Manifests
    /\ acked \subseteq Claims
    /\ deployed \subseteq Paths \X Manifests
    /\ jobs \in 0 .. MaxJobs

Init ==
    /\ quads = [issuer |-> {}, subject |-> {}, property |-> {}, claim |-> {},
                signature |-> {}, manifestHash |-> {}]
    /\ swarm = {}
    /\ root = None
    /\ pc = [r \in Callers |-> "idle"]
    /\ arg = [r \in Callers |-> None]
    /\ hash = [r \in Callers |-> None]
    /\ acked = {}
    /\ deployed = {}
    /\ jobs = 0

-----------------------------------------------------------------------------
Arrive(r, where, a, m) ==
    /\ pc[r] = "idle"
    /\ jobs < MaxJobs
    /\ jobs' = jobs + 1
    /\ pc' = [pc EXCEPT ![r] = where]
    /\ arg' = [arg EXCEPT ![r] = a]
    /\ hash' = [hash EXCEPT ![r] = m]

Goto(r, where) ==
    /\ pc' = [pc EXCEPT ![r] = where]
    /\ UNCHANGED <<arg, hash, jobs>>

Return(r) ==
    /\ pc' = [pc EXCEPT ![r] = "idle"]
    /\ arg' = [arg EXCEPT ![r] = None]
    /\ hash' = [hash EXCEPT ![r] = None]
    /\ UNCHANGED jobs

(* The registry, Swarm or SQLite fails: what was done before stays.        *)
Fail(r) ==
    /\ MayFail
    /\ pc[r] # "idle"
    /\ Return(r)
    /\ UNCHANGED <<quads, swarm, root, acked, deployed>>

-----------------------------------------------------------------------------
(* Claims.                                                                 *)

CreateClaim(r, c) ==
    /\ Arrive(r, "claim", c, None)
    /\ UNCHANGED <<quads, swarm, root, acked, deployed>>

(* The fields that claimQuad requires are set: WriteAsQuads fails before   *)
(* the writer is flushed.                                                  *)
RequiredFieldsSet(c) == c.property # <<>> /\ c.claim # <<>>

(* Bad: the signature is not verified.                                     *)
BadAccepted(c) == RequiredFieldsSet(c)

Accepted(c) == VerifyClaim(c) /\ RequiredFieldsSet(c)

(* Bad: a claim whose node exists is taken for a duplicate.                *)
BadWithClaimQuads(c) ==
    IF \E q \in quads.signature : q[1] = ID(c) THEN quads
    ELSE [quads EXCEPT !.issuer = @ \cup {<<ID(c), Hex(c.issuer)>>},
                       !.subject = @ \cup {<<ID(c), Hex(c.subject)>>},
                       !.property = @ \cup {<<ID(c), Literal(c.property)>>},
                       !.claim = @ \cup {<<ID(c), Literal(c.claim)>>},
                       !.signature = @ \cup {<<ID(c), c.signature>>}]

(* The quads of a claim; those that exist are ignored.                     *)
WithClaimQuads(c) ==
    [quads EXCEPT !.issuer = @ \cup {<<ID(c), Hex(c.issuer)>>},
                  !.subject = @ \cup {<<ID(c), Hex(c.subject)>>},
                  !.property = @ \cup {<<ID(c), Literal(c.property)>>},
                  !.claim = @ \cup {<<ID(c), Literal(c.claim)>>},
                  !.signature = @ \cup {<<ID(c), c.signature>>}]

WriteClaim(r) ==
    /\ pc[r] = "claim"
    /\ Accepted(arg[r])
    /\ quads' = WithClaimQuads(arg[r])
    /\ Goto(r, "commitClaim")
    /\ UNCHANGED <<swarm, root, acked, deployed>>

RejectClaim(r) ==
    /\ pc[r] = "claim"
    /\ ~Accepted(arg[r])
    /\ Return(r)
    /\ UNCHANGED <<quads, swarm, root, acked, deployed>>

(* The graph is committed and the claim returned.                          *)
CommitClaim(r) ==
    /\ pc[r] = "commitClaim"
    /\ acked' = acked \cup {arg[r]}
    /\ Return(r)
    /\ UNCHANGED <<quads, swarm, root, deployed>>

(* The nodes that a claim query finds: given are the fields of the filter, *)
(* whose IDs are taken as they are spelt.                                  *)
Matches(given, f) ==
    {id \in {q[1] : q \in quads.signature} :
        /\ "issuer" \in given => <<id, f.issuer>> \in quads.issuer
        /\ "subject" \in given => <<id, f.subject>> \in quads.subject
        /\ "property" \in given => <<id, StringToValue(f.property)>> \in quads.property
        /\ "claim" \in given => <<id, StringToValue(f.claim)>> \in quads.claim}

(* The values of a field of a node.                                        *)
Field(pairs, id) == {q[2] : q \in {x \in pairs : x[1] = id}}

(* The claims that LoadPathTo and ToClaim may make of a node: one value of *)
(* every field.                                                            *)
Loaded(id) ==
    {[issuer |-> HexToID(i), subject |-> HexToID(s), property |-> p.text,
      claim |-> c.text, signature |-> g] :
        i \in Field(quads.issuer, id), s \in Field(quads.subject, id),
        p \in Field(quads.property, id), c \in Field(quads.claim, id),
        g \in Field(quads.signature, id)}

-----------------------------------------------------------------------------
(* Dapps.                                                                  *)

Deploy(r, u, m) ==
    /\ Parses(u)
    /\ Arrive(r, "upload", u, m)
    /\ UNCHANGED <<quads, swarm, root, acked, deployed>>

(* Bad: the manifest's hash is computed and nothing is uploaded.           *)
BadStore(m) == UNCHANGED swarm

Store(m) == swarm' = swarm \cup {m}

UploadDirectory(r) ==
    /\ pc[r] = "upload"
    /\ Store(hash[r])
    /\ Goto(r, "dapp")
    /\ UNCHANGED <<quads, root, acked, deployed>>

WriteDapp(r) ==
    /\ pc[r] = "dapp"
    /\ quads' = [quads EXCEPT !.manifestHash = @ \cup {<<URIString(arg[r]), hash[r]>>}]
    /\ Goto(r, "publish")
    /\ UNCHANGED <<swarm, root, acked, deployed>>

(* The graph is committed and set.                                         *)
Publish(r) ==
    /\ pc[r] = "publish"
    /\ deployed' = deployed \cup {<<arg[r].path, hash[r]>>}
    /\ Return(r)
    /\ UNCHANGED <<quads, swarm, root, acked>>

(* setRootDapp looks the URI up as it was given.                           *)
SetRootDapp(r, u) ==
    /\ Parses(u)
    /\ Arrive(r, "load", u, None)
    /\ UNCHANGED <<quads, swarm, root, acked, deployed>>

LoadDapp(r, m) ==
    /\ pc[r] = "load"
    /\ m \in Field(quads.manifestHash, arg[r])
    /\ pc' = [pc EXCEPT ![r] = "setDapp"]
    /\ hash' = [hash EXCEPT ![r] = m]
    /\ UNCHANGED <<arg, jobs, quads, swarm, root, acked, deployed>>

DappNotFound(r) ==
    /\ pc[r] = "load"
    /\ Field(quads.manifestHash, arg[r]) = {}
    /\ Return(r)
    /\ UNCHANGED <<quads, swarm, root, acked, deployed>>

SetDapp(r) ==
    /\ pc[r] = "setDapp"
    /\ root' = hash[r]
    /\ Return(r)
    /\ UNCHANGED <<quads, swarm, acked, deployed>>

(* ServeDapp takes the dapp under the read lock; without one it answers    *)
(* 404 at once.  Then it reads the manifest from Swarm.                    *)
ServeDapp(r) ==
    /\ root # None
    /\ Arrive(r, "serve", None, root)
    /\ UNCHANGED <<quads, swarm, root, acked, deployed>>

ServeContent(r) ==
    /\ pc[r] = "serve"
    /\ hash[r] \in swarm
    /\ Return(r)
    /\ UNCHANGED <<quads, swarm, root, acked, deployed>>

-----------------------------------------------------------------------------
Unsigned == [issuer : Ids, subject : Ids, property : Properties, claim : Contents]

(* A claim comes with a signature made for it, with the issuer's key or    *)
(* another, or with that of another claim, which anyone can read.          *)
Arriving(c) ==
    [by : Ids, of : {ID(c)}, variant : Variants] \cup {d.signature : d \in acked}

ClaimStep(r) ==
    \/ \E c \in Unsigned : \E s \in Arriving(c) : CreateClaim(r, WithSignature(c, s))
    \/ WriteClaim(r) \/ RejectClaim(r) \/ CommitClaim(r)

DappStep(r) ==
    \/ \E u \in URIs, m \in Manifests : Deploy(r, u, m)
    \/ UploadDirectory(r) \/ WriteDapp(r) \/ Publish(r)
    \/ \E u \in URIs : SetRootDapp(r, u)
    \/ \E m \in Manifests : LoadDapp(r, m)
    \/ DappNotFound(r) \/ SetDapp(r) \/ ServeDapp(r) \/ ServeContent(r)

Next == \E r \in Callers : ClaimStep(r) \/ DappStep(r) \/ Fail(r)

Spec == Init /\ [][Next]_vars

-----------------------------------------------------------------------------
AllFields == {"issuer", "subject", "property", "claim"}

(* The filter that asks for a claim by its own fields.                     *)
FilterOf(c) ==
    [issuer |-> Hex(c.issuer), subject |-> Hex(c.subject),
     property |-> c.property, claim |-> c.claim]

(* Texts that a filter takes for what they are.                            *)
Plain(c) ==
    /\ StringToValue(c.property) = Literal(c.property)
    /\ StringToValue(c.claim) = Literal(c.claim)

(* Two claims with one ID were written: only their property and claim      *)
(* together are the same.                                                  *)
Clashes(id) == \E p, q \in Field(quads.property, id) : p # q

(* "expected 1 claim, got %d" (api/api_test.go): a query by all the fields *)
(* of an acknowledged claim, spelt as the API spells them, finds the       *)
(* claim's node and no other, whatever else was written, failed after the  *)
(* write or was retried with another signature; unless claims clashed, or  *)
(* a text reads as something other than a literal.                         *)
AcknowledgedIsFound ==
    \A c \in acked :
        /\ Plain(c) => ID(c) \in Matches(AllFields, FilterOf(c))
        /\ Plain(c) /\ (\A q \in quads.property : ~Clashes(q[1]))
              => Matches(AllFields, FilterOf(c)) = {ID(c)}

(* "expected claim to have ID %s" (api/api_test.go): what a query makes of *)
(* a node is a claim with that ID, signed by its issuer, although each     *)
(* field is loaded by itself and several signatures may be stored.         *)
LoadedClaimsVerify ==
    \A q \in quads.signature :
        /\ Loaded(q[1]) # {}
        /\ ~Clashes(q[1]) => \A c \in Loaded(q[1]) : ID(c) = q[1] /\ VerifyClaim(c)

(* A dapp that was deployed is found by its URI with the checksum, however *)
(* the deployment spelt it, and whatever was deployed over it since.       *)
DeployedIsFound ==
    \A d \in deployed : d[2] \in Field(quads.manifestHash, [form |-> "checksum", path |-> d[1]])

(* What is about to be the root dapp, is it, or is being served can be     *)
(* read from Swarm, whatever failed and however deployments, set-roots and *)
(* requests interleave.                                                    *)
ServedIsUploaded ==
    /\ root # None => root \in swarm
    /\ \A r \in Callers : pc[r] \in {"setDapp", "serve"} => hash[r] \in swarm
=============================================================================
