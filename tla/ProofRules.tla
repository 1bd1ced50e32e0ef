----------------------------- MODULE ProofRules -----------------------------
(***************************************************************************)
(* What surrounds proof generation: proof-readiness/checker.ts, the        *)
(* configuration and the artifact resolvers (crypto/), the sanitizer of    *)
(* witnesses, and proofs/ (modes, freshness, verifier, references, error   *)
(* classes).                                                               *)
(***************************************************************************)
EXTENDS Subject

\* A location: its form and what is found there.
Location(form, ext, file) == [form |-> form, ext |-> ext, file |-> file]
NoLocation == Location("absent", FALSE, "missing")

\* problems of one artifact; stat does not tell whether a file may be read.
locationProblems(l, checkFiles) ==
  CASE l.form \in {"absent", "blank"} -> {"not configured"}
    [] l.form = "badurl" -> {"malformed"}
    [] l.form = "remote" -> {}
    [] OTHER -> AllOf(<< <<~l.ext, "extension">>, <<checkFiles /\ l.file = "dir", "not a file">>,
                         <<checkFiles /\ l.file = "empty", "empty">>, <<checkFiles /\ l.file = "missing", "not found">> >>)

checkArtifactAvailability(c, checkFiles) == locationProblems(c.wasm, checkFiles) \cup locationProblems(c.zkey, checkFiles)

\* Mutant: the permits are not looked at.
checkEnvironmentSettings_AnyPermits(c) ==
  AllOf(<< <<c.wasm.form = "absent" /\ c.zkey.form = "absent", "no sources">>,
           <<"malformed" \in {c.wasmHash, c.zkeyHash}, "hash">> >>)

checkEnvironmentSettings(c) ==
  AllOf(<< <<c.wasm.form = "absent" /\ c.zkey.form = "absent", "no sources">>,
           <<c.permits # "absent" /\ c.permits # "positive", "maxConcurrency">>,
           <<"malformed" \in {c.wasmHash, c.zkeyHash}, "hash">> >>)

\* checkInputShape: a required field that is missing or of another type.
checkInputShape(input, required) ==
  {f \in DOMAIN required : f \notin DOMAIN input \/ input[f] # required[f]}

checkProofMode(mode, supported) == IF mode = "absent" \/ mode \in supported THEN {} ELSE {"mode"}

checkProofReadiness(c, input, required, mode) ==
  checkArtifactAvailability(c, TRUE) \cup checkInputShape(input, required) \cup checkEnvironmentSettings(c)
  \cup checkProofMode(mode, {"groth16"})

-----------------------------------------------------------------------------
\* validateProofConfig, and the Semaphore of the generator, which throws as well.
validateProofConfig(c) ==
  FirstOf(<< <<c.wasm.form \in {"absent", "blank"}, "wasmUrl">>, <<c.zkey.form \in {"absent", "blank"}, "zkeyUrl">>,
             <<c.wasm.form = "badurl", "wasmUrl">>, <<c.zkey.form = "badurl", "zkeyUrl">>,
             <<c.permits = "zero", "permits">> >>, "ok")

\* resolveProofConfig: an option goes before the environment, that before the default directory.
resolveProofConfig(option, env) == IF option # NoLocation THEN option ELSE IF env # NoLocation THEN env ELSE Location("local", TRUE, "missing")

\* LocalArtifactResolver.loadFile.
loadFile(l) ==
  FirstOf(<< <<~l.ext, "ArtifactCorruptError">>, <<l.file = "missing", "ArtifactNotFoundError">>,
             <<l.file = "denied", "ArtifactAccessError">>, <<l.file = "dir", "EISDIR">>, <<l.file = "empty", "ArtifactCorruptError">> >>, "ok")

\* "upper" is the hash of the content in capitals.
verifyArtifactHash(expected, actual) == expected \in {"absent", actual} \/ (expected = "upper" /\ actual = "match")

\* resolve of the two resolvers: both artifacts, then both hashes.
resolveLocal(c, actual) ==
  IF loadFile(c.wasm) # "ok" THEN loadFile(c.wasm) ELSE IF loadFile(c.zkey) # "ok" THEN loadFile(c.zkey)
  ELSE IF verifyArtifactHash(c.wasmHash, actual) /\ verifyArtifactHash(c.zkeyHash, actual) THEN "ok" ELSE "ArtifactHashMismatchError"

resolveRemote(c, reachable, actual) ==
  IF ~reachable THEN "ArtifactFetchError"
  ELSE IF verifyArtifactHash(c.wasmHash, actual) /\ verifyArtifactHash(c.zkeyHash, actual) THEN "ok" ELSE "ArtifactHashMismatchError"

-----------------------------------------------------------------------------
\* Values of a witness: the type, and the value (105 stands for "05").
Value(type, v) == [type |-> type, v |-> v]
Missing(x) == x.type \in {"undefined", "null"}

\* A string of digits keeps its leading zero.  NoAmount: null.
NoAmount == -9
normalizeAmount(x) ==
  CASE x.type \in {"string", "padded"} -> IF x.v >= 0 THEN x.v ELSE NoAmount
    [] x.type \in {"bigint", "number"} -> IF x.v >= 0 THEN x.v ELSE NoAmount
    [] OTHER -> NoAmount

\* Mutant: a string is passed on as it is.
cleanText_Raw(x) == x

\* trim.
cleanText(x) == IF x.type = "padded" THEN Value("string", x.v) ELSE x

badText(x) == ~Missing(x) /\ (x.type \notin {"string", "padded"} \/ x.v = 0)

FORBIDDEN_WITNESS_FIELDS == {"secret"}

sanitizeErrors(w) ==
  AllOf(<< <<w.extra \cap FORBIDDEN_WITNESS_FIELDS # {}, "extra">>, <<badText(w.recipient), "recipient">>,
           <<~Missing(w.amount) /\ normalizeAmount(w.amount) = NoAmount, "amount">>, <<badText(w.asset), "asset">> >>)

\* The sanitized witness: null fields are left out.
sanitizeProofInput(w) ==
  LET kept(x, clean) == IF Missing(x) THEN Value("undefined", 0) ELSE clean IN
  [recipient |-> kept(w.recipient, cleanText(w.recipient)), amount |-> kept(w.amount, Value("string", normalizeAmount(w.amount))),
   asset |-> kept(w.asset, cleanText(w.asset)), extra |-> w.extra \ FORBIDDEN_WITNESS_FIELDS]

\* The fields assertValidPayrollWitness complains of.
assertValidPayrollWitness(w) ==
  sanitizeErrors(w) \cup {f \in {"recipient", "amount", "asset"} : Missing(w[f]) \/ (w[f].type \in {"string", "padded"} /\ w[f].v = 0 /\ f # "amount")}

-----------------------------------------------------------------------------
\* proofs/capabilities.ts.
ProofModes == {"groth16", "mock", "plonk", "bulletproofs"}
prerequisites(mode, x) ==
  CASE mode = "groth16" -> [wasm |-> x.wasm, bigInt |-> x.bigInt, crypto |-> x.crypto, artifacts |-> x.artifacts,
                            network |-> TRUE, environment |-> x.env # "unknown"]
    [] mode = "mock" -> [wasm |-> TRUE, bigInt |-> x.bigInt, crypto |-> TRUE, artifacts |-> TRUE,
                         network |-> x.network # "mainnet", environment |-> TRUE]
    [] mode = "plonk" -> [wasm |-> x.wasm, bigInt |-> x.bigInt, crypto |-> x.crypto, artifacts |-> FALSE,
                          network |-> x.network # "mainnet", environment |-> x.env # "unknown"]
    [] OTHER -> [wasm |-> x.wasm, bigInt |-> x.bigInt, crypto |-> x.crypto, artifacts |-> FALSE, network |-> FALSE, environment |-> FALSE]

\* Mutant: mock proofs are not tied to the network.
modeAvailable_MockAnywhere(mode, x) ==
  LET p == prerequisites(mode, x) IN
  CASE mode = "groth16" -> p.wasm /\ p.bigInt /\ p.crypto /\ p.artifacts /\ p.environment
    [] mode = "mock" -> p.bigInt
    [] OTHER -> FALSE

modeAvailable(mode, x) ==
  LET p == prerequisites(mode, x) IN
  CASE mode = "groth16" -> p.wasm /\ p.bigInt /\ p.crypto /\ p.artifacts /\ p.environment
    [] mode = "mock" -> p.network /\ p.bigInt
    [] OTHER -> FALSE

permittedNetworks(mode) ==
  CASE mode = "groth16" -> {"mainnet", "testnet", "futurenet", "standalone", "local"}
    [] mode = "mock" -> {"testnet", "futurenet", "standalone", "local"}
    [] mode = "plonk" -> {"testnet", "futurenet"}
    [] OTHER -> {}

getAvailableProofModes(x) == {mode \in ProofModes : modeAvailable(mode, x)}

-----------------------------------------------------------------------------
\* validateProofFreshness.
validateProofFreshness(p, target, now, maxAge) ==
  FirstOf(<< <<~p.metadata, "MISSING_METADATA">>,
             <<p.expiresAt <= p.createdAt \/ p.end <= p.start \/ target.end <= target.start, "INVALID_METADATA">>,
             <<p.createdAt > now, "NOT_YET_VALID">>, <<now >= p.expiresAt, "EXPIRED">>,
             <<maxAge # NoAmount /\ maxAge < 0, "INVALID_METADATA">>,
             <<maxAge # NoAmount /\ now - p.createdAt > maxAge, "TOO_OLD">>,
             <<p.start # target.start \/ p.end # target.end, "PERIOD_MISMATCH">> >>, "fresh")

\* Mutant: the time is not looked at.
verifyProof_AnyTime(p, now, adapter) ==
  FirstOf(<< <<adapter = "down", "unavailable">>, <<~p.wellFormed, "malformed">> >>, adapter)

\* An adapter's verify: a throw is normalised by what its message says.
verifyProof(p, now, adapter) ==
  FirstOf(<< <<adapter = "down", "unavailable">>, <<~p.wellFormed, "malformed">>, <<now > p.expiresAt, "expired">> >>, adapter)

\* Mutant: what follows the second colon is ignored.
parseProofReference_FirstTwo(parts) ==
  IF Len(parts) < 2 THEN "form" ELSE IF parts[1] # "circuit" THEN "circuit id" ELSE IF parts[Len(parts)] # "hash" THEN "hash" ELSE "ok"

\* parseProofReference: a reference is its parts between the colons.
parseProofReference(parts) ==
  IF parts = <<>> \/ Len(parts) # 2 THEN "form" ELSE IF parts[1] # "circuit" THEN "circuit id" ELSE IF parts[2] # "hash" THEN "hash" ELSE "ok"

formatProofReference(circuit, hash) == IF circuit = "with colon" THEN <<"circuit", "circuit", hash>> ELSE <<circuit, hash>>

-----------------------------------------------------------------------------
Locations ==
  {NoLocation, Location("blank", FALSE, "missing")} \cup [form : {"remote", "badurl"}, ext : {TRUE}, file : {"ok"}]
  \cup [form : {"local"}, ext : BOOLEAN, file : {"ok", "empty", "missing", "dir"}]
ProofConfigInputs ==
  [wasm : Locations, zkey : Locations, permits : {"absent", "positive", "zero"}, wasmHash : {"absent", "match", "upper", "other", "malformed"},
   zkeyHash : {"absent", "match"}]

Witnessed ==
  LET texts == {Value("undefined", 0), Value("null", 0), Value("string", 0), Value("string", 1), Value("padded", 1), Value("number", 1)}
      amounts == {Value("undefined", 0), Value("null", 0), Value("other", 0)} \cup {Value(t, v) : t \in {"string", "padded", "bigint", "number"}, v \in {-1, 0, 5}}
                 \cup {Value("string", 105)}
  IN  [recipient : texts, amount : amounts, asset : texts, extra : {{}, {"memo"}, {"secret"}}]

ModeInputs == [wasm : BOOLEAN, bigInt : BOOLEAN, crypto : BOOLEAN, artifacts : BOOLEAN, env : {"node", "browser", "unknown"},
               network : {"mainnet", "testnet", "local"}]

FreshnessInputs ==
  [proof : [metadata : BOOLEAN, wellFormed : BOOLEAN, createdAt : {1, 2}, expiresAt : 1..3, start : {1}, end : 1..2],
   target : [start : {1, 2}, end : {2}], now : 0..4, maxAge : {NoAmount, -1, 1}]

ReferenceInputs == {"circuit", "with colon", "Bad", ""} \X {"hash", "short", ""}

(***************************************************************************)
(* What checkProofReadiness calls ready works: the generator takes the     *)
(* configuration, from options or the environment, and the resolver of the *)
(* artifacts loads them and accepts                                        *)
(* the expected hashes in either case (checker.ts 68-148, 221-269;         *)
(* configValidation.ts; LocalArtifactResolver.ts 118-222).                 *)
(***************************************************************************)
ReadyProofsGenerate ==
  About("proofconfig") =>
    LET c == subject.input
        ready == checkProofReadiness(c, [amount |-> "bigint"], [amount |-> "bigint"], "absent") = {}
    IN  ready =>
          /\ validateProofConfig(c) = "ok"
          /\ c.wasm.form = "local" /\ c.zkey.form = "local" =>
               (resolveLocal(c, "match") = "ok" <=> c.wasmHash # "other")
          /\ resolveLocal(c, "match") = "ok" => resolveRemote(c, TRUE, "match") = "ok"
          /\ resolveProofConfig(NoLocation, c.wasm) = resolveProofConfig(c.wasm, c.zkey)

(***************************************************************************)
(* A sanitized witness is its own sanitized form, carries no forbidden     *)
(* field and, once it passed assertValidPayrollWitness, all three fields;  *)
(* a payment written with another type or with blanks has the same form,   *)
(* so the generators share its proof (proofInputSanitizer.ts 92-312).      *)
(***************************************************************************)
SanitizedIsCanonical ==
  About("witness") =>
    LET w == subject.input
        s == sanitizeProofInput(w)
    IN  sanitizeErrors(w) = {} =>
          /\ sanitizeErrors(s) = {} /\ sanitizeProofInput(s) = s /\ s.extra \cap FORBIDDEN_WITNESS_FIELDS = {}
          /\ assertValidPayrollWitness(w) = {} => \A f \in {"recipient", "amount", "asset"} : s[f].type = "string"
          /\ ~Missing(w.recipient) => sanitizeProofInput([w EXCEPT !.recipient = Value("padded", w.recipient.v)]) = s
          /\ ~Missing(w.amount) =>
               \A t \in {"bigint", "number", "padded"} : sanitizeProofInput([w EXCEPT !.amount = Value(t, w.amount.v)]) = s

(***************************************************************************)
(* A mode that is available has all its prerequisites and is permitted on  *)
(* the network; no mock proof on mainnet (capabilities.ts 166-335).        *)
(***************************************************************************)
AvailableModesPermitted ==
  About("mode") =>
    \A mode \in getAvailableProofModes(subject.input) :
      LET p == prerequisites(mode, subject.input) IN
      (\A f \in DOMAIN p : p[f]) /\ subject.input.network \in permittedNetworks(mode)

(***************************************************************************)
(* A proof that is fresh now is not called expired by a verifier, was not  *)
(* fresh for another period, and once expired or too old it stays so       *)
(* (freshness.ts 56-146, verifierAdapter.ts 126-142).                      *)
(***************************************************************************)
FreshIsNotExpired ==
  About("freshness") =>
    LET i == subject.input
        at(t) == validateProofFreshness(i.proof, i.target, t, i.maxAge)
    IN  /\ at(i.now) = "fresh" =>
             /\ verifyProof(i.proof, i.now, "valid") \in {"valid", "malformed"}
             /\ verifyProof([i.proof EXCEPT !.wellFormed = TRUE], i.proof.expiresAt + 1, "valid") = "expired"
             /\ validateProofFreshness(i.proof, [i.target EXCEPT !.end = @ + 1], i.now, i.maxAge) = "PERIOD_MISMATCH"
        /\ at(i.now) \in {"EXPIRED", "TOO_OLD"} => at(i.now + 1) \in {"EXPIRED", "TOO_OLD"}

(***************************************************************************)
(* A reference that was formatted parses back exactly when its parts are   *)
(* valid: no part with a separator slips through (reference.ts 37-89).     *)
(***************************************************************************)
ReferencesRoundTrip ==
  About("reference") =>
    (parseProofReference(formatProofReference(subject.input[1], subject.input[2])) = "ok"
       <=> subject.input = <<"circuit", "hash">>)
=============================================================================
