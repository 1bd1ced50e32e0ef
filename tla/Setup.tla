------------------------------- MODULE Setup -------------------------------
(***************************************************************************)
(* config.ts, setup/checklist.ts, sanity.ts, employer-readiness.ts, env/   *)
(* and network/rpcRetry.ts: what is checked before the first payroll.  A   *)
(* configuration is what its validators tell apart: a url is Nil (the      *)
(* empty text), malformed or its protocol; a contract identifier is Nil,   *)
(* "bad" or valid.                                                         *)
(***************************************************************************)
EXTENDS Subject

isValidContractId(id) == id \in {"C1", "C2"}

\* config.ts.  rpcUrl wins over networkUrl; an empty string counts as absent, Absent is undefined.
Absent == "absent"
Or(a, b) == IF a \in {Nil, Absent} THEN b ELSE a
Coalesce(a, b) == IF a = Absent THEN b ELSE a

NoLimit == -9     \* a field the policy does not set

validateRetryPolicyConfig(p) ==
  AllOf(<< <<p.maxAttempts # NoLimit /\ p.maxAttempts < 1, "maxAttempts">>,
           <<p.initialDelay # NoLimit /\ p.initialDelay < 0, "initialDelayMs">>,
           <<p.maxDelay # NoLimit /\ p.maxDelay < 0, "maxDelayMs">>,
           <<p.initialDelay # NoLimit /\ p.maxDelay # NoLimit /\ p.maxDelay < p.initialDelay, "maxDelayMs">> >>)

\* The fields that are in error.
validateConfig(c) ==
  LET url == Or(c.rpcUrl, c.networkUrl) IN
  AllOf(<< <<url \in {Nil, Absent}, "networkUrl">>,
           <<url \in {"malformed", "ftp"}, "networkUrl">>,
           <<c.network = Nil, "network">>,
           <<c.contractId \in {Nil, Absent} /\ c.contractIds = <<>>, "contractId">>,
           <<c.contractId \notin {Nil, Absent} /\ ~isValidContractId(c.contractId), "contractId">>,
           <<Some(LAMBDA id : ~isValidContractId(id), c.contractIds), "contractIds">>,
           <<c.proof \in {"missing", "source"}, "proofConfig">> >>)
  \union validateRetryPolicyConfig(c.retry)

\* The configuration a client runs with; refused when any field is in error.
assertValidConfig(c) ==
  IF validateConfig(c) # {} THEN [ok |-> FALSE]
  ELSE [ok |-> TRUE, url |-> Or(c.rpcUrl, c.networkUrl),
        contractId |-> Or(c.contractId, IF c.contractIds = <<>> THEN Nil ELSE c.contractIds[1])]

\* Mutant: an old name replaces the new one.
Renamed_OldWins(old, new) == IF old = Absent THEN new ELSE old

\* migrateConfig: the old names fill what the new ones leave open.
Renamed(old, new) == IF new = Absent THEN old ELSE new

migrate(c) ==
  LET url == Renamed(c.serverUrl, Renamed(c.nodeUrl, c.networkUrl))
      first == [c EXCEPT !.networkUrl = IF url = Absent THEN c.rpcUrl ELSE url,
                         !.contractId = Renamed(c.contractAddress, @),
                         !.nodeUrl = Absent, !.serverUrl = Absent, !.contractAddress = Absent]
      warned == AllOf(<< <<c.nodeUrl # Absent, "nodeUrl">>, <<c.serverUrl # Absent, "serverUrl">>,
                         <<c.contractAddress # Absent, "contractAddress">>,
                         <<url = Absent /\ c.rpcUrl # Absent, "rpcUrl">> >>)
  IN  [config |-> [first EXCEPT !.networkUrl = Coalesce(@, Nil), !.rpcUrl = Coalesce(@, Coalesce(first.networkUrl, Nil)),
                                !.contractId = Coalesce(@, Nil)],
       warnings |-> warned, errors |-> validateConfig(first)]

-----------------------------------------------------------------------------
\* setup/checklist.ts: every check passes, warns or fails; a flag that was not given warns.
Flag(f) == CASE f = "yes" -> "pass" [] f = "no" -> "fail" [] OTHER -> "warn"

matchWalletNetwork(network, wallet) ==
  FirstOf(<< <<network \in {Nil, Absent} \/ wallet = "none", "warn">>,
             <<network = "testnet", IF wallet = "testnet" THEN "pass" ELSE "fail">>,
             <<network = "mainnet", IF wallet = "public" THEN "pass" ELSE "fail">>,
             <<network = "localnet", IF wallet = "testnet" THEN "warn" ELSE "fail">> >>, "warn")

\* Mutant: the deprecated endpoint alone is looked at.
buildConfigChecks_UrlOnly(c) == IF c.networkUrl \in {Nil, Absent} THEN {"fail"} ELSE {"pass"}

buildConfigChecks(c) ==
  IF validateConfig(c) \ {"proofConfig"} = {} THEN {"pass"} ELSE {"fail"}

buildNetworkChecks(c, o) ==
  {IF Or(c.rpcUrl, c.networkUrl) \in {"http", "ws"} THEN "pass" ELSE "fail",
   IF c.network \in {Nil, Absent} THEN "warn" ELSE "pass", Flag(o.rpcReachable), Flag(o.passphraseMatches)}

buildContractsChecks(c, o) ==
  LET primary == Or(c.contractId, IF c.contractIds = <<>> THEN Nil ELSE c.contractIds[1]) IN
  (IF primary \in {Nil, Absent} THEN {"fail"}
   ELSE {IF isValidContractId(primary) THEN "pass" ELSE "fail", Flag(o.contractDeployed)})
  \union (IF c.contractIds = <<>> THEN {} ELSE {IF Every(isValidContractId, c.contractIds) THEN "pass" ELSE "fail"})

buildTreasuryChecks(o) ==
  LET named(x) == CASE x = "none" -> "warn" [] x = "bad" -> "fail" [] OTHER -> "pass"
  IN  {named(o.treasury), Flag(o.funded)}

\* The locations of both artifacts: given as urls or as source objects, and well formed.
buildProofsChecks(c) ==
  CASE c.proof = "none" -> {"warn"}
    [] c.proof = "missing" -> {"pass", "fail"}
    [] c.proof = "badpath" -> {"pass", "fail"}
    [] OTHER -> {"pass"}

buildWalletChecks(c, o) ==
  IF ~o.wallet.given THEN {"warn"}
  ELSE {"pass", Flag(o.wallet.available), IF o.wallet.connected = "yes" THEN "pass" ELSE "warn",
        IF o.wallet.network = "none" THEN "warn" ELSE matchWalletNetwork(c.network, o.wallet.network)}

generateSetupChecklist(c, o) ==
  buildConfigChecks(c) \union buildNetworkChecks(c, o) \union buildContractsChecks(c, o) \union buildTreasuryChecks(o)
  \union buildProofsChecks(c) \union buildWalletChecks(c, o) \union {Flag(o.testFixtures)}

noBlockers(statuses) == "fail" \notin statuses

-----------------------------------------------------------------------------
\* sanity.ts: the diagnostics in order.  w is the world: is the endpoint up, is the contract there.
Diagnostic(component, status) == [component |-> component, status |-> status]

rpcDiagnostic(c, w) ==
  Diagnostic("rpc", IF c.networkUrl \in {"http", "ws"} /\ w.rpcUp THEN "success" ELSE "error")

\* The format of the identifier is reported first, on an entry of its own.
contractDiagnostics(c, w) ==
  IF ~isValidContractId(c.contractId) THEN <<Diagnostic("contract", "error")>>
  ELSE <<Diagnostic("contract", "success"),
         Diagnostic("contract", IF rpcDiagnostic(c, w).status # "success" THEN "warning"
                                ELSE IF w.deployed /\ w.simulates THEN "success" ELSE "error")>>

artifactDiagnostics(c, w) ==
  CASE c.proof = "none" -> <<>>
    [] c.proof = "url" -> <<Diagnostic("artifacts", IF w.artifactsUp THEN "success" ELSE "error")>>
    [] OTHER -> <<Diagnostic("artifacts", "error")>>

validateEnvironment(c, w) ==
  LET all == <<rpcDiagnostic(c, w)>> \o contractDiagnostics(c, w) \o artifactDiagnostics(c, w)
  IN  [isValid |-> \A k \in DOMAIN all : all[k].status # "error", diagnostics |-> all]

\* The first diagnostic of a component (Array.find).
StatusOf(component, diagnostics) == diagnostics[Min({k \in DOMAIN diagnostics : diagnostics[k].component = component})].status

Verdict(status, code) == [status |-> status, code |-> code]

\* Mutant: an account that cannot be read is taken for one that is missing.
checkEmployerReadiness_UnreadIsMissing(q, c, w) ==
  IF ~q.employerValid \/ q.signer # "employer" \/ c.networkUrl # "http" \/ ~isValidContractId(c.contractId) \/ w.account # "found"
  THEN Verdict("blocked", "BLOCKED") ELSE IF ~w.rpcUp THEN Verdict("unavailable", "RPC_UNAVAILABLE") ELSE Verdict("ready", "READY")

\* employer-readiness.ts: the first check that does not pass decides.
checkEmployerReadiness(q, c, w) ==
  LET env == validateEnvironment([c EXCEPT !.proof = "none"], w).diagnostics IN
  IF ~q.employerValid THEN Verdict("blocked", "INVALID_EMPLOYER_ADDRESS")
  ELSE IF c.networkUrl # "http" \/ ~isValidContractId(c.contractId) THEN Verdict("blocked", "INVALID_PAYROLL_CONFIGURATION")
  ELSE FirstOf(<< <<q.signer = "unavailable", Verdict("blocked", "EMPLOYER_SIGNER_UNAVAILABLE")>>,
                  <<q.signer = "invalid", Verdict("blocked", "INVALID_EMPLOYER_SIGNER")>>,
                  <<q.signer = "other", Verdict("blocked", "EMPLOYER_SIGNER_MISMATCH")>>,
                  <<StatusOf("rpc", env) # "success", Verdict("unavailable", "RPC_UNAVAILABLE")>>,
                  <<StatusOf("contract", env) = "warning", Verdict("unavailable", "PAYROLL_CONTRACT_UNAVAILABLE")>>,
                  <<StatusOf("contract", env) # "success", Verdict("blocked", "PAYROLL_CONTRACT_UNAVAILABLE")>>,
                  <<w.account = "missing", Verdict("blocked", "EMPLOYER_ACCOUNT_NOT_FOUND")>>,
                  <<w.account = "unread", Verdict("unavailable", "EMPLOYER_ACCOUNT_UNVERIFIED")>> >>, Verdict("ready", "READY"))

-----------------------------------------------------------------------------
\* env/detector.ts: what the runtime offers, given what is defined globally.
detectEnvironment(runtime, globals) ==
  LET offered == CASE runtime \in {"browser", "worker"} ->
                        (globals \intersect {"fetch", "crypto", "wasm", "localStorage", "indexedDB"}) \union {"rpc_call"}
                        \union (IF runtime = "worker" \/ "Worker" \in globals THEN {"web_worker"} ELSE {})
                        \union (IF runtime = "browser" THEN {"wallet_connection"} ELSE {})
                   [] runtime = "node" -> (globals \intersect {"crypto", "wasm"}) \union {"rpc_call", "file_system"}
                   [] OTHER -> {}
  IN  offered \union (IF {"wasm", "crypto"} \subseteq offered THEN {"proof_generation"} ELSE {})

SDK_OPERATIONS ==
  [connectWallet |-> {"wallet_connection"}, signTransaction |-> {"wallet_connection"}, submitPayment |-> {"rpc_call"},
   generateProof |-> {"proof_generation"}, generateProofWorker |-> {"web_worker", "proof_generation"},
   simulatePayroll |-> {"rpc_call"}, pollTransaction |-> {"rpc_call"}, validateEnvironment |-> {"rpc_call"},
   estimateFee |-> {"rpc_call"}, summarizeTransaction |-> {}]

canRunOperation(operation, capabilities) ==
  IF operation \in DOMAIN SDK_OPERATIONS THEN SDK_OPERATIONS[operation] \subseteq capabilities ELSE FALSE

\* Mutant: proofs are taken to need WebAssembly and random numbers of a page.
guardAllows_PageProofs(capability, runtime, capabilities, disabled) ==
  capability \notin disabled /\ (capability = "proof_generation" => {"fetch", "proof_generation"} \subseteq capabilities)

\* networkCapabilityGuard.ts
guardAllows(capability, runtime, capabilities, disabled) ==
  /\ capability \notin disabled
  /\ CASE capability = "signing" -> "wallet_connection" \in capabilities \/ runtime = "node"
       [] capability = "fetching" -> "fetch" \in capabilities \/ runtime = "node"
       [] capability = "polling" -> "rpc_call" \in capabilities
       [] OTHER -> "proof_generation" \in capabilities

-----------------------------------------------------------------------------
\* rpcRetry.ts: the outcomes of the attempts; abortAt is the attempt before which the signal fires.
Decisive(outcome) == outcome \in {"ok", "fatal"}

\* Mutant: the last attempt is retried too.
rpcAttempts_OneMore(outcomes, maxAttempts, abortAt) ==
  Min({i \in DOMAIN outcomes : Decisive(outcomes[i]) \/ i = maxAttempts + 1 \/ i + 1 = abortAt} \union {Len(outcomes)})

\* Attempts made: up to a success, an error not worth retrying, the last attempt, or the abort.
rpcAttempts(outcomes, maxAttempts, abortAt) ==
  IF abortAt = 1 THEN 0
  ELSE Min({i \in DOMAIN outcomes : Decisive(outcomes[i]) \/ i = maxAttempts \/ i + 1 = abortAt})

withRpcRetry(outcomes, maxAttempts, abortAt) ==
  LET n == rpcAttempts(outcomes, maxAttempts, abortAt) IN
  IF n = 0 THEN "aborted" ELSE IF Decisive(outcomes[n]) THEN outcomes[n] ELSE IF n = maxAttempts THEN "transient" ELSE "aborted"

\* The wait after each attempt before the ceiling: the base, doubled after every attempt.
rpcWaits(attempts, base) == LET waits[k \in 1..attempts] == IF k = 1 THEN base ELSE 2 * waits[k - 1] IN waits

rpcDelay(attempt, base, max) == LET wait == rpcWaits(attempt, base)[attempt] IN IF wait < max THEN wait ELSE max

-----------------------------------------------------------------------------
NoRetry == [maxAttempts |-> NoLimit, initialDelay |-> NoLimit, maxDelay |-> NoLimit]

ConfigInputs ==
  [config : [networkUrl : {Absent, "http", "ftp"}, rpcUrl : {Absent, Nil, "http", "malformed"}, network : {Absent, Nil, "testnet"},
             contractId : {Absent, Nil, "bad", "C1"}, contractIds : {<<>>, <<"C2">>, <<"C2", "bad">>}, proof : {"none", "url", "source"},
             retry : {NoRetry, [maxAttempts |-> 0, initialDelay |-> 2, maxDelay |-> 1]},
             nodeUrl : {Absent, "http"}, serverUrl : {Absent}, contractAddress : {Absent, "C1"}]]

SomeOptions ==
  [rpcReachable |-> "yes", passphraseMatches |-> "unknown", contractDeployed |-> "yes", treasury |-> "none", funded |-> "unknown",
   testFixtures |-> "yes", wallet |-> [given |-> TRUE, available |-> "yes", connected |-> "no", network |-> "testnet"]]

Worlds ==
  [rpcUp : BOOLEAN, deployed : BOOLEAN, simulates : BOOLEAN, artifactsUp : BOOLEAN, account : {"found", "missing", "unread"}]

EmployerInputs ==
  [request : [employerValid : BOOLEAN, signer : {"employer", "other", "invalid", "unavailable"}],
   config : [networkUrl : {Nil, "http", "ws"}, contractId : {Nil, "bad", "C1"}, proof : {"none", "url"}],
   world : Worlds]

RuntimeInputs ==
  [runtime : {"browser", "worker", "node", "unknown"}, globals : SUBSET {"fetch", "crypto", "wasm", "Worker"},
   disabled : SUBSET {"signing", "polling", "proof_generation"}]

RpcInputs == [outcomes : [1..4 -> {"ok", "transient", "fatal"}], maxAttempts : 1..3, abortAt : 0..3, base : 0..2, max : 2..5]

\* A checklist without a failure means a configuration the client accepts, when the proof
\* artifacts are given by url (the checklist also takes source objects, validateConfig does not).
ReadyConfigLoads ==
  About("config") =>
    LET c == subject.input.config IN
    noBlockers(generateSetupChecklist(c, SomeOptions)) /\ c.proof # "source" => assertValidConfig(c).ok

\* Migration is done once: migrating its own result changes nothing and warns of nothing,
\* a migrated configuration that was found valid is valid, and no new name is overwritten.
MigrationSettles ==
  About("config") =>
    LET c == subject.input.config
        once == migrate(c)
        twice == migrate(once.config)
    IN  /\ twice.config = once.config /\ twice.warnings = {}
        /\ once.errors = {} => validateConfig(once.config) = {}
        /\ c.contractId # Absent => once.config.contractId = c.contractId

\* An employer is blocked only by what another attempt will not change: with the request and
\* the configuration in order and the account not known to be missing, an endpoint that is
\* down or a read that fails leaves the verdict "unavailable".
BlockedIsLasting ==
  About("employer") =>
    LET i == subject.input
        v == checkEmployerReadiness(i.request, i.config, i.world)
    IN  /\ v.status = "ready" => i.request.signer = "employer" /\ i.world.rpcUp /\ i.world.account = "found"
        /\ v.status = "blocked" /\ v.code # "EMPLOYER_ACCOUNT_NOT_FOUND" =>
             \A w \in Worlds : checkEmployerReadiness(i.request, i.config, w) = v
        /\ v.status = "unavailable" => ~i.world.rpcUp \/ i.world.account = "unread"
        /\ v.status = "blocked" /\ i.world.account = "unread" => v.code # "EMPLOYER_ACCOUNT_NOT_FOUND"

\* What the operation table says can run, the guard lets run unless it was disabled.
CapabilityViewsAgree ==
  About("runtime") =>
    LET i == subject.input
        caps == detectEnvironment(i.runtime, i.globals)
        guard(c) == guardAllows(c, i.runtime, caps, i.disabled)
    IN  /\ canRunOperation("signTransaction", caps) /\ "signing" \notin i.disabled => guard("signing")
        /\ "polling" \notin i.disabled => (guard("polling") <=> canRunOperation("pollTransaction", caps))
        /\ "proof_generation" \notin i.disabled => (guard("proof_generation") <=> canRunOperation("generateProof", caps))

\* A call is retried only after a transient failure, at most maxAttempts times, and never
\* once it succeeded or was aborted; the waits never shrink and never pass their ceiling.
RetriesEarned ==
  About("rpc") =>
    LET i == subject.input
        n == rpcAttempts(i.outcomes, i.maxAttempts, i.abortAt)
    IN  /\ n <= i.maxAttempts
        /\ i.abortAt > 0 => n < i.abortAt
        /\ \A k \in 1..(n - 1) : i.outcomes[k] = "transient"
        /\ withRpcRetry(i.outcomes, i.maxAttempts, i.abortAt) = "ok" <=> (n > 0 /\ i.outcomes[IF n = 0 THEN 1 ELSE n] = "ok")
        /\ \A k \in 1..n : rpcDelay(k, i.base, i.max) <= rpcDelay(k + 1, i.base, i.max) /\ rpcDelay(k, i.base, i.max) <= i.max
=============================================================================
