------------------------------ MODULE GCEConfig ------------------------------
(***************************************************************************)
(* Building the gce provider (newGCEProvider, backend/gce.go) from the     *)
(* worker's option mapping, and Setup, which looks up the zone, machine    *)
(* type and network it resolved.                                           *)
(*                                                                         *)
(* An option's value is abstracted to what the code tells apart: "unset",  *)
(* or a class of values ("set", "good", "bad", "negative", a file that is  *)
(* "missing", a key that is "notPem", a passphrase that is "wrong", ...).  *)
(* A name the provider writes back for an unset option is "default".      *)
(***************************************************************************)
EXTENDS Naturals, Sequences, SequencesExt

CONSTANT Configs   \* the option mappings the worker may pass

VARIABLES
    input,      \* the mapping as the worker passed it
    cfg,        \* the mapping, which newGCEProvider writes to
    phase,      \* "new", "built", "buildFailed", "ready" or "setupFailed"
    provider,   \* the fields of the built provider that later steps read
    buildErr,   \* the option whose check failed construction
    lookups     \* the names Setup has asked the cloud for, in order

configVars == <<input, cfg, phase, provider, buildErr, lookups>>

\* The names Setup resolves, in the order it looks them up.
Resolved == <<"ZONE", "MACHINE_TYPE", "NETWORK">>

NoProvider == [instanceGroup |-> FALSE, diskSize |-> "none",
               autoImplode |-> FALSE, hardTimeoutMinutes |-> "none",
               selectorType |-> "none"]

Providers == [instanceGroup : BOOLEAN, diskSize : {"default", "custom"},
              autoImplode : BOOLEAN,
              hardTimeoutMinutes : {"nonNegative", "negative"},
              selectorType : {"legacy", "env", "api"}]
             \cup {NoProvider}

TypeOK ==
    /\ input \in Configs
    /\ DOMAIN cfg = DOMAIN input
    /\ phase \in {"new", "built", "buildFailed", "ready", "setupFailed"}
    /\ provider \in Providers
    /\ buildErr \in DOMAIN input \cup {"none"}
    /\ lookups \in Seq({"default", "set", "unset"})
    /\ Len(lookups) <= Len(Resolved)

-----------------------------------------------------------------------------
(* newGCEProvider's checks, in the order the code makes them; each is      *)
(* TRUE when it passes.  The first failing one is the error returned.      *)

\* buildGoogleComputeService and loadGoogleAccountJSON: ACCOUNT_JSON is
\* literal JSON (first non-blank character "{") or a path to read; either
\* way it must unmarshal.
AccountOk(c) == c["ACCOUNT_JSON"] \in {"json", "path"}

\* The key checks up to ssh.NewSignerFromKey: the three paths and the
\* passphrase are required; the key file must be readable, hold a PEM
\* block, and decrypt with the passphrase to a PKCS#1 RSA key.
KeyChecks(c) ==
    << [opt |-> "PROJECT_ID", ok |-> c["PROJECT_ID"] # "unset"],
       [opt |-> "SSH_KEY_PATH", ok |-> c["SSH_KEY_PATH"] \notin {"unset", "missing"}],
       [opt |-> "SSH_PUB_KEY_PATH", ok |-> c["SSH_PUB_KEY_PATH"] = "set"],
       [opt |-> "SSH_KEY_PATH", ok |-> c["SSH_KEY_PATH"] # "notPem"],
       [opt |-> "SSH_KEY_PASSPHRASE", ok |-> c["SSH_KEY_PASSPHRASE"] = "right"] >>

\* buildGCEImageSelector, called for env and api only: the env selector
\* (image package) is taken to build; for api, url.Parse of the
\* IMAGE_SELECTOR_URL value, "" when it is unset, must succeed.
SelectorBuilds(c) ==
    c["IMAGE_SELECTOR_TYPE"] = "api" => c["IMAGE_SELECTOR_URL"] # "bad"

\* Mutant: DISK_SIZE's parse error is returned like the other options'.
OptionChecksDiskStrict(c) ==
    << [opt |-> "DISK_SIZE", ok |-> c["DISK_SIZE"] # "bad"],
       [opt |-> "BOOT_POLL_SLEEP", ok |-> c["BOOT_POLL_SLEEP"] # "bad"],
       [opt |-> "UPLOAD_RETRIES", ok |-> c["UPLOAD_RETRIES"] # "bad"],
       [opt |-> "UPLOAD_RETRY_SLEEP", ok |-> c["UPLOAD_RETRY_SLEEP"] # "bad"],
       [opt |-> "AUTO_IMPLODE", ok |-> c["AUTO_IMPLODE"] # "bad"],
       [opt |-> "HARD_TIMEOUT_MINUTES", ok |-> c["HARD_TIMEOUT_MINUTES"] # "bad"],
       [opt |-> "IMAGE_SELECTOR_TYPE", ok |-> c["IMAGE_SELECTOR_TYPE"] # "bad"],
       [opt |-> "IMAGE_SELECTOR_URL", ok |-> SelectorBuilds(c)] >>

\* The checks after the write-back: time.ParseDuration, strconv.ParseUint,
\* strconv.ParseBool and ParseInt errors are returned (DISK_SIZE's is not);
\* the selector type must be legacy, env or api; then the selector must
\* build.
OptionChecks(c) ==
    << [opt |-> "BOOT_POLL_SLEEP", ok |-> c["BOOT_POLL_SLEEP"] # "bad"],
       [opt |-> "UPLOAD_RETRIES", ok |-> c["UPLOAD_RETRIES"] # "bad"],
       [opt |-> "UPLOAD_RETRY_SLEEP", ok |-> c["UPLOAD_RETRY_SLEEP"] # "bad"],
       [opt |-> "AUTO_IMPLODE", ok |-> c["AUTO_IMPLODE"] # "bad"],
       [opt |-> "HARD_TIMEOUT_MINUTES", ok |-> c["HARD_TIMEOUT_MINUTES"] # "bad"],
       [opt |-> "IMAGE_SELECTOR_TYPE", ok |-> c["IMAGE_SELECTOR_TYPE"] # "bad"],
       [opt |-> "IMAGE_SELECTOR_URL", ok |-> SelectorBuilds(c)] >>

\* Mutant: NETWORK is resolved but not written back.
WriteBackNoNetwork(c) ==
    [o \in DOMAIN c |->
        IF o \in {"ZONE", "MACHINE_TYPE"} /\ c[o] = "unset" THEN "default" ELSE c[o]]

\* cfg.Set of ZONE, MACHINE_TYPE and NETWORK to the value used: the
\* option's own, or the default for an unset one.
WriteBack(c) ==
    [o \in DOMAIN c |->
        IF o \in Range(Resolved) /\ c[o] = "unset" THEN "default" ELSE c[o]]

\* The fields of the returned gceProvider: instanceGroup from
\* INSTANCE_GROUP; DISK_SIZE falls back to the default when it does not
\* parse; AUTO_IMPLODE defaults to true, HARD_TIMEOUT_MINUTES to 130 and
\* is kept with its sign; the selector type defaults to legacy.
Built(c) ==
    [instanceGroup |-> c["INSTANCE_GROUP"] = "set",
     diskSize |-> IF c["DISK_SIZE"] = "good" THEN "custom" ELSE "default",
     autoImplode |-> c["AUTO_IMPLODE"] # "false",
     hardTimeoutMinutes |-> IF c["HARD_TIMEOUT_MINUTES"] = "negative"
                            THEN "negative" ELSE "nonNegative",
     selectorType |-> IF c["IMAGE_SELECTOR_TYPE"] = "unset" THEN "legacy"
                      ELSE c["IMAGE_SELECTOR_TYPE"]]

FirstFailure(checks) ==
    LET i == SelectInSeq(checks, LAMBDA k : ~k.ok)
    IN IF i = 0 THEN "none" ELSE checks[i].opt

-----------------------------------------------------------------------------
Init ==
    /\ input \in Configs
    /\ cfg = input
    /\ phase = "new"
    /\ provider = NoProvider
    /\ buildErr = "none"
    /\ lookups = <<>>

(* newGCEProvider: the account and key checks, then the write-back, then  *)
(* the option checks; an error returns at once, the write-back staying    *)
(* on the mapping if it was reached.                                       *)
NewProvider ==
    /\ phase = "new"
    /\ LET early == IF ~AccountOk(cfg) THEN "ACCOUNT_JSON"
                    ELSE FirstFailure(KeyChecks(cfg))
           late == FirstFailure(OptionChecks(cfg))
           err == IF early # "none" THEN early ELSE late
       IN /\ buildErr' = err
          /\ cfg' = IF early = "none" THEN WriteBack(cfg) ELSE cfg
          /\ phase' = IF err = "none" THEN "built" ELSE "buildFailed"
          /\ provider' = IF err = "none" THEN Built(cfg) ELSE NoProvider
    /\ UNCHANGED <<input, lookups>>

(* Setup: Zones.Get, MachineTypes.Get, Networks.Get with the names read    *)
(* back from cfg, returning at the first error.  The cloud may not know a  *)
(* name; it never knows the empty name of an unset option.                 *)
Setup ==
    /\ phase = "built"
    /\ \E n \in 1..Len(Resolved), failed \in BOOLEAN :
        LET names == [i \in 1..n |-> cfg[Resolved[i]]]
            fails == failed \/ names[n] = "unset"
        IN /\ \A i \in 1..n - 1 : names[i] # "unset"
           /\ n < Len(Resolved) => fails
           /\ lookups' = names
           /\ phase' = IF fails THEN "setupFailed" ELSE "ready"
    /\ UNCHANGED <<input, cfg, provider, buildErr>>

-----------------------------------------------------------------------------
(* Spec 3 and 7: the options whose stated type fails to parse, a missing  *)
(* required option (IMAGE_SELECTOR_URL is required for api), unusable     *)
(* credentials or an unknown selector type are fatal; DISK_SIZE is not.   *)
SpecAccepts(c) ==
    /\ c["ACCOUNT_JSON"] \in {"json", "path"}
    /\ \A o \in {"PROJECT_ID", "SSH_PUB_KEY_PATH"} : c[o] = "set"
    /\ c["SSH_KEY_PATH"] = "encrypted" /\ c["SSH_KEY_PASSPHRASE"] = "right"
    /\ \A o \in {"BOOT_POLL_SLEEP", "UPLOAD_RETRIES", "UPLOAD_RETRY_SLEEP",
                 "AUTO_IMPLODE", "HARD_TIMEOUT_MINUTES", "IMAGE_SELECTOR_TYPE"} :
           c[o] # "bad"
    /\ c["IMAGE_SELECTOR_TYPE"] = "api" => c["IMAGE_SELECTOR_URL"] = "good"

\* A built provider has DISK_SIZE's default when its value does not parse,
\* and the instance group it was given.
BuiltFromInput ==
    /\ provider.diskSize = IF input["DISK_SIZE"] = "good"
                           THEN "custom" ELSE "default"
    /\ provider.instanceGroup = (input["INSTANCE_GROUP"] = "set")

(* newGCEProvider never refuses a mapping the spec accepts: of the typed  *)
(* options only DISK_SIZE is lenient, and a refused mapping has a real    *)
(* error, reported at the first failing check in code order.               *)
ConstructionRefusesOnlySpecErrors ==
    phase # "new" =>
        /\ phase = "buildFailed" => ~SpecAccepts(input)
        /\ phase # "buildFailed" => BuiltFromInput

(* newGCEProvider builds a provider exactly for the mappings the spec      *)
(* accepts, DISK_SIZE falling back to its default.                         *)
ConstructionMatchesSpec ==
    phase # "new" =>
        /\ phase # "buildFailed" <=> SpecAccepts(input)
        /\ phase # "buildFailed" => BuiltFromInput

(* Config round-trip (spec 8): every name Setup looks up is the value the  *)
(* worker set or, for an unset option, its default, which newGCEProvider   *)
(* wrote back; never the empty name of an unset option.                    *)
SetupLooksUpResolved ==
    \A i \in 1..Len(lookups) :
        lookups[i] = IF input[Resolved[i]] = "unset" THEN "default"
                     ELSE input[Resolved[i]]

=============================================================================
