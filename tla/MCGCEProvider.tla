---------------------------- MODULE MCGCEProvider ----------------------------
(***************************************************************************)
(* Model-checking harness for GCEProvider: a working option mapping, and   *)
(* every mapping that differs from it in one or two options, each option   *)
(* taking the classes of values newGCEProvider tells apart.                *)
(***************************************************************************)
EXTENDS GCEProvider

\* Account JSON inline, an encrypted RSA key with its passphrase, all else
\* unset.
Base ==
    [ACCOUNT_JSON |-> "json", PROJECT_ID |-> "set",
     SSH_KEY_PATH |-> "encrypted", SSH_PUB_KEY_PATH |-> "set",
     SSH_KEY_PASSPHRASE |-> "right",
     ZONE |-> "unset", MACHINE_TYPE |-> "unset", NETWORK |-> "unset",
     DISK_SIZE |-> "unset", BOOT_POLL_SLEEP |-> "unset",
     UPLOAD_RETRIES |-> "unset", UPLOAD_RETRY_SLEEP |-> "unset",
     AUTO_IMPLODE |-> "unset", HARD_TIMEOUT_MINUTES |-> "unset",
     IMAGE_SELECTOR_TYPE |-> "unset", IMAGE_SELECTOR_URL |-> "unset",
     INSTANCE_GROUP |-> "unset"]

Alternatives ==
    [ACCOUNT_JSON |-> {"unset", "badJson", "path", "missing"},
     PROJECT_ID |-> {"unset"},
     SSH_KEY_PATH |-> {"unset", "missing", "notPem"},
     SSH_PUB_KEY_PATH |-> {"unset", "missing"},
     SSH_KEY_PASSPHRASE |-> {"unset", "wrong"},
     ZONE |-> {"set"}, MACHINE_TYPE |-> {"set"}, NETWORK |-> {"set"},
     DISK_SIZE |-> {"good", "bad"}, BOOT_POLL_SLEEP |-> {"good", "bad"},
     UPLOAD_RETRIES |-> {"good", "bad"}, UPLOAD_RETRY_SLEEP |-> {"good", "bad"},
     AUTO_IMPLODE |-> {"true", "false", "bad"},
     HARD_TIMEOUT_MINUTES |-> {"good", "negative", "bad"},
     IMAGE_SELECTOR_TYPE |-> {"legacy", "env", "api", "bad"},
     IMAGE_SELECTOR_URL |-> {"good", "bad"},
     INSTANCE_GROUP |-> {"set"}]

Changes == UNION {{<<o, v>> : v \in Alternatives[o]} : o \in DOMAIN Alternatives}

Vary(c, ch) == [c EXCEPT ![ch[1]] = ch[2]]

MCConfigs ==
    {Base} \cup {Vary(Base, ch) : ch \in Changes}
           \cup {Vary(Vary(Base, a), b) : a, b \in Changes}

\* The working mapping, with a negative HARD_TIMEOUT_MINUTES or not.
MCHardTimeoutConfigs ==
    {Base, Vary(Base, <<"HARD_TIMEOUT_MINUTES", "negative">>)}

=============================================================================
