--------------------------- MODULE Configuration ---------------------------
(***************************************************************************)
(* What the process makes of its environment (Config::from_env and         *)
(* validate_consistency of src/config.rs): a configuration, or a refusal   *)
(* to start.  An environment gives each variable a raw value: Unset,       *)
(* Garbage for what does not parse as a 64-bit number, or the number; for  *)
(* the textual ones Unset, Blank, Garbage or Text.  Durations are in       *)
(* seconds.                                                                *)
(***************************************************************************)
EXTENDS Integers

CONSTANTS Unset, Garbage, Blank, Text, Refused,
          MaxU64  \* u64::MAX; TLC computes with less

ASSUME ConfigurationAssumption ==
    /\ MaxU64 \in Int /\ MaxU64 >= 1073741824
    /\ Refused \notin 1..MaxU64

Defaults == [max_upload_bytes   |-> 67108864,
             max_temp_bytes     |-> 1073741824,
             conversion_timeout |-> 120,  conversion_slots |-> 2,
             cleanup_interval   |-> 60,   temp_ttl         |-> 1800,
             ipp_timeout        |-> 15,   printer_cache_ttl |-> 10,
             job_cache_ttl      |-> 2,    idempotency_ttl  |-> 600,
             idempotency_wait   |-> 15,   upload_slots     |-> 4,
             request_timeout    |-> 300,  shutdown_timeout |-> 30,
             ready_timeout      |-> 3]

Settings == DOMAIN Defaults

-----------------------------------------------------------------------------
(* env_u64, env_usize and env_duration: zero is refused like what does not *)
(* parse.                                                                  *)
Number(raw, default) ==
    IF raw = Unset THEN default
    ELSE IF raw \in 1..MaxU64 THEN raw
    ELSE Refused

TextsAccepted(env) ==
    /\ env.token = Text
    /\ env.addr \in {Unset, Text}
    /\ env.cups_uri \in {Unset, Text}
    /\ env.public_base_url \in {Unset, Blank, Text}

Read(env) == [s \in Settings |-> Number(env[s], Defaults[s])]

\* Duration::saturating_mul: beyond every whole number of seconds.
Thrice(seconds) == IF 3 * seconds > MaxU64 THEN MaxU64 + 1 ELSE 3 * seconds

Consistent(c) ==
    /\ c.idempotency_ttl >= Thrice(c.ipp_timeout)
    /\ c.temp_ttl > c.conversion_timeout
    /\ c.max_temp_bytes >= c.max_upload_bytes

FromEnv(env) ==
    IF /\ TextsAccepted(env)
       /\ \A s \in Settings : Read(env)[s] # Refused
       /\ Consistent(Read(env))
    THEN Read(env) ELSE Refused
=============================================================================
