--------------------------- MODULE Configuration ---------------------------
(***************************************************************************)
(* internal/config/config.go: Load and Validate.                           *)
(*                                                                         *)
(* An environment is a record of the variables that decide the way of a    *)
(* request or whether the service starts; addresses, names, passwords and  *)
(* the numbers of the webhook worker are left out.  A variable is Unset    *)
(* (or empty: the code does not tell them apart), Garbage that no parser   *)
(* accepts, or a value.  A secret is reduced to its length without the     *)
(* blanks around it and to whether it is a known placeholder.              *)
(***************************************************************************)
EXTENDS Integers

CONSTANTS Unset, Garbage

MinJWTSecretLength == 32

Secret(length, known) == [length |-> length, placeholder |-> known]

-----------------------------------------------------------------------------
\* A variable that is set to the empty string counts as not set.
GetEnv(value, fallback) == IF value = Unset THEN fallback ELSE value

\* getEnvAsInt, getEnvAsBool: what cannot be parsed is replaced by the default.
GetEnvAs(value, fallback) == IF value \in {Unset, Garbage} THEN fallback ELSE value

\* strings.EqualFold with development or dev: a name stands for all its spellings in
\* upper and lower case, which nothing here tells apart.
IsDevelopmentEnv(name) == name \in {"development", "dev"}

IsDevelopment(c) == IsDevelopmentEnv(c.appEnv)

Load(e) ==
    [appEnv         |-> GetEnv(e.appEnv, "development"),
     jwtSecret      |-> GetEnv(e.jwtSecret, Secret(9, TRUE)),
     jwtIssuer      |-> GetEnv(e.jwtIssuer, "issuer"),
     jwtExpiry      |-> GetEnvAs(e.jwtExpiry, 60),
     docs           |-> GetEnvAs(e.docs, TRUE),
     metricsEnabled |-> GetEnvAs(e.metricsEnabled, TRUE),
     metricsToken   |-> GetEnv(e.metricsToken, Unset),
     limit          |-> [login    |-> GetEnvAs(e.limitLogin, 10),
                         topup    |-> GetEnvAs(e.limitTopup, 20),
                         transfer |-> GetEnvAs(e.limitTransfer, 20)]]

\* strings.TrimSpace(text) == ""
Blank(text) == text \in {Unset, "blank"}

IsWeakJWTSecret(secret) ==
    secret.length < MinJWTSecretLength \/ secret.placeholder

Validate(c) ==
    /\ ~Blank(c.jwtIssuer)
    /\ ~IsDevelopment(c) => ~IsWeakJWTSecret(c.jwtSecret)
    /\ c.metricsEnabled /\ ~IsDevelopment(c) => ~Blank(c.metricsToken)
=============================================================================
