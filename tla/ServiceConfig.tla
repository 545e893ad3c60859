--------------------------- MODULE ServiceConfig ---------------------------
(***************************************************************************)
(* The configuration of the payment service (src/config.rs): which         *)
(* environments Config::from_env accepts, the Config it makes of them, and *)
(* the URL checks shared with payment sessions.                            *)
(*                                                                         *)
(* An environment variable with a number is the number, or one of the      *)
(* three values below; an unparsable or too large number is Garbage.  A    *)
(* URL is the record of what its checks look at.                           *)
(***************************************************************************)
EXTENDS Integers

Unset   == -1
Garbage == -2
Blank   == -3     \* set, but empty or spaces only

CONSTANTS
    NoUivk,     \* ZCASH_UIVK is unset or blank
    NoUrl       \* a URL variable is unset or blank

MaxRequiredConfirmations == 100

\* The numeric settings with their defaults.  ZCASH_BIRTHDAY_HEIGHT and
\* REQUIRED_CONFIRMATIONS stay unset when the environment has none.
Defaults == [birthday_height                 |-> Unset,
             catch_up_threshold_blocks       |-> 1,
             catch_up_batch_size             |-> 100,
             scan_parallelism                |-> 4,
             sync_poll_interval_seconds      |-> 5,
             webhook_poll_interval_seconds   |-> 2,
             webhook_retry_delay_seconds     |-> 30,
             webhook_retry_max_delay_seconds |-> 300,
             webhook_max_attempts            |-> 8,
             webhook_report_confirmations    |-> 0,
             finality_confirmations          |-> 100,
             required_confirmations          |-> Unset]

Settings == DOMAIN Defaults

PositiveSettings ==
    {"catch_up_batch_size", "scan_parallelism", "sync_poll_interval_seconds",
     "webhook_poll_interval_seconds", "webhook_retry_delay_seconds",
     "webhook_retry_max_delay_seconds", "webhook_max_attempts"}

\* Only REQUIRED_CONFIRMATIONS may be blank, which then means unset.
NumberRefused(s, v) ==
    \/ v = Garbage
    \/ v = Blank /\ s # "required_confirmations"
    \/ v = 0 /\ s \in PositiveSettings

NumberOf(s, v) == IF v \in {Unset, Blank} THEN Defaults[s] ELSE v

-----------------------------------------------------------------------------
(* URLs: [scheme, host, port, userinfo, path, query, fragment].  Scheme    *)
(* "none" is text that is no absolute URL with a host; port 0 is no port;  *)
(* hosts are compared without case.                                        *)

HttpUrl(u) == u.scheme \in {"http", "https"}

PublicBaseUrl(u) == HttpUrl(u) /\ ~u.query /\ ~u.fragment

DefaultPort(scheme) == IF scheme = "http" THEN 80 ELSE 443

\* url_origin, for a URL without user info.
UrlOrigin(u) ==
    [scheme |-> u.scheme, host |-> u.host,
     port |-> IF u.port = DefaultPort(u.scheme) THEN 0 ELSE u.port]

\* An entry of RETURN_URL_ALLOWED_ORIGINS.
AllowedOriginEntry(u) == HttpUrl(u) /\ ~u.path /\ ~u.query /\ ~u.userinfo

\* validate_return_url: an empty list allows every origin.
ReturnUrlAllowed(u, origins) ==
    /\ HttpUrl(u)
    /\ ~u.userinfo
    /\ origins # {} => UrlOrigin(u) \in origins

-----------------------------------------------------------------------------
(* Config::from_env.                                                       *)

NetworkOf(env) == IF env.network = "unset" THEN "testnet" ELSE env.network

\* APP_DB_PATH and WALLET_DB_PATH, and the network's name.
PlacesRefused(env) ==
    \/ env.app_db_path = env.wallet_db_path
    \/ NetworkOf(env) \notin {"testnet", "mainnet"}

\* The optional texts: the webhook URL, the public base URL, the development
\* switch and the allowed origins.
TextsRefused(env) ==
    \/ env.webhook_url # NoUrl /\ ~HttpUrl(env.webhook_url)
    \/ env.public_base_url # NoUrl /\ ~PublicBaseUrl(env.public_base_url)
    \/ env.dev_simulated_payments \notin {"unset", "false", "true"}
    \/ \E u \in env.return_url_allowed_origins : ~AllowedOriginEntry(u)

NumbersRefused(env) == \E s \in Settings : NumberRefused(s, env.numbers[s])

\* validate_required_confirmations.
RequiredRefused(required, report, finality) ==
    /\ required # Unset
    /\ \/ report # 0
       \/ required > MaxRequiredConfirmations
       \/ required > finality

\* validate_dev_simulated_payments.
DevRefused(network, lightwalletd) == network # "testnet" \/ lightwalletd

FromEnv(env) ==
    [network  |-> NetworkOf(env),
     startup_uivk |-> env.startup_uivk,
     lightwalletd |-> env.lightwalletd,
     wallet_db_path |-> env.wallet_db_path,
     birthday |-> env.numbers["birthday_height"],
     report   |-> NumberOf("webhook_report_confirmations",
                           env.numbers["webhook_report_confirmations"]),
     finality |-> NumberOf("finality_confirmations",
                           env.numbers["finality_confirmations"]),
     required |-> NumberOf("required_confirmations",
                           env.numbers["required_confirmations"]),
     webhook  |-> env.webhook_url # NoUrl /\ env.webhook_secret,
     dev      |-> env.dev_simulated_payments = "true",
     origins  |-> {UrlOrigin(u) : u \in env.return_url_allowed_origins}]

ConfigAccepted(env) ==
    /\ ~PlacesRefused(env)
    /\ ~TextsRefused(env)
    /\ ~NumbersRefused(env)
    /\ LET c == FromEnv(env)
       IN  /\ ~RequiredRefused(c.required, c.report, c.finality)
           /\ c.dev => ~DevRefused(c.network, c.lightwalletd)
=============================================================================
