------------------------------ MODULE MCStartup ------------------------------
(* Small instances of Startup for TLC.                                     *)
EXTENDS Startup

Url == [scheme |-> "https", host |-> "shop", port |-> 443, userinfo |-> FALSE,
        path |-> FALSE, query |-> FALSE, fragment |-> FALSE]

Testnet == [network |-> "unset", startup_uivk |-> "key1", lightwalletd |-> TRUE,
            app_db_path |-> "app", wallet_db_path |-> "wallet",
            webhook_url |-> Url, webhook_secret |-> TRUE,
            public_base_url |-> NoUrl, dev_simulated_payments |-> "unset",
            return_url_allowed_origins |-> {Url},
            numbers |-> [s \in Settings |-> IF s = "birthday_height" THEN 1 ELSE Unset]]

\* Deployments that differ in one respect: another network than the key's, a
\* development server, no key.
Accepted ==
    {Testnet,
     [Testnet EXCEPT !.network = "mainnet"],
     [Testnet EXCEPT !.dev_simulated_payments = "true", !.lightwalletd = FALSE],
     [Testnet EXCEPT !.startup_uivk = NoUivk, !.numbers["birthday_height"] = Unset]}

\* An overlapping deployment: another key, another finality, an array.
Overlap ==
    {[Testnet EXCEPT !.startup_uivk = "key2"],
     [Testnet EXCEPT !.numbers["finality_confirmations"] = 1],
     [Testnet EXCEPT !.numbers["required_confirmations"] = 2]}

\* Environments that Config::from_env refuses.
RefusedEnvs ==
    {[Testnet EXCEPT !.app_db_path = "wallet"],
     [Testnet EXCEPT !.network = "regtest"],
     [Testnet EXCEPT !.webhook_url.scheme = "ftp"],
     [Testnet EXCEPT !.dev_simulated_payments = "true"],
     [Testnet EXCEPT !.numbers["webhook_max_attempts"] = 0],
     [Testnet EXCEPT !.numbers["finality_confirmations"] = 1,
                     !.numbers["required_confirmations"] = 2]}

SmallEnvs == [p1 |-> Accepted \cup RefusedEnvs, p2 |-> Overlap]
SomeAccounts == {NoAccount, [uivk |-> "key1", birthday |-> 1]}
SmallKeys == [key1 |-> "testnet", key2 |-> "testnet"]
T(p, r, i) == [proc |-> p, role |-> r, id |-> i]
Overlapping == {T("p1", "http", 1), T("p1", "sync", 1), T("p2", "http", 1)}
Embedded == {T("p1", "http", 1), T("p1", "http", 2), T("p1", "worker", 1)}
SmallTasks == Overlapping \cup Embedded
SmallCrews == {Overlapping, Embedded}
=============================================================================
