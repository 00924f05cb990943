----------------------------- MODULE MCDevServer -----------------------------
(***************************************************************************)
(* Settings for DevServer: a developer's terminal, the container of        *)
(* docker-compose-dev.yml, and certificates of all kinds.                  *)
(***************************************************************************)
EXTENDS DevServer, TLC

CONSTANTS s1, s2

Plain == [PORT |-> 0, CI |-> "", isInteractive |-> TRUE,
          HTTPS |-> "", SSL_CRT_FILE |-> "", SSL_KEY_FILE |-> ""]

Terminal == Plain
Container == [Plain EXCEPT !.CI = "true", !.isInteractive = FALSE]
Script == [Plain EXCEPT !.PORT = 3001, !.isInteractive = FALSE]

Secure == [Plain EXCEPT !.HTTPS = "true"]
Certificate(crt, key) == [Secure EXCEPT !.SSL_CRT_FILE = crt, !.SSL_KEY_FILE = key]
OnlyFiles == [Certificate("valid", "valid") EXCEPT !.HTTPS = "false", !.PORT = 3001]

Developer == {Terminal, Secure, OnlyFiles, Certificate("valid", "valid"), Certificate("valid", ""),
              Certificate("missing", "valid"), Certificate("valid", "invalid")}

MCSettings == (s1 :> Developer) @@ (s2 :> {Terminal, Container, Script})

=============================================================================
