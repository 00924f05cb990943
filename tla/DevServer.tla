------------------------------ MODULE DevServer ------------------------------
(***************************************************************************)
(* web/scripts/start.js and web/config/getHttpsConfig.js: development      *)
(* servers that start, look for a port, serve and stop on one machine,     *)
(* where other programs take ports and leave them.                         *)
(*                                                                         *)
(* A port is looked for, a user may be asked, a configuration is built,    *)
(* and only then is the port taken.                                        *)
(***************************************************************************)
EXTENDS Naturals

CONSTANTS
  Servers,           \* the processes that run start.js
  Ports,             \* the ports they try
  Settings,          \* Settings[s]: the environments that server s may be started with
  Nobody, Other      \* who holds a port: nobody, another program

Files == {"", "missing", "invalid", "valid"}

SettingsType ==
  [PORT : Ports \cup {0}, CI : {"", "true", "false"}, isInteractive : BOOLEAN,
   HTTPS : {"", "true", "false"}, SSL_CRT_FILE : Files, SSL_KEY_FILE : Files]

ASSUME DevServerAssumption ==
  /\ 3000 \in Ports
  /\ Ports \subseteq Nat \ {0}
  /\ Settings \in [Servers -> SUBSET SettingsType]
  /\ Nobody \notin Servers /\ Other \notin Servers /\ Nobody # Other

None == 0

VARIABLES
  pc,                \* pc[s]: the step of server s
  setting,           \* setting[s]: its environment
  port,              \* port[s]: the port it has chosen, or None
  stdinEnded,        \* stdinEnded[s]: its standard input has ended
  opened,            \* opened[s]: the URL it has opened in a browser
  serves,            \* serves[s]: the protocol that its port speaks
  holder             \* holder[p]: who listens on port p

vars == <<pc, setting, port, stdinEnded, opened, serves, holder>>

NoURL == [protocol |-> "none", port |-> None]

Environments == {f \in [Servers -> UNION {Settings[s] : s \in Servers}] :
                   \A s \in Servers : f[s] \in Settings[s]}

Init ==
  /\ pc = [s \in Servers |-> "ended"]
  /\ setting \in Environments
  /\ port = [s \in Servers |-> None]
  /\ stdinEnded = [s \in Servers |-> FALSE]
  /\ opened = [s \in Servers |-> NoURL]
  /\ serves = [s \in Servers |-> "none"]
  /\ holder \in [Ports -> {Nobody, Other}]

Goto(s, p) == pc' = [pc EXCEPT ![s] = p]

\* Whatever ends a process, it closes its port.
Free(s) == holder' = [p \in Ports |-> IF holder[p] = s THEN Nobody ELSE holder[p]]

End(s) ==
  /\ Goto(s, "ended")
  /\ opened' = [opened EXCEPT ![s] = NoURL]
  /\ serves' = [serves EXCEPT ![s] = "none"]
  /\ Free(s)
  /\ UNCHANGED <<setting, port, stdinEnded>>

-----------------------------------------------------------------------------
(* getHttpsConfig.js. *)

readEnvFile(file) == IF file = "missing" THEN "throws" ELSE file

\* The key has to decrypt what the certificate has encrypted.
validateKeyAndCerts(cert, key) == cert = "valid" /\ key = "valid"

getHttpsConfig(e) ==
  IF e.HTTPS = "true" /\ e.SSL_CRT_FILE # "" /\ e.SSL_KEY_FILE # ""
  THEN IF /\ "throws" \notin {readEnvFile(e.SSL_CRT_FILE), readEnvFile(e.SSL_KEY_FILE)}
          /\ validateKeyAndCerts(e.SSL_CRT_FILE, e.SSL_KEY_FILE)
       THEN "certificate" ELSE "throws"
  ELSE IF e.HTTPS = "true" THEN "true" ELSE "false"

\* The dev server speaks TLS with a certificate, or with one it makes.
Speaks(https) == IF https = "false" THEN "http" ELSE "https"

-----------------------------------------------------------------------------
(* start.js. *)

Start(s) ==
  /\ pc[s] = "ended"
  /\ Goto(s, "start")
  /\ setting' \in {[setting EXCEPT ![s] = e] : e \in Settings[s]}
  /\ port' = [port EXCEPT ![s] = None]
  /\ stdinEnded' = [stdinEnded EXCEPT ![s] = FALSE]
  /\ UNCHANGED <<opened, serves, holder>>

\* checkRequiredFiles, then checkBrowsers: a failure of either ends with status 1.
Check(s) ==
  /\ pc[s] = "start"
  /\ Goto(s, "choose")
  /\ UNCHANGED <<setting, port, stdinEnded, opened, serves, holder>>

CheckFails(s) ==
  /\ pc[s] = "start"
  /\ End(s)

DEFAULT_PORT(s) == IF setting[s].PORT = 0 THEN 3000 ELSE setting[s].PORT

FreeFrom(d) == {p \in Ports : p >= d /\ holder[p] = Nobody}

\* The port is free at this moment, and nothing keeps it so.
choosePort(s) ==
  LET d == DEFAULT_PORT(s) IN
  /\ pc[s] = "choose"
  /\ \E p \in FreeFrom(d) :
       /\ \A q \in FreeFrom(d) : p <= q
       /\ port' = [port EXCEPT ![s] = IF p = d \/ setting[s].isInteractive THEN p ELSE None]
       /\ Goto(s, IF p = d \/ ~setting[s].isInteractive THEN "chosen" ELSE "prompt")
  /\ UNCHANGED <<setting, stdinEnded, opened, serves, holder>>

choosePortFails(s) ==
  /\ pc[s] = "choose"
  /\ FreeFrom(DEFAULT_PORT(s)) = {}
  /\ End(s)

\* The user may take the port that is offered, or not, or never answer.
Answer(s) ==
  /\ pc[s] = "prompt"
  /\ Goto(s, "chosen")
  /\ \/ UNCHANGED port
     \/ port' = [port EXCEPT ![s] = None]
  /\ UNCHANGED <<setting, stdinEnded, opened, serves, holder>>

\* Without a port there is nothing left to do: the process ends with status 0.
NoPort(s) ==
  /\ pc[s] = "chosen"
  /\ port[s] = None
  /\ End(s)

\* The webpack configuration or that of the server may throw: catch() ends the process.
\* Otherwise listen() is called and the handlers of signals and of stdin are set.
Configure(s) ==
  /\ pc[s] = "chosen"
  /\ port[s] # None
  /\ IF getHttpsConfig(setting[s]) = "throws"
     THEN End(s)
     ELSE /\ Goto(s, "listen")
          /\ UNCHANGED <<setting, port, stdinEnded, opened, serves, holder>>

ConfigureFails(s) ==
  /\ pc[s] = "chosen"
  /\ port[s] # None
  /\ End(s)

protocol(s) == IF setting[s].HTTPS = "true" THEN "https" ELSE "http"

\* Mutant: the browser is opened whether or not there is an error.
ListenOpens(s) ==
  /\ pc[s] = "listen"
  /\ opened' = [opened EXCEPT ![s] = [protocol |-> protocol(s), port |-> port[s]]]
  /\ IF holder[port[s]] = Nobody
     THEN /\ Goto(s, "serving")
          /\ holder' = [holder EXCEPT ![port[s]] = s]
          /\ serves' = [serves EXCEPT ![s] = Speaks(getHttpsConfig(setting[s]))]
     ELSE /\ Goto(s, "watching")
          /\ UNCHANGED <<holder, serves>>
  /\ UNCHANGED <<setting, port, stdinEnded>>

\* Mutant: listen() is tried again and again.
ListenRetries(s) ==
  /\ pc[s] = "listen"
  /\ holder[port[s]] = Nobody
  /\ Goto(s, "serving")
  /\ holder' = [holder EXCEPT ![port[s]] = s]
  /\ serves' = [serves EXCEPT ![s] = Speaks(getHttpsConfig(setting[s]))]
  /\ opened' = [opened EXCEPT ![s] = [protocol |-> protocol(s), port |-> port[s]]]
  /\ UNCHANGED <<setting, port, stdinEnded>>

\* An error is printed, and the compiler goes on watching files for nobody.
Listen(s) ==
  /\ pc[s] = "listen"
  /\ IF holder[port[s]] = Nobody
     THEN /\ Goto(s, "serving")
          /\ holder' = [holder EXCEPT ![port[s]] = s]
          /\ serves' = [serves EXCEPT ![s] = Speaks(getHttpsConfig(setting[s]))]
          /\ opened' = [opened EXCEPT ![s] = [protocol |-> protocol(s), port |-> port[s]]]
     ELSE /\ Goto(s, "watching")
          /\ UNCHANGED <<opened, holder, serves>>
  /\ UNCHANGED <<setting, port, stdinEnded>>

\* SIGINT and SIGTERM, with the handlers or before they are set.
Signal(s) ==
  /\ pc[s] # "ended"
  /\ End(s)

StdinEnds(s) ==
  /\ pc[s] # "ended"
  /\ ~stdinEnded[s]
  /\ stdinEnded' = [stdinEnded EXCEPT ![s] = TRUE]
  /\ UNCHANGED <<pc, setting, port, opened, serves, holder>>

EndsWithStdin(s) == setting[s].isInteractive \/ setting[s].CI # "true"

\* Mutant: the handler is set once the server listens.
OnStdinEndServing(s) ==
  /\ pc[s] = "serving"
  /\ EndsWithStdin(s) /\ stdinEnded[s]
  /\ End(s)

OnStdinEnd(s) ==
  /\ pc[s] \in {"listen", "serving", "watching"}
  /\ EndsWithStdin(s) /\ stdinEnded[s]
  /\ End(s)

Step(s) ==
  \/ Check(s) \/ CheckFails(s)
  \/ choosePort(s) \/ choosePortFails(s)
  \/ NoPort(s)
  \/ Configure(s) \/ ConfigureFails(s) \/ Listen(s)
  \/ OnStdinEnd(s)

OtherTakes(p) ==
  /\ holder[p] = Nobody
  /\ holder' = [holder EXCEPT ![p] = Other]
  /\ UNCHANGED <<pc, setting, port, stdinEnded, opened, serves>>

OtherLeaves(p) ==
  /\ holder[p] = Other
  /\ holder' = [holder EXCEPT ![p] = Nobody]
  /\ UNCHANGED <<pc, setting, port, stdinEnded, opened, serves>>

Next ==
  \/ \E s \in Servers : Start(s) \/ Step(s) \/ Answer(s) \/ Signal(s) \/ StdinEnds(s)
  \/ \E p \in Ports : OtherTakes(p) \/ OtherLeaves(p)

\* The processes run.  Nobody has to answer, and no other program has to move.
Spec == Init /\ [][Next]_vars /\ \A s \in Servers : WF_vars(Step(s))

-----------------------------------------------------------------------------
(* Properties. *)

PCs == {"ended", "start", "choose", "prompt", "chosen", "listen", "serving", "watching"}

\* Every variable holds a value of its kind.
TypeOK ==
  /\ pc \in [Servers -> PCs]
  /\ setting \in [Servers -> SettingsType] /\ \A s \in Servers : setting[s] \in Settings[s]
  /\ port \in [Servers -> Ports \cup {None}]
  /\ \A s \in Servers : pc[s] \in {"prompt", "listen", "serving", "watching"} => port[s] # None
  /\ stdinEnded \in [Servers -> BOOLEAN]
  /\ opened \in [Servers -> [protocol : {"none", "http", "https"}, port : Ports \cup {None}]]
  /\ serves \in [Servers -> {"none", "http", "https"}]
  /\ holder \in [Ports -> Servers \cup {Nobody, Other}]

\* The browser is only sent to a URL that this server answers: on the port it holds, which
\* another server or program may have taken since it was found free, and in the protocol
\* it speaks, which another file computes from other variables.
AnnouncedIsServed ==
  \A s \in Servers :
    opened[s] # NoURL =>
      /\ holder[opened[s].port] = s
      /\ opened[s].protocol = serves[s]

\* What AnnouncedIsServed rests on: a port belongs to a server that serves, and that has
\* chosen it.
PortsOfTheLiving ==
  \A p \in Ports, s \in Servers : holder[p] = s => pc[s] = "serving" /\ port[s] = p

\* A start comes to rest: it serves, waits for an answer, has ended, or watches without
\* a port, which somebody else was faster to take.
StartSettles ==
  \A s \in Servers : pc[s] = "start" ~> pc[s] \in {"prompt", "serving", "watching", "ended"}

\* A server whose standard input ends while it runs ends too, even if it was not given its
\* port, and unless it is told to stay or waits for an answer.
OrphanEnds ==
  \A s \in Servers :
    stdinEnded[s] /\ EndsWithStdin(s) ~> pc[s] \in {"ended", "prompt"}

-----------------------------------------------------------------------------
(* What makes the safety properties inductive. *)

\* A browser was sent to a server that serves, on the port it has chosen.
OpenedWhileServing ==
  \A s \in Servers : opened[s] # NoURL => pc[s] = "serving" /\ opened[s].port = port[s]

DevServerInv ==
  /\ TypeOK
  /\ PortsOfTheLiving
  /\ OpenedWhileServing
  /\ AnnouncedIsServed

=============================================================================
