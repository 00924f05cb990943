--------------------------- MODULE DevServerProofs ---------------------------
(***************************************************************************)
(* DevServerInv is an invariant of DevServer for any number of servers and *)
(* ports and all settings, whatever other programs do to the ports.        *)
(***************************************************************************)
EXTENDS DevServer, TLAPS

\* start.js and getHttpsConfig.js agree on the protocol, whatever the certificates are.
LEMMA ProtocolsAgree ==
  ASSUME NEW s \in Servers
  PROVE  protocol(s) = Speaks(getHttpsConfig(setting[s]))
BY DEF protocol, Speaks, getHttpsConfig

LEMMA SettingOfServer ==
  ASSUME NEW s \in Servers, NEW e \in Settings[s]
  PROVE  e \in SettingsType
<1>1. Settings \in [Servers -> SUBSET SettingsType]
  BY DevServerAssumption
<1>2. Settings[s] \in SUBSET SettingsType
  BY <1>1
<1> QED
  BY <1>2

LEMMA DevServerInvInit == Init => DevServerInv
<1> SUFFICES ASSUME Init PROVE DevServerInv
  OBVIOUS
<1> USE DEF Init, None, NoURL
<1>1. setting \in [Servers -> SettingsType] /\ \A s \in Servers : setting[s] \in Settings[s]
  <2>1. setting \in Environments
    OBVIOUS
  <2>2. /\ setting \in [Servers -> UNION {Settings[s] : s \in Servers}]
        /\ \A s \in Servers : setting[s] \in Settings[s]
    BY <2>1, Zenon DEF Environments
  <2>3. \A s \in Servers : setting[s] \in SettingsType
    BY <2>2, SettingOfServer
  <2> QED
    BY <2>2, <2>3, Zenon
<1>2. TypeOK
  BY <1>1 DEF TypeOK, PCs
<1>3. PortsOfTheLiving
  BY DevServerAssumption DEF PortsOfTheLiving
<1>4. OpenedWhileServing /\ AnnouncedIsServed
  BY DEF OpenedWhileServing, AnnouncedIsServed
<1> QED
  BY <1>2, <1>3, <1>4 DEF DevServerInv

-----------------------------------------------------------------------------

\* A server on its way moves no port: it holds none, and announces none.
LEMMA OnItsWay ==
  ASSUME DevServerInv, NEW s \in Servers,
         UNCHANGED <<opened, serves, holder>>,
         pc[s] # "serving", TypeOK',
         \A z \in Servers \ {s} : pc'[z] = pc[z] /\ port'[z] = port[z]
  PROVE  DevServerInv'
<1> USE DEF DevServerInv
<1>1. PortsOfTheLiving'
  BY DEF PortsOfTheLiving
<1>2. OpenedWhileServing'
  BY DEF OpenedWhileServing, NoURL, None
<1>3. AnnouncedIsServed'
  BY DEF AnnouncedIsServed, NoURL, None
<1> QED
  BY <1>1, <1>2, <1>3

LEMMA StartInv == ASSUME DevServerInv, NEW s \in Servers, Start(s) PROVE DevServerInv'
<1> USE DEF DevServerInv, Start, Goto
<1>1. PICK e \in Settings[s] : setting' = [setting EXCEPT ![s] = e]
  OBVIOUS
<1>2. e \in SettingsType
  BY SettingOfServer
<1>3. TypeOK'
  BY <1>1, <1>2 DEF TypeOK, PCs, None
<1> QED
  BY <1>3, OnItsWay DEF TypeOK

LEMMA CheckInv == ASSUME DevServerInv, NEW s \in Servers, Check(s) PROVE DevServerInv'
<1> USE DEF DevServerInv, Check, Goto
<1>1. TypeOK'
  BY DEF TypeOK, PCs
<1> QED
  BY <1>1, OnItsWay DEF TypeOK

\* A server that waits for an answer has a port to offer.
LEMMA choosePortInv == ASSUME DevServerInv, NEW s \in Servers, choosePort(s) PROVE DevServerInv'
<1> USE DEF DevServerInv, choosePort, Goto
<1>1. PICK p \in Ports :
        /\ port' = [port EXCEPT ![s] = IF p = DEFAULT_PORT(s) \/ setting[s].isInteractive
                                       THEN p ELSE None]
        /\ pc' = [pc EXCEPT ![s] = IF p = DEFAULT_PORT(s) \/ ~setting[s].isInteractive
                                   THEN "chosen" ELSE "prompt"]
  BY DEF FreeFrom
<1>2. p # None
  BY DevServerAssumption DEF None
<1>3. TypeOK'
  BY <1>1, <1>2 DEF TypeOK, PCs
<1> QED
  BY <1>1, <1>3, OnItsWay DEF TypeOK

LEMMA AnswerInv == ASSUME DevServerInv, NEW s \in Servers, Answer(s) PROVE DevServerInv'
<1> USE DEF DevServerInv, Answer, Goto
<1>1. TypeOK'
  BY DEF TypeOK, PCs
<1> QED
  BY <1>1, OnItsWay DEF TypeOK

LEMMA StdinEndsInv == ASSUME DevServerInv, NEW s \in Servers, StdinEnds(s) PROVE DevServerInv'
BY DEF DevServerInv, StdinEnds, TypeOK, PortsOfTheLiving, OpenedWhileServing, AnnouncedIsServed

\* Whatever ends a server, its port is free, and no other server's is.
LEMMA EndInv == ASSUME DevServerInv, NEW s \in Servers, End(s) PROVE DevServerInv'
<1> USE DEF DevServerInv, End, Goto, Free
<1>1. \A p \in Ports : holder'[p] = IF holder[p] = s THEN Nobody ELSE holder[p]
  OBVIOUS
<1>2. TypeOK'
  BY DEF TypeOK, PCs, NoURL, None
<1>3. PortsOfTheLiving'
  BY <1>1, DevServerAssumption DEF PortsOfTheLiving, TypeOK
<1>4. OpenedWhileServing'
  BY DEF OpenedWhileServing, TypeOK, NoURL, None
<1>5. AnnouncedIsServed'
  <2> SUFFICES ASSUME NEW z \in Servers, opened'[z] # NoURL
               PROVE  holder'[opened'[z].port] = z /\ opened'[z].protocol = serves'[z]
    BY DEF AnnouncedIsServed, NoURL
  <2>1. z # s /\ opened'[z] = opened[z] /\ serves'[z] = serves[z]
    BY DEF TypeOK, NoURL, None
  <2>2. opened[z].port \in Ports
    BY <2>1 DEF OpenedWhileServing, TypeOK, None
  <2> QED
    BY <1>1, <2>1, <2>2 DEF AnnouncedIsServed
<1> QED
  BY <1>2, <1>3, <1>4, <1>5

LEMMA ConfigureInv == ASSUME DevServerInv, NEW s \in Servers, Configure(s) PROVE DevServerInv'
<1>1. CASE getHttpsConfig(setting[s]) = "throws"
  BY <1>1, EndInv DEF Configure
<1>2. CASE getHttpsConfig(setting[s]) # "throws"
  <2>1. TypeOK'
    BY <1>2 DEF Configure, Goto, DevServerInv, TypeOK, PCs
  <2> QED
    BY <1>2, <2>1, OnItsWay DEF Configure, Goto, DevServerInv, TypeOK
<1> QED
  BY <1>1, <1>2

\* The port is taken only if nobody has it at this moment, and only then is it announced.
LEMMA ListenInv == ASSUME DevServerInv, NEW s \in Servers, Listen(s) PROVE DevServerInv'
<1> USE DEF DevServerInv
<1>1. port[s] \in Ports
  BY DEF Listen, TypeOK
<1>2. CASE holder[port[s]] = Nobody
  <2> DEFINE speaks == Speaks(getHttpsConfig(setting[s]))
             url == [protocol |-> protocol(s), port |-> port[s]]
  <2>1. /\ \A z \in Servers :
             /\ pc'[z] = IF z = s THEN "serving" ELSE pc[z]
             /\ serves'[z] = IF z = s THEN speaks ELSE serves[z]
             /\ opened'[z] = IF z = s THEN url ELSE opened[z]
        /\ \A p \in Ports : holder'[p] = IF p = port[s] THEN s ELSE holder[p]
        /\ UNCHANGED port
    BY <1>2 DEF Listen, Goto, TypeOK
  <2>2. TypeOK'
    <3>1. speaks \in {"http", "https"} /\ protocol(s) \in {"http", "https"}
      BY DEF Speaks, protocol
    <3>2. /\ pc' \in [Servers -> PCs]
          /\ holder' \in [Ports -> Servers \cup {Nobody, Other}]
      BY <1>2 DEF Listen, Goto, TypeOK, PCs
    <3>3. serves' \in [Servers -> {"none", "http", "https"}]
      BY <1>2, <3>1 DEF Listen, TypeOK
    <3>4. opened' \in [Servers -> [protocol : {"none", "http", "https"}, port : Ports \cup {None}]]
      BY <1>1, <1>2, <3>1 DEF Listen, TypeOK
    <3>5. \A z \in Servers :
            pc'[z] \in {"prompt", "listen", "serving", "watching"} => port'[z] # None
      BY <2>1 DEF Listen, TypeOK
    <3> QED
      BY <3>2, <3>3, <3>4, <3>5 DEF Listen, TypeOK
  <2>3. PortsOfTheLiving'
    BY <1>1, <1>2, <2>1, DevServerAssumption DEF Listen, PortsOfTheLiving
  <2>4. OpenedWhileServing'
    BY <2>1 DEF OpenedWhileServing, NoURL, None
  <2>5. AnnouncedIsServed'
    <3> SUFFICES ASSUME NEW z \in Servers, opened'[z] # NoURL
                 PROVE  holder'[opened'[z].port] = z /\ opened'[z].protocol = serves'[z]
      BY DEF AnnouncedIsServed, NoURL
    <3>1. CASE z = s
      BY <1>1, <2>1, <3>1, ProtocolsAgree
    <3>2. CASE z # s
      <4>1. opened[z].port \in Ports /\ holder[opened[z].port] = z
        BY <2>1, <3>2 DEF OpenedWhileServing, AnnouncedIsServed, TypeOK, None
      <4>2. /\ opened'[z] = opened[z] /\ serves'[z] = serves[z]
            /\ \A p \in Ports : holder'[p] = IF p = port[s] THEN s ELSE holder[p]
        BY <2>1, <3>2
      <4>3. opened[z].port # port[s]
        BY <1>2, <4>1, DevServerAssumption
      <4>4. opened[z].protocol = serves[z]
        BY <3>2, <4>2 DEF AnnouncedIsServed
      <4> QED
        BY <4>1, <4>2, <4>3, <4>4
    <3> QED
      BY <3>1, <3>2
  <2> QED
    BY <2>2, <2>3, <2>4, <2>5
<1>3. CASE holder[port[s]] # Nobody
  <2>1. TypeOK'
    BY <1>3 DEF Listen, Goto, TypeOK, PCs
  <2> QED
    BY <1>3, <2>1, OnItsWay DEF Listen, Goto, TypeOK
<1> QED
  BY <1>2, <1>3

\* Other programs take only what is free, and leave only what is theirs.
LEMMA OtherInv ==
  ASSUME DevServerInv, NEW p \in Ports, OtherTakes(p) \/ OtherLeaves(p)
  PROVE  DevServerInv'
<1> USE DEF DevServerInv, OtherTakes, OtherLeaves
<1>1. PICK w \in {Nobody, Other} : /\ holder' = [holder EXCEPT ![p] = w]
                                   /\ holder[p] \in {Nobody, Other}
  OBVIOUS
<1>2. \A q \in Ports : holder'[q] = IF q = p THEN w ELSE holder[q]
  BY <1>1 DEF TypeOK
<1>3. TypeOK'
  BY <1>1 DEF TypeOK
<1>4. PortsOfTheLiving'
  BY <1>2, DevServerAssumption DEF PortsOfTheLiving
<1>5. OpenedWhileServing'
  BY DEF OpenedWhileServing
<1>6. AnnouncedIsServed'
  <2> SUFFICES ASSUME NEW z \in Servers, opened[z] # NoURL
               PROVE  holder'[opened[z].port] = z /\ opened[z].protocol = serves[z]
    BY DEF AnnouncedIsServed, NoURL
  <2>1. opened[z].port \in Ports /\ holder[opened[z].port] = z
    BY DEF OpenedWhileServing, AnnouncedIsServed, TypeOK, None
  <2> QED
    BY <1>1, <1>2, <2>1, DevServerAssumption DEF AnnouncedIsServed
<1> QED
  BY <1>3, <1>4, <1>5, <1>6

-----------------------------------------------------------------------------

LEMMA DevServerInvNext == DevServerInv /\ [Next]_vars => DevServerInv'
<1> SUFFICES ASSUME DevServerInv, [Next]_vars PROVE DevServerInv'
  OBVIOUS
<1>1. ASSUME NEW s \in Servers, Start(s) PROVE DevServerInv'
  BY <1>1, StartInv
<1>2. ASSUME NEW s \in Servers, Step(s) PROVE DevServerInv'
  <2>1. CASE Check(s) \/ choosePort(s)
    BY <2>1, CheckInv, choosePortInv
  <2>2. CASE Configure(s) \/ Listen(s)
    BY <2>2, ConfigureInv, ListenInv
  <2>3. CASE \/ CheckFails(s) \/ choosePortFails(s) \/ NoPort(s)
             \/ ConfigureFails(s) \/ OnStdinEnd(s)
    BY <2>3, EndInv DEF CheckFails, choosePortFails, NoPort, ConfigureFails, OnStdinEnd
  <2> QED
    BY <1>2, <2>1, <2>2, <2>3 DEF Step
<1>3. ASSUME NEW s \in Servers, Answer(s) \/ StdinEnds(s) PROVE DevServerInv'
  BY <1>3, AnswerInv, StdinEndsInv
<1>4. ASSUME NEW s \in Servers, Signal(s) PROVE DevServerInv'
  BY <1>4, EndInv DEF Signal
<1>5. ASSUME NEW p \in Ports, OtherTakes(p) \/ OtherLeaves(p) PROVE DevServerInv'
  BY <1>5, OtherInv
<1>6. CASE UNCHANGED vars
  BY <1>6 DEF vars, DevServerInv, TypeOK, PortsOfTheLiving, OpenedWhileServing, AnnouncedIsServed
<1> QED
  BY <1>1, <1>2, <1>3, <1>4, <1>5, <1>6 DEF Next

\* The inductive invariant of development servers that compete for ports.
THEOREM DevServerInvariant == Spec => []DevServerInv
<1> QED
  BY DevServerInvInit, DevServerInvNext, PTL DEF Spec

\* Every variable of the development servers holds a value of its kind.
THEOREM DevServerTypes == Spec => []TypeOK
<1>1. DevServerInv => TypeOK
  BY DEF DevServerInv
<1> QED
  BY <1>1, DevServerInvariant, PTL

\* The browser is only sent to a port and a protocol that its server serves.
THEOREM DevServerAnnouncedIsServed == Spec => []AnnouncedIsServed
<1>1. DevServerInv => AnnouncedIsServed
  BY DEF DevServerInv
<1> QED
  BY <1>1, DevServerInvariant, PTL

=============================================================================
