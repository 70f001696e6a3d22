------------------------- MODULE KeyRotationProofs -------------------------
(***************************************************************************)
(* Proofs about KeyRotation for any number of connections, of either       *)
(* protocol, rotated or not, and any number of devices and keys.           *)
(***************************************************************************)
EXTENDS KeyRotation, TLAPS

\* A device belongs to one connection and is known to Cloudflare.
DevicesOK ==
  /\ \A c, d \in Conns :
       conf[c].device # 0 /\ conf[c].device = conf[d].device => c = d
  /\ \A c \in Conns :
       /\ conf[c].status = "unregistered" <=> conf[c].device = 0
       /\ conf[c].device # 0 => remote[conf[c].device].type # "none"

\* The device of the command that is running
OwnDevice ==
  /\ at = "post" => job.op = "register"
  /\ at \in {"post", "patch"} => job.key = 0
  /\ at \in {"token", "wg"} => job.op = "register"
  /\ at \notin {"idle", "post"} => remote[job.dev].type # "none"
  /\ at \notin {"idle", "post"} /\ job.op = "register" =>
       \A c \in Conns : conf[c].device # job.dev
  /\ at # "idle" /\ job.op = "enroll" => job.dev = conf[job.conn].device

\* Its key, as Cloudflare has it
OwnKey ==
  at \in {"token", "priv", "cert", "wg", "config"} =>
    /\ job.key # 0 => remote[job.dev] = [type |-> "masque", key |-> job.key]
    /\ job.conn \in Masque \/ at \in {"priv", "cert"} => job.key # 0

\* The secrets that it has stored by now
OwnSecrets ==
  /\ at \in {"priv", "cert", "wg", "config"} => secret[job.conn].token = job.dev
  /\ at \in {"cert", "wg", "config"} /\ job.key # 0 => secret[job.conn].priv = job.key
  /\ at \in {"wg", "config"} /\ job.key # 0 => secret[job.conn].cert = job.key
  /\ at = "config" => secret[job.conn].wg # 0

\* Nothing is under way for c, and all three places agree on it.
Quiet(c) ==
  /\ Agrees(c) /\ secret[c].priv # 0
  /\ at # "idle" => job.conn # c

\* The connections that are fine are quiet, and so are those whose daemon is
\* reading the secrets that go together.
CleanReader(c) == daemon[c].at = "reading" /\ daemon[c].clean

QuietOK ==
  \A c \in Masque :
    /\ c \in fine => Quiet(c)
    /\ CleanReader(c) => Quiet(c) /\ daemon[c].key = secret[c].priv

Inv ==
  /\ TypeOK /\ DevicesOK
  /\ OwnDevice /\ OwnKey /\ OwnSecrets
  /\ StatusIsBacked
  /\ QuietOK

\* What is chosen as fresh is a key or a device that Cloudflare does not have.
LEMMA Fresh ==
  /\ \A k \in FreshKeys : k \in Keys
  /\ \A d \in FreshDevices : d \in Devices /\ remote[d].type = "none"
BY DEF FreshKeys, FreshDevices, Least

\* Numbers of devices and keys are natural numbers other than 0.
LEMMA Numbers ==
  /\ \A d \in Devices : d \in AnyDevice /\ d # 0
  /\ \A k \in Keys : k \in AnyKey /\ k # 0
  /\ 0 \in AnyDevice /\ 0 \in AnyKey
  /\ AnyDevice = Devices \cup {0} /\ AnyKey = Keys \cup {0}
BY RotationBounds DEF Devices, Keys, AnyDevice, AnyKey

\* The first state satisfies the invariant.
LEMMA InitInv == Init => Inv
<1> SUFFICES ASSUME Init PROVE Inv OBVIOUS
<1> USE Numbers, ConnsAssumption DEF Init
<1>1. TypeOK
  <2>1. remote \in [Devices -> Remote] BY DEF Remote
  <2>2. secret \in [Conns -> Secrets] BY DEF Secrets
  <2>3. conf \in [Conns -> Settings] BY RotationBounds DEF Settings
  <2>4. daemon \in [Conns -> Daemon] BY DEF Daemon, Off
  <2> QED BY <2>1, <2>2, <2>3, <2>4 DEF TypeOK
<1>2. DevicesOK /\ StatusIsBacked BY DEF DevicesOK, StatusIsBacked
<1>3. OwnDevice /\ OwnKey /\ OwnSecrets BY DEF OwnDevice, OwnKey, OwnSecrets
<1>4. QuietOK BY DEF QuietOK, CleanReader, Off
<1> QED BY <1>1, <1>2, <1>3, <1>4 DEF Inv

-----------------------------------------------------------------------------
\* A step that leaves the three places of a quiet connection alone leaves it quiet.
LEMMA QuietKept ==
  ASSUME NEW c \in Masque, Quiet(c),
         secret'[c] = secret[c], conf'[c].device = conf[c].device,
         remote'[conf[c].device] = remote[conf[c].device],
         at' # "idle" => job'.conn # c
  PROVE  Quiet(c)'
BY DEF Quiet, Agrees

\* The same for all of them, when daemons and reports are left alone too.
LEMMA AllQuietKept ==
  ASSUME QuietOK, fine' \subseteq fine, UNCHANGED daemon,
         \A m \in Masque : Quiet(m) => Quiet(m)' /\ secret'[m] = secret[m]
  PROVE  QuietOK'
<1> SUFFICES ASSUME NEW m \in Masque
             PROVE /\ m \in fine' => Quiet(m)'
                   /\ CleanReader(m)' => Quiet(m)' /\ daemon'[m].key = secret'[m].priv
  BY DEF QuietOK
<1>1. CleanReader(m)' => CleanReader(m) BY DEF CleanReader
<1> QED BY <1>1 DEF QuietOK

\* A command begins.
LEMMA BeginStep ==
  ASSUME Inv, at = "idle", NEW c \in Conns, NEW j \in Jobs, NEW to \in {"post", "patch"},
         Begin(c, j, to), j.conn = c, j.key = 0,
         IF to = "post"
         THEN j.op = "register"
         ELSE j.op = "enroll" /\ j.dev = conf[c].device /\ j.dev # 0,
         UNCHANGED <<remote, secret, conf>>, due' \subseteq Conns
  PROVE  Inv'
<1> USE Numbers, ConnsAssumption DEF Inv, Begin
<1>1. j.dev \in AnyDevice BY DEF Jobs
<1>2. daemon' \in [Conns -> Daemon]
  <2> DEFINE now == daemon[c].clean /\ daemon[c].at = "up"
  <2>1. now \in BOOLEAN /\ daemon[c] \in Daemon BY DEF TypeOK
  <2> HIDE DEF now
  <2>2. [daemon[c] EXCEPT !.clean = now] \in Daemon BY <2>1 DEF Daemon
  <2> USE DEF now
  <2> QED BY <2>2 DEF TypeOK
<1>3. TypeOK' BY <1>1, <1>2 DEF TypeOK
<1>4. DevicesOK' /\ StatusIsBacked' BY DEF DevicesOK, StatusIsBacked
<1>5. OwnDevice' /\ OwnKey' /\ OwnSecrets'
  BY DEF OwnDevice, OwnKey, OwnSecrets, DevicesOK
<1>6. QuietOK'
  <2> SUFFICES ASSUME NEW m \in Masque, m \in fine' \/ CleanReader(m)'
               PROVE /\ Quiet(m)'
                     /\ CleanReader(m)' => daemon'[m].key = secret'[m].priv
    BY DEF QuietOK
  <2>1. m # c
    <3>1. c \notin fine' OBVIOUS
    <3>2. ~CleanReader(c)'
      <4> DEFINE now == daemon[c].clean /\ daemon[c].at = "up"
      <4>1. daemon[c] \in Daemon /\ daemon'[c] = [daemon[c] EXCEPT !.clean = now]
        BY DEF TypeOK
      <4> HIDE DEF now
      <4>2. daemon'[c].at = daemon[c].at BY <4>1 DEF Daemon
      <4>3. daemon'[c].clean = now BY <4>1 DEF Daemon
      <4>4. daemon'[c].clean => daemon[c].at = "up" BY <4>3, Zenon DEF now
      <4> QED BY <4>2, <4>4 DEF CleanReader
    <3> QED BY <3>1, <3>2
  <2>2. /\ daemon'[m] = daemon[m] /\ (m \in fine' => m \in fine)
        /\ CleanReader(m)' => CleanReader(m)
    BY <2>1 DEF TypeOK, CleanReader
  <2> QED BY <2>1, <2>2, QuietKept DEF QuietOK
<1> QED BY <1>3, <1>4, <1>5, <1>6

\* A connection cannot be enrolled, or its enrolling begins.
LEMMA CallStep ==
  ASSUME Inv, at = "idle", NEW c \in Conns, CallEnroll(c),
         UNCHANGED <<remote, secret, conf>>, due' \subseteq Conns
  PROVE  Inv'
<1>1. CASE conf[c].device = 0 \/ secret[c].token = 0
  <2> USE <1>1, ConnsAssumption DEF Inv, CallEnroll
  <2>1. TypeOK' BY DEF TypeOK
  <2>2. DevicesOK' /\ StatusIsBacked' BY DEF DevicesOK, StatusIsBacked
  <2>3. OwnDevice' /\ OwnKey' /\ OwnSecrets' BY DEF OwnDevice, OwnKey, OwnSecrets
  <2>4. QuietOK'
    <3>1. ASSUME NEW m \in Masque, Quiet(m) PROVE Quiet(m)'
      BY <3>1, QuietKept
    <3> QED BY <3>1, AllQuietKept
  <2> QED BY <2>1, <2>2, <2>3, <2>4
<1>2. CASE conf[c].device # 0 /\ secret[c].token # 0
  <2> DEFINE j == [op |-> "enroll", conn |-> c, dev |-> conf[c].device, key |-> 0]
  <2>1. j \in Jobs BY Numbers DEF Jobs, Inv, TypeOK, Settings
  <2>2. Begin(c, j, "patch") BY <1>2 DEF CallEnroll
  <2> QED BY <1>2, <2>1, <2>2, BeginStep
<1> QED BY <1>1, <1>2 DEF Inv, TypeOK, Settings, Secrets

\* A command that returns without success leaves the three places as they are.
LEMMA FailStep ==
  ASSUME Inv, at # "idle", Return("failed"), due' \subseteq Conns,
         UNCHANGED <<secret, conf, daemon>>,
         \/ UNCHANGED remote
         \/ \E d \in FreshDevices : NewDevice(d)
         \/ at = "patch" /\ \E k \in FreshKeys : NewKey(k)
  PROVE  Inv'
<1> USE Numbers, Fresh, ConnsAssumption DEF Inv, Return
<1>1. job \in Jobs /\ job.conn \in Conns BY DEF TypeOK, Jobs
<1>2. /\ remote' \in [Devices -> Remote]
      /\ \A d \in Devices : remote[d].type # "none" => remote'[d].type # "none"
  <2>1. CASE UNCHANGED remote BY <2>1 DEF TypeOK
  <2>2. ASSUME NEW d \in FreshDevices, NewDevice(d)
        PROVE  /\ remote' \in [Devices -> Remote]
               /\ \A e \in Devices : remote[e].type # "none" => remote'[e].type # "none"
    <3>1. [type |-> "wireguard", key |-> 0] \in Remote BY DEF Remote
    <3> QED BY <2>2, <3>1 DEF NewDevice, TypeOK
  <2>3. ASSUME at = "patch", NEW k \in FreshKeys, NewKey(k)
        PROVE  /\ remote' \in [Devices -> Remote]
               /\ \A e \in Devices : remote[e].type # "none" => remote'[e].type # "none"
    <3>1. [type |-> "masque", key |-> k] \in Remote BY DEF Remote
    <3>2. job.dev \in Devices BY <2>3 DEF TypeOK
    <3> QED BY <2>3, <3>1, <3>2 DEF NewKey, TypeOK
  <2> QED BY <2>1, <2>2, <2>3
<1>4. \A c \in Conns \ {job.conn} :
        conf[c].device # 0 => remote'[conf[c].device] = remote[conf[c].device]
  <2> SUFFICES ASSUME NEW c \in Conns \ {job.conn}, conf[c].device # 0
               PROVE remote'[conf[c].device] = remote[conf[c].device]
    OBVIOUS
  <2>1. remote[conf[c].device].type # "none" /\ conf[c].device \in Devices
    BY DEF DevicesOK, TypeOK, Settings
  <2>2. at = "patch" => conf[c].device # job.dev
    BY <1>1 DEF OwnDevice, DevicesOK, Jobs
  <2> QED BY <2>1, <2>2 DEF NewDevice, NewKey, TypeOK
<1>5. TypeOK' BY <1>2 DEF TypeOK
<1>6. DevicesOK' /\ StatusIsBacked'
  <2>1. \A c \in Conns : conf[c].device # 0 => conf[c].device \in Devices
    BY DEF TypeOK, Settings
  <2> QED BY <1>2, <2>1 DEF DevicesOK, StatusIsBacked
<1>7. OwnDevice' /\ OwnKey' /\ OwnSecrets' BY DEF OwnDevice, OwnKey, OwnSecrets
<1>8. QuietOK'
  <2> SUFFICES ASSUME NEW m \in Masque, Quiet(m) PROVE Quiet(m)'
    BY AllQuietKept
  <2>1. m # job.conn /\ conf[m].device # 0 BY DEF Quiet, Agrees
  <2> QED BY <1>4, <2>1, QuietKept
<1> QED BY <1>5, <1>6, <1>7, <1>8

-----------------------------------------------------------------------------
\* The device is registered.
LEMMA PostStep == ASSUME Inv, Post PROVE Inv'
<1> USE Numbers, Fresh, ConnsAssumption DEF Inv, Post
<1>1. PICK d \in FreshDevices : NewDevice(d) /\ job' = [job EXCEPT !.dev = d]
  OBVIOUS
<1>2. d \in Devices /\ remote[d].type = "none" OBVIOUS
<1>3. job \in Jobs /\ job.key = 0 /\ job.op = "register" /\ job.conn \in Conns
  BY DEF TypeOK, OwnDevice, Jobs
<1>4. /\ job' \in Jobs /\ job'.dev = d /\ job'.key = 0
      /\ job'.op = "register" /\ job'.conn = job.conn
  BY <1>1, <1>2, <1>3 DEF Jobs
<1>5. remote' \in [Devices -> Remote] /\ remote'[d].type = "wireguard"
      /\ \A e \in Devices \ {d} : remote'[e] = remote[e]
  BY <1>1, <1>2 DEF NewDevice, TypeOK, Remote
<1>6. \A c \in Conns : conf[c].device # 0 =>
        conf[c].device \in Devices \ {d} /\ remote'[conf[c].device] = remote[conf[c].device]
  BY <1>2, <1>5 DEF DevicesOK, TypeOK, Settings
<1>7. TypeOK' BY <1>2, <1>4, <1>5 DEF TypeOK
<1>8. DevicesOK' /\ StatusIsBacked' BY <1>6 DEF DevicesOK, StatusIsBacked
<1>9. OwnDevice'
  <2>1. \A c \in Conns : conf'[c].device # d BY <1>2, <1>6
  <2> QED BY <1>3, <1>4, <1>5, <2>1 DEF OwnDevice
<1>10. OwnKey' /\ OwnSecrets' BY <1>4 DEF OwnKey, OwnSecrets
<1>11. QuietOK'
  <2> SUFFICES ASSUME NEW m \in Masque, Quiet(m) PROVE Quiet(m)'
    BY AllQuietKept
  <2>1. m # job.conn /\ conf[m].device # 0 BY DEF Quiet, Agrees
  <2> QED BY <1>4, <1>6, <2>1, QuietKept
<1> QED BY <1>7, <1>8, <1>9, <1>10, <1>11

\* The key is replaced.
LEMMA PatchStep == ASSUME Inv, Patch PROVE Inv'
<1> USE Numbers, Fresh, ConnsAssumption DEF Inv, Patch
<1>1. PICK k \in FreshKeys : NewKey(k) /\ job' = [job EXCEPT !.key = k]
  OBVIOUS
<1>2. k \in Keys /\ k # 0 OBVIOUS
<1>3. job \in Jobs /\ job.conn \in Conns /\ job.dev \in Devices
  BY DEF TypeOK, Jobs
<1>4. /\ job' \in Jobs /\ job'.dev = job.dev /\ job'.key = k
      /\ job'.op = job.op /\ job'.conn = job.conn
  BY <1>1, <1>2, <1>3 DEF Jobs
<1>5. /\ remote' \in [Devices -> Remote]
      /\ remote'[job.dev] = [type |-> "masque", key |-> k]
      /\ \A e \in Devices \ {job.dev} : remote'[e] = remote[e]
  BY <1>1, <1>2, <1>3 DEF NewKey, TypeOK, Remote
<1>6. \A d \in Devices : remote[d].type # "none" => remote'[d].type # "none"
  BY <1>5
<1>7. TypeOK' BY <1>3, <1>4, <1>5 DEF TypeOK
<1>8. DevicesOK' /\ StatusIsBacked'
  <2>1. \A c \in Conns : conf[c].device # 0 => conf[c].device \in Devices
    BY DEF TypeOK, Settings
  <2> QED BY <1>6, <2>1 DEF DevicesOK, StatusIsBacked
<1>9. job.op \in {"register", "enroll"} BY <1>3 DEF Jobs
<1>10. OwnDevice' BY <1>4, <1>5, <1>9 DEF OwnDevice
<1>11. OwnKey' BY <1>2, <1>4, <1>5 DEF OwnKey
<1>12. OwnSecrets'
  <2>1. Token = job.dev BY <1>1 DEF NewKey
  <2> QED BY <1>4, <1>9, <2>1 DEF OwnSecrets, Token
<1>13. QuietOK'
  <2> SUFFICES ASSUME NEW m \in Masque, Quiet(m) PROVE Quiet(m)'
    BY AllQuietKept
  <2>1. m # job.conn /\ conf[m].device # 0 BY DEF Quiet, Agrees
  <2>2. conf[m].device \in Devices BY <2>1 DEF TypeOK, Settings
  <2>3. conf[m].device # job.dev
    BY <1>3, <1>9, <2>1 DEF OwnDevice, DevicesOK
  <2> QED BY <1>4, <1>5, <2>1, <2>2, <2>3, QuietKept
<1> QED BY <1>7, <1>8, <1>10, <1>11, <1>12, <1>13

\* A secret is stored: one of the command's own connection, and not as 0.
LEMMA StoreStep ==
  ASSUME Inv, StoreToken \/ StorePriv \/ StoreCert \/ StoreWg
  PROVE  Inv'
<1> USE Numbers, ConnsAssumption DEF Inv, Goto
<1> USE DEF StoreToken, StorePriv, StoreCert, StoreWg
<1>1. /\ at \in {"token", "priv", "cert", "wg"} /\ at' \in {"priv", "cert", "wg", "config"}
      /\ UNCHANGED <<remote, conf, job, due, fine, daemon>>
  OBVIOUS
<1>2. job \in Jobs /\ job.conn \in Conns /\ job.dev \in Devices /\ job.key \in AnyKey
      /\ job.op \in {"register", "enroll"}
  BY <1>1 DEF TypeOK, Jobs
<1>3. at \in {"priv", "cert"} => job.key # 0 BY <1>1 DEF OwnKey
<1>4. /\ secret' \in [Conns -> Secrets]
      /\ \A c \in Conns \ {job.conn} : secret'[c] = secret[c]
  <2> DEFINE own == secret[job.conn]
  <2>1. own \in Secrets BY <1>2 DEF TypeOK
  <2>2. /\ [own EXCEPT !.token = job.dev] \in Secrets
        /\ [own EXCEPT !.priv = job.key] \in Secrets
        /\ [own EXCEPT !.cert = job.key] \in Secrets
        /\ [own EXCEPT !.wg = job.dev] \in Secrets
    BY <1>2, <2>1 DEF Secrets
  <2>3. \E x \in Secrets : secret' = [secret EXCEPT ![job.conn] = x]
    <3>1. CASE StoreToken BY <2>2, <3>1
    <3>2. CASE StorePriv BY <2>2, <3>2
    <3>3. CASE StoreCert BY <2>2, <3>3
    <3>4. CASE StoreWg BY <2>2, <3>4
    <3> QED BY <3>1, <3>2, <3>3, <3>4
  <2> QED BY <2>3 DEF TypeOK
<1>5. secret'[job.conn] =
        IF at = "token" THEN [secret[job.conn] EXCEPT !.token = job.dev] ELSE
        IF at = "priv"  THEN [secret[job.conn] EXCEPT !.priv = job.key] ELSE
        IF at = "cert"  THEN [secret[job.conn] EXCEPT !.cert = job.key] ELSE
                             [secret[job.conn] EXCEPT !.wg = job.dev]
  BY <1>2 DEF TypeOK
<1>6. secret[job.conn] \in Secrets BY <1>2 DEF TypeOK
<1>7. TypeOK' BY <1>1, <1>2, <1>4 DEF TypeOK
<1>8. DevicesOK' BY <1>1 DEF DevicesOK
<1>9. StatusIsBacked'
  <2> SUFFICES ASSUME NEW c \in Conns
      PROVE /\ secret[c].token # 0 => secret'[c].token # 0
            /\ secret[c].wg # 0 => secret'[c].wg # 0
            /\ secret[c].priv # 0 => secret'[c].priv # 0
            /\ secret[c].cert # 0 => secret'[c].cert # 0
    BY <1>1 DEF StatusIsBacked
  <2>1. CASE c = job.conn BY <1>2, <1>3, <1>5, <1>6, <2>1 DEF Secrets
  <2>2. CASE c # job.conn BY <1>4, <2>2
  <2> QED BY <2>1, <2>2
<1>10. OwnDevice' BY <1>1, <1>2, <1>3 DEF OwnDevice, Jobs
<1>11. OwnKey' BY <1>1, <1>3 DEF OwnKey
<1>12. OwnSecrets'
  <2>1. CASE StoreToken BY <1>2, <1>5, <1>6, <2>1 DEF OwnSecrets, Secrets
  <2>2. CASE StorePriv BY <1>2, <1>5, <1>6, <2>2 DEF OwnSecrets, Secrets
  <2>3. CASE StoreCert
    <3>1. job.op = "enroll" => secret[job.conn].wg # 0
      BY <1>2, <2>3 DEF OwnDevice, DevicesOK, StatusIsBacked
    <3> QED BY <1>2, <1>5, <1>6, <2>3, <3>1 DEF OwnSecrets, Secrets
  <2>4. CASE StoreWg BY <1>2, <1>5, <1>6, <2>4 DEF OwnSecrets, Secrets
  <2> QED BY <2>1, <2>2, <2>3, <2>4
<1>13. QuietOK'
  <2> SUFFICES ASSUME NEW m \in Masque, Quiet(m)
               PROVE Quiet(m)' /\ secret'[m] = secret[m]
    BY <1>1, AllQuietKept
  <2>1. m # job.conn BY <1>1 DEF Quiet
  <2> QED BY <1>1, <1>4, <2>1, QuietKept
<1> QED BY <1>7, <1>8, <1>9, <1>10, <1>11, <1>12, <1>13

\* config.xml is updated, and the command has succeeded.
LEMMA UpdateStep == ASSUME Inv, UpdateConfig PROVE Inv'
<1> USE Numbers, ConnsAssumption DEF Inv, UpdateConfig, Return
<1>1. job \in Jobs /\ job.conn \in Conns /\ job.dev \in Devices /\ job.key \in AnyKey
      /\ job.op \in {"register", "enroll"}
  BY DEF TypeOK, Jobs
<1> DEFINE new == [device |-> job.dev,
                   status |-> IF job.key # 0 THEN "enrolled" ELSE "registered",
                   age    |-> 0]
<1>2. new \in Settings BY <1>1, RotationBounds DEF Settings
<1>3. conf'[job.conn] = new /\ \A c \in Conns \ {job.conn} : conf'[c] = conf[c]
  BY <1>1 DEF TypeOK
<1>4. TypeOK' BY <1>1, <1>2 DEF TypeOK
<1>5. \A c \in Conns \ {job.conn} : conf[c].device # job.dev
  BY <1>1 DEF OwnDevice, DevicesOK
<1>6. remote[job.dev].type # "none" BY DEF OwnDevice
<1>7. DevicesOK' BY <1>1, <1>3, <1>5, <1>6 DEF DevicesOK
<1>8. StatusIsBacked' BY <1>1, <1>3, <1>6 DEF StatusIsBacked, OwnSecrets
<1>9. OwnDevice' /\ OwnKey' /\ OwnSecrets' BY DEF OwnDevice, OwnKey, OwnSecrets
<1>10. QuietOK'
  <2>1. ASSUME NEW m \in Masque, Quiet(m) PROVE Quiet(m)'
    <3>1. m # job.conn BY <2>1 DEF Quiet
    <3> QED BY <1>3, <2>1, <3>1, QuietKept
  <2>2. ASSUME NEW m \in Masque, m = job.conn PROVE Quiet(m)'
    <3>1. job.key # 0 /\ remote[job.dev] = [type |-> "masque", key |-> job.key]
      BY <2>2 DEF OwnKey
    <3>2. /\ secret[m].token = job.dev /\ secret[m].priv = job.key
          /\ secret[m].cert = job.key
      BY <2>2, <3>1 DEF OwnSecrets
    <3>3. conf'[m].device = job.dev BY <1>3, <2>2
    <3> QED BY <1>1, <3>1, <3>2, <3>3 DEF Quiet, Agrees
  <2> SUFFICES ASSUME NEW m \in Masque
               PROVE /\ m \in fine' => Quiet(m)'
                     /\ CleanReader(m)' => Quiet(m)' /\ daemon'[m].key = secret'[m].priv
    BY DEF QuietOK
  <2>3. CleanReader(m)' => CleanReader(m) BY DEF CleanReader
  <2> QED BY <2>1, <2>2, <2>3 DEF QuietOK
<1> QED BY <1>4, <1>7, <1>8, <1>9, <1>10

-----------------------------------------------------------------------------
\* Days pass.
LEMMA DayStep == ASSUME Inv, Day PROVE Inv'
<1> USE ConnsAssumption, RotationBounds DEF Inv
<1>1. \A c \in Conns : conf[c] \in Settings BY DEF TypeOK
<1>2. \A c \in Conns : /\ conf'[c] \in Settings
                       /\ conf'[c].device = conf[c].device
                       /\ conf'[c].status = conf[c].status
  BY <1>1 DEF Day, Settings
<1>3. UNCHANGED <<remote, secret, at, job, due, fine, daemon>> BY DEF Day, cmdVars
<1>4. TypeOK'
  <2>1. conf' \in [Conns -> Settings] BY <1>2 DEF Day
  <2> QED BY <1>3, <2>1 DEF TypeOK
<1>5. DevicesOK' /\ StatusIsBacked' BY <1>2, <1>3 DEF DevicesOK, StatusIsBacked
<1>6. OwnDevice' /\ OwnKey' /\ OwnSecrets'
  BY <1>2, <1>3 DEF OwnDevice, OwnKey, OwnSecrets, TypeOK, Jobs
<1>7. QuietOK'
  <2>1. ASSUME NEW m \in Masque, Quiet(m) PROVE Quiet(m)'
    <3>1. m \in Conns OBVIOUS
    <3> QED BY <1>2, <1>3, <2>1, <3>1, QuietKept DEF Quiet
  <2> QED BY <1>3, <2>1, AllQuietKept
<1> QED BY <1>4, <1>5, <1>6, <1>7

\* A daemon starts or ends.
LEMMA DaemonStep ==
  ASSUME Inv, NEW c \in Conns, ReadKey(c) \/ ReadRest(c) \/ DaemonEnds(c)
  PROVE  Inv'
<1> USE ConnsAssumption, Numbers DEF Inv, cmdVars, SetDaemon
<1>1. UNCHANGED <<remote, secret, conf, at, job, due, fine>>
  BY DEF ReadKey, ReadRest, DaemonEnds
<1>2. daemon[c] \in Daemon /\ secret[c] \in Secrets BY DEF TypeOK
<1>3. /\ daemon' \in [Conns -> Daemon] /\ \A b \in Conns \ {c} : daemon'[b] = daemon[b]
      /\ c \in Masque /\ CleanReader(c)' => c \in fine /\ daemon'[c].key = secret[c].priv
  <2>1. CASE ReadKey(c)
    <3> DEFINE new == [at    |-> "reading",
                       key   |-> IF c \in Masque THEN secret[c].priv ELSE 0,
                       wg    |-> 0,
                       clean |-> c \in fine]
    <3>1. new \in Daemon BY <1>2 DEF Daemon, Secrets
    <3>2. daemon' = [daemon EXCEPT ![c] = new] BY <2>1 DEF ReadKey
    <3> QED BY <3>1, <3>2 DEF TypeOK, CleanReader
  <2>2. CASE ReadRest(c)
    <3>1. daemon'[c] \in Daemon /\ daemon'[c].at = "up"
      BY <1>2, <2>2 DEF ReadRest, Daemon, Secrets, TypeOK
    <3> QED BY <2>2, <3>1 DEF ReadRest, TypeOK, CleanReader
  <2>3. CASE DaemonEnds(c)
    <3>1. Off \in Daemon /\ Off.at = "off" BY DEF Off, Daemon
    <3> QED BY <2>3, <3>1 DEF DaemonEnds, TypeOK, CleanReader
  <2> QED BY <2>1, <2>2, <2>3
<1>4. TypeOK' BY <1>1, <1>3 DEF TypeOK
<1>5. DevicesOK' /\ StatusIsBacked' /\ OwnDevice' /\ OwnKey' /\ OwnSecrets'
  BY <1>1 DEF DevicesOK, StatusIsBacked, OwnDevice, OwnKey, OwnSecrets
<1>6. QuietOK'
  <2> SUFFICES ASSUME NEW m \in Masque
               PROVE /\ m \in fine' => Quiet(m)'
                     /\ CleanReader(m)' => Quiet(m)' /\ daemon'[m].key = secret'[m].priv
    BY DEF QuietOK
  <2>1. Quiet(m) => Quiet(m)' BY <1>1, QuietKept DEF Quiet
  <2>2. CASE m = c BY <1>1, <1>3, <2>1, <2>2 DEF QuietOK
  <2>3. CASE m # c
    <3>1. daemon'[m] = daemon[m] BY <1>3, <2>3
    <3>2. CleanReader(m)' => CleanReader(m) BY <3>1 DEF CleanReader
    <3> QED BY <1>1, <2>1, <3>1, <3>2 DEF QuietOK
  <2> QED BY <2>2, <2>3
<1> QED BY <1>4, <1>5, <1>6

\* The list of connections to rotate is made, or nothing happens.
LEMMA OtherStep == ASSUME Inv, RotateKeysCheck \/ UNCHANGED vars PROVE Inv'
<1> USE ConnsAssumption DEF Inv, RotateKeysCheck, vars, cmdVars
<1>1. UNCHANGED <<remote, secret, conf, at, job, fine, daemon>> /\ due' \subseteq Conns
  BY DEF TypeOK
<1>2. TypeOK' BY <1>1 DEF TypeOK
<1>3. DevicesOK' /\ StatusIsBacked' /\ OwnDevice' /\ OwnKey' /\ OwnSecrets'
  BY <1>1 DEF DevicesOK, StatusIsBacked, OwnDevice, OwnKey, OwnSecrets
<1>4. QuietOK'
  <2>1. ASSUME NEW m \in Masque, Quiet(m) PROVE Quiet(m)'
    BY <1>1, <2>1, QuietKept DEF Quiet
  <2> QED BY <1>1, <2>1, AllQuietKept
<1> QED BY <1>2, <1>3, <1>4

-----------------------------------------------------------------------------
\* The invariant holds in every state of every behaviour.
LEMMA Invariance == Spec => []Inv
<1>1. Inv /\ [Next]_vars => Inv'
  <2> SUFFICES ASSUME Inv, [Next]_vars PROVE Inv' OBVIOUS
  <2>1. ASSUME NEW c \in Conns, Register(c) PROVE Inv'
    <3> DEFINE j == [op |-> "register", conn |-> c, dev |-> 0, key |-> 0]
    <3>1. j \in Jobs BY Numbers DEF Jobs
    <3>2. Begin(c, j, "post") /\ at = "idle" /\ UNCHANGED <<remote, secret, conf, due>>
      BY <2>1 DEF Register
    <3> QED BY <3>1, <3>2, BeginStep DEF Inv, TypeOK
  <2>2. ASSUME NEW c \in Conns, Enroll(c) PROVE Inv'
    BY <2>2, CallStep DEF Enroll, Inv, TypeOK
  <2>3. ASSUME NEW c \in due, RotateDue(c) PROVE Inv'
    BY <2>3, CallStep DEF RotateDue, Inv, TypeOK
  <2>4. CASE PostLost BY <2>4, FailStep DEF PostLost, Inv, TypeOK
  <2>5. CASE PatchLost BY <2>5, FailStep DEF PatchLost, Inv, TypeOK
  <2>6. CASE Refused BY <2>6, FailStep DEF Refused, Inv, TypeOK
  <2>7. CASE LocalFailure BY <2>7, FailStep DEF LocalFailure, Inv, TypeOK
  <2>8. CASE Crash BY <2>8, FailStep DEF Crash
  <2>9. CASE Continue
    BY <2>9, PostStep, PatchStep, StoreStep, UpdateStep DEF Continue
  <2>10. CASE Day BY <2>10, DayStep
  <2>11. ASSUME NEW c \in Conns, ReadKey(c) \/ ReadRest(c) \/ DaemonEnds(c) PROVE Inv'
    BY <2>11, DaemonStep
  <2>12. CASE RotateKeysCheck \/ UNCHANGED vars BY <2>12, OtherStep
  <2> QED
    BY <2>1, <2>2, <2>3, <2>4, <2>5, <2>6, <2>7, <2>8, <2>9, <2>10, <2>11, <2>12
    DEF Next, Proceed, Trouble
<1> QED BY InitInv, <1>1, PTL DEF Spec

\* Every state is well typed.
THEOREM TypeCorrect == Spec => []TypeOK
<1>1. Inv => TypeOK BY DEF Inv
<1> QED BY <1>1, Invariance, PTL

\* What reported success is what Cloudflare, the secrets and config.xml agree on,
\* until the next command for the connection.
THEOREM OkMeansAgreementCorrect == Spec => []OkMeansAgreement
<1>1. Inv => OkMeansAgreement BY DEF Inv, QuietOK, Quiet, OkMeansAgreement
<1> QED BY <1>1, Invariance, PTL

\* A registration_status other than "unregistered" has its device and its secrets.
THEOREM StatusIsBackedCorrect == Spec => []StatusIsBacked
<1>1. Inv => StatusIsBacked BY DEF Inv
<1> QED BY <1>1, Invariance, PTL

\* A daemon that starts after a success, undisturbed, is let in.
THEOREM CleanStartIsAcceptedCorrect == Spec => CleanStartIsAccepted
<1>1. Inv /\ [Next]_vars =>
        [\A c \in Masque : ReadRest(c) /\ daemon[c].clean => Accepted(c)']_vars
  <2> SUFFICES ASSUME Inv, NEW c \in Masque, ReadRest(c), daemon[c].clean
               PROVE Accepted(c)'
    OBVIOUS
  <2> USE ConnsAssumption, Numbers DEF Inv
  <2>1. Quiet(c) /\ daemon[c].key = secret[c].priv BY DEF ReadRest, QuietOK, CleanReader
  <2>2. daemon'[c].key = secret[c].priv /\ UNCHANGED remote
    BY <2>1 DEF ReadRest, SetDaemon, TypeOK, Daemon, Quiet, Agrees
  <2>3. conf[c].device \in Devices
    BY <2>1 DEF Quiet, Agrees, TypeOK, Settings
  <2> QED BY <2>1, <2>2, <2>3 DEF Accepted, Quiet, Agrees
<1> QED BY <1>1, Invariance, PTL DEF Spec, CleanStartIsAccepted

-----------------------------------------------------------------------------
(* Nobody shuts out the daemon of another connection. *)

\* Connection c has, stores, is being given, or runs a daemon with, device d or the
\* key of device d.
Holds(c, d) ==
  \/ conf[c].device = d \/ secret[c].token = d \/ secret[c].wg = d \/ daemon[c].wg = d
  \/ remote[d].key # 0 /\ remote[d].key \in {secret[c].priv, secret[c].cert, daemon[c].key}
  \/ at # "idle" /\ job.conn = c /\ job.dev = d

\* No two connections hold the same device, and none holds one that Cloudflare does
\* not have.
OneOwner ==
  \A d \in Devices, c \in Conns :
    Holds(c, d) => /\ remote[d].type # "none"
                   /\ \A e \in Conns : Holds(e, d) => c = e

\* No two devices have the same key.
OneDevice ==
  \A d, e \in Devices : remote[d].key # 0 /\ remote[d].key = remote[e].key => d = e

Owners == OneOwner /\ OneDevice

\* A fresh key is one that no device has, no connection stores and no daemon uses.
LEMMA FreshKey ==
  ASSUME NEW k \in FreshKeys
  PROVE  /\ \A d \in Devices : remote[d].key # k
         /\ \A c \in Conns : k \notin {secret[c].priv, secret[c].cert, daemon[c].key}
BY DEF FreshKeys, Least, KeysInUse

\* Owners stay the same if nobody gets hold of a device and none gets a key.
LEMMA OwnersKept ==
  ASSUME Owners,
         \A d \in Devices : /\ remote[d].type # "none" => remote'[d].type # "none"
                            /\ remote'[d].key \in {0, remote[d].key},
         \A d \in Devices, c \in Conns : Holds(c, d)' => Holds(c, d)
  PROVE  Owners'
<1>1. OneOwner' BY DEF Owners, OneOwner
<1>2. OneDevice' BY DEF Owners, OneDevice
<1> QED BY <1>1, <1>2 DEF Owners

\* What happens at the other end: a device is made, or one gets a fresh key.
LEMMA RemoteStep ==
  ASSUME Inv, Owners, UNCHANGED <<secret, conf, daemon>>, at # "idle",
         at' # "idle" => job'.conn = job.conn,
         \/ /\ \E d \in FreshDevices :
                 NewDevice(d) /\ (at' # "idle" => at = "post" /\ job'.dev = d)
         \/ /\ at = "patch"
            /\ \E k \in FreshKeys : NewKey(k)
            /\ at' # "idle" => job'.dev = job.dev
  PROVE  Owners'
<1> USE Numbers, Fresh DEF Inv
<1>1. CASE \E d \in FreshDevices :
             NewDevice(d) /\ (at' # "idle" => at = "post" /\ job'.dev = d)
  <2>1. PICK n \in FreshDevices :
               NewDevice(n) /\ (at' # "idle" => at = "post" /\ job'.dev = n)
    BY <1>1
  <2>2. n \in Devices /\ remote[n].type = "none" BY <2>1
  <2>3. /\ remote'[n].type = "wireguard" /\ remote'[n].key = 0
        /\ \A d \in Devices \ {n} : remote'[d] = remote[d]
    BY <2>1, <2>2 DEF NewDevice, TypeOK
  <2>4. \A c \in Conns : ~Holds(c, n) BY <2>2 DEF Owners, OneOwner
  <2>5. \A c \in Conns : Holds(c, n)' => c = job.conn BY <2>3, <2>4 DEF Holds
  <2>6. \A d \in Devices \ {n}, c \in Conns : Holds(c, d)' => Holds(c, d)
    BY <2>1, <2>3 DEF Holds
  <2>7. OneOwner' BY <2>3, <2>5, <2>6 DEF Owners, OneOwner
  <2>8. OneDevice' BY <2>3 DEF Owners, OneDevice
  <2> QED BY <2>7, <2>8 DEF Owners
<1>2. CASE /\ at = "patch"
           /\ \E k \in FreshKeys : NewKey(k)
           /\ at' # "idle" => job'.dev = job.dev
  <2>1. PICK k \in FreshKeys : NewKey(k) BY <1>2
  <2>2. job.dev \in Devices BY <1>2 DEF TypeOK
  <2>3. /\ remote'[job.dev].type = "masque" /\ remote'[job.dev].key = k
        /\ \A d \in Devices \ {job.dev} : remote'[d] = remote[d]
    BY <2>1, <2>2 DEF NewKey, TypeOK
  <2>4. \A d \in Devices, c \in Conns : Holds(c, d)' => Holds(c, d)
    BY <1>2, <2>1, <2>3, FreshKey DEF Holds
  <2>5. \A d \in Devices : remote[d].type # "none" => remote'[d].type # "none"
    BY <2>3
  <2>6. OneOwner' BY <2>4, <2>5 DEF Owners, OneOwner
  <2>7. OneDevice' BY <2>1, <2>3, FreshKey DEF Owners, OneDevice
  <2> QED BY <2>6, <2>7 DEF Owners
<1> QED BY <1>1, <1>2

\* What a command stores is of the device that it works on.
LEMMA StoreOwners ==
  ASSUME Inv, Owners, Continue, ~Post, ~Patch
  PROVE  Owners'
<1> USE Numbers DEF Inv
<1>1. job \in Jobs /\ job.conn \in Conns /\ job.dev \in Devices /\ at # "idle"
  BY DEF TypeOK, Jobs, Continue, StoreToken, StorePriv, StoreCert, StoreWg, UpdateConfig
<1>2. UNCHANGED <<remote, daemon>> /\ (at' # "idle" => job' = job)
  BY DEF Continue, StoreToken, StorePriv, StoreCert, StoreWg, UpdateConfig, Goto, Return
<1>3. SUFFICES ASSUME NEW d \in Devices, NEW c \in Conns, Holds(c, d)' PROVE Holds(c, d)
  BY <1>2, OwnersKept
<1>4. Holds(job.conn, job.dev) BY <1>1 DEF Holds
<1>5. /\ secret[c] \in Secrets /\ conf[c] \in Settings
      /\ c # job.conn => secret'[c] = secret[c] /\ conf'[c] = conf[c]
  BY DEF TypeOK, Continue, StoreToken, StorePriv, StoreCert, StoreWg, UpdateConfig
<1>6. CASE c # job.conn BY <1>2, <1>3, <1>5, <1>6 DEF Holds
<1>7. CASE c = job.conn /\ (StoreToken \/ StoreWg \/ UpdateConfig)
  <2>1. /\ secret'[c].priv = secret[c].priv /\ secret'[c].cert = secret[c].cert
        /\ secret'[c].token \in {secret[c].token, job.dev}
        /\ secret'[c].wg \in {secret[c].wg, job.dev}
        /\ conf'[c].device \in {conf[c].device, job.dev}
    BY <1>1, <1>5, <1>7 DEF TypeOK, Secrets, StoreToken, StoreWg, UpdateConfig
  <2> QED BY <1>2, <1>3, <1>4, <1>7, <2>1 DEF Holds
<1>8. CASE c = job.conn /\ (StorePriv \/ StoreCert)
  <2>1. job.key # 0 /\ remote[job.dev].key = job.key
    BY <1>8 DEF OwnKey, StorePriv, StoreCert
  <2>2. /\ secret'[c].token = secret[c].token /\ secret'[c].wg = secret[c].wg
        /\ secret'[c].priv \in {secret[c].priv, job.key}
        /\ secret'[c].cert \in {secret[c].cert, job.key}
        /\ conf'[c].device = conf[c].device
    BY <1>1, <1>5, <1>8 DEF TypeOK, Secrets, StorePriv, StoreCert
  <2>3. remote[d].key = job.key => d = job.dev
    BY <1>1, <2>1 DEF Owners, OneDevice
  <2> QED BY <1>2, <1>3, <1>4, <1>8, <2>1, <2>2, <2>3 DEF Holds
<1> QED BY <1>6, <1>7, <1>8 DEF Continue

\* A daemon holds what its connection holds.
LEMMA DaemonOwners ==
  ASSUME Inv, Owners, NEW c \in Conns, ReadKey(c) \/ ReadRest(c) \/ DaemonEnds(c)
  PROVE  Owners'
<1> USE Numbers DEF Inv, SetDaemon, cmdVars
<1>1. UNCHANGED <<remote, secret, conf, at, job>> BY DEF ReadKey, ReadRest, DaemonEnds
<1>2. /\ daemon[c] \in Daemon /\ secret[c] \in Secrets
      /\ \A b \in Conns \ {c} : daemon'[b] = daemon[b]
  BY DEF TypeOK, ReadKey, ReadRest, DaemonEnds
<1>3. /\ daemon'[c].wg \in {0, daemon[c].wg, secret[c].wg}
      /\ daemon'[c].key \in {0, daemon[c].key, secret[c].priv}
  <2>1. CASE ReadKey(c) BY <2>1 DEF ReadKey, TypeOK
  <2>2. CASE ReadRest(c) BY <1>2, <2>2 DEF ReadRest, TypeOK, Daemon
  <2>3. CASE DaemonEnds(c) BY <2>3 DEF DaemonEnds, Off, TypeOK
  <2> QED BY <2>1, <2>2, <2>3
<1>4. ASSUME NEW d \in Devices, NEW b \in Conns, Holds(b, d)' PROVE Holds(b, d)
  <2>1. CASE b = c BY <1>1, <1>3, <1>4, <2>1 DEF Holds
  <2>2. CASE b # c BY <1>1, <1>2, <1>4, <2>2 DEF Holds
  <2> QED BY <2>1, <2>2
<1> QED BY <1>1, <1>4, OwnersKept

\* Commands that begin or end, and days, give nobody a device.
LEMMA OtherOwners ==
  ASSUME Inv, Owners, UNCHANGED <<remote, secret>>,
         \A c \in Conns : /\ conf'[c].device = conf[c].device
                          /\ daemon'[c].key = daemon[c].key /\ daemon'[c].wg = daemon[c].wg,
         at' # "idle" => \/ job' = job /\ at # "idle"
                         \/ job'.dev = 0
                         \/ job'.dev = conf[job'.conn].device
  PROVE  Owners'
<1>1. ASSUME NEW d \in Devices, NEW c \in Conns, Holds(c, d)' PROVE Holds(c, d)
  BY <1>1, Numbers DEF Holds
<1> QED BY <1>1, OwnersKept

\* The owners in the first state, and in every step.
LEMMA OwnersInvariance == Spec => []Owners
<1>1. Init => Owners
  <2> SUFFICES ASSUME Init PROVE Owners OBVIOUS
  <2>1. \A d \in Devices, c \in Conns : ~Holds(c, d)
    BY Numbers DEF Init, Holds, Off
  <2> QED BY <2>1 DEF Init, Owners, OneOwner, OneDevice
<1>2. Inv /\ Owners /\ [Next]_vars => Owners'
  <2> SUFFICES ASSUME Inv, Owners, [Next]_vars PROVE Owners' OBVIOUS
  <2>1. ASSUME NEW c \in Conns, NEW j \in Jobs, NEW to \in {"post", "patch"}, Begin(c, j, to),
               UNCHANGED <<remote, secret, conf>>,
               j.dev = 0 \/ j.dev = conf[j.conn].device
        PROVE  Owners'
    <3>1. \A b \in Conns : daemon'[b].key = daemon[b].key /\ daemon'[b].wg = daemon[b].wg
      <4>1. daemon[c] \in Daemon BY DEF Inv, TypeOK
      <4> QED BY <2>1, <4>1 DEF Begin, Inv, TypeOK, Daemon
    <3> QED BY <2>1, <3>1, OtherOwners DEF Begin
  <2>2. ASSUME NEW c \in Conns, Register(c) PROVE Owners'
    <3> DEFINE j == [op |-> "register", conn |-> c, dev |-> 0, key |-> 0]
    <3>1. j \in Jobs /\ j.dev = 0 BY Numbers DEF Jobs
    <3>2. Begin(c, j, "post") /\ UNCHANGED <<remote, secret, conf>>
      BY <2>2 DEF Register
    <3> QED BY <2>1, <3>1, <3>2
  <2>3. ASSUME NEW c \in Conns, CallEnroll(c), UNCHANGED <<remote, secret, conf>>
        PROVE  Owners'
    <3> DEFINE j == [op |-> "enroll", conn |-> c, dev |-> conf[c].device, key |-> 0]
    <3>1. j \in Jobs /\ j.dev = conf[j.conn].device
      BY Numbers DEF Jobs, Inv, TypeOK, Settings
    <3>2. CASE Begin(c, j, "patch") BY <2>1, <2>3, <3>1, <3>2
    <3>3. CASE UNCHANGED <<at, job, daemon>> BY <2>3, <3>3, OtherOwners
    <3> QED BY <2>3, <3>2, <3>3 DEF CallEnroll
  <2>4. CASE PostLost \/ PatchLost
    BY <2>4, RemoteStep DEF PostLost, PatchLost, Return
  <2>5. CASE Post
    <3>1. at = "post" /\ UNCHANGED <<secret, conf, daemon>> BY <2>5 DEF Post
    <3>2. job \in Jobs BY <3>1 DEF Inv, TypeOK
    <3>3. PICK d \in FreshDevices : NewDevice(d) /\ job' = [job EXCEPT !.dev = d]
      BY <2>5 DEF Post
    <3>4. job'.conn = job.conn /\ job'.dev = d BY <3>2, <3>3 DEF Jobs
    <3> QED BY <3>1, <3>3, <3>4, RemoteStep
  <2>6. CASE Patch
    <3>1. at = "patch" /\ UNCHANGED <<secret, conf, daemon>> BY <2>6 DEF Patch
    <3>2. job \in Jobs BY <3>1 DEF Inv, TypeOK
    <3>3. PICK k \in FreshKeys : NewKey(k) /\ job' = [job EXCEPT !.key = k]
      BY <2>6 DEF Patch
    <3>4. job'.conn = job.conn /\ job'.dev = job.dev BY <3>2, <3>3 DEF Jobs
    <3> QED BY <3>1, <3>3, <3>4, RemoteStep
  <2>7. CASE Continue BY <2>5, <2>6, <2>7, StoreOwners
  <2>8. CASE Refused \/ LocalFailure \/ Crash
    BY <2>8, OtherOwners DEF Refused, LocalFailure, Crash, Return
  <2>9. CASE Day
    <3>1. \A c \in Conns : conf[c] \in Settings BY DEF Inv, TypeOK
    <3>2. \A c \in Conns : conf'[c].device = conf[c].device
      BY <2>9, <3>1 DEF Day, Settings
    <3> QED BY <2>9, <3>2, OtherOwners DEF Day, cmdVars
  <2>10. ASSUME NEW c \in Conns, ReadKey(c) \/ ReadRest(c) \/ DaemonEnds(c) PROVE Owners'
    BY <2>10, DaemonOwners
  <2>11. CASE RotateKeysCheck \/ UNCHANGED vars
    BY <2>11, OtherOwners DEF RotateKeysCheck, vars, cmdVars
  <2> QED
    BY <2>2, <2>3, <2>4, <2>7, <2>8, <2>9, <2>10, <2>11
    DEF Next, Proceed, Trouble, Enroll, RotateDue, Inv, TypeOK
<1> QED BY <1>1, <1>2, Invariance, PTL DEF Spec

\* Devices and keys are never shared: what one connection holds no other holds,
\* whichever commands have failed or died half-way.
THEOREM DevicesAreNotShared == Spec => []OneOwner
<1>1. Owners => OneOwner BY DEF Owners
<1> QED BY <1>1, OwnersInvariance, PTL

\* A daemon that is let in is shut out only by a new key for its own connection.
THEOREM OthersKeepAccessCorrect == Spec => OthersKeepAccess
<1>1. Inv /\ Owners /\ [Next]_vars =>
        [\A c \in Conns : Accepted(c) /\ ~Accepted(c)' /\ daemon'[c] = daemon[c]
                             => at = "patch" /\ job.conn = c]_vars
  <2> SUFFICES ASSUME Inv, Owners, Next, NEW c \in Conns,
                      Accepted(c), ~Accepted(c)', daemon'[c] = daemon[c]
               PROVE  at = "patch" /\ job.conn = c
    OBVIOUS
  <2> USE Numbers, Fresh
  <2>1. PICK d \in Devices :
          /\ Holds(c, d) /\ remote[d].type # "none" /\ remote'[d] # remote[d]
    <3>1. CASE c \in Masque
      <4>1. PICK d \in Devices : remote[d] = [type |-> "masque", key |-> daemon[c].key]
        BY <3>1 DEF Accepted
      <4>2. Holds(c, d) /\ remote'[d] # remote[d] BY <3>1, <4>1 DEF Accepted, Holds
      <4> QED BY <4>1, <4>2
    <3>2. CASE c \notin Masque
      <4>1. daemon[c].wg \in Devices BY <3>2 DEF Accepted, Inv, TypeOK, Daemon
      <4>2. remote[daemon[c].wg].type = "wireguard" BY <3>2 DEF Accepted
      <4>3. Holds(c, daemon[c].wg) BY DEF Holds
      <4>4. remote'[daemon[c].wg] # remote[daemon[c].wg] BY <3>2 DEF Accepted
      <4> QED BY <4>1, <4>2, <4>3, <4>4
    <3> QED BY <3>1, <3>2
  <2>2. ASSUME NEW n \in FreshDevices, NewDevice(n) PROVE FALSE
    BY <2>1, <2>2 DEF NewDevice, Inv, TypeOK
  <2>3. CASE at = "patch" /\ \E k \in FreshKeys : NewKey(k)
    <3>1. job.dev \in Devices /\ job.conn \in Conns BY <2>3 DEF Inv, TypeOK, Jobs
    <3>2. d = job.dev BY <2>1, <2>3, <3>1 DEF NewKey, Inv, TypeOK
    <3>3. Holds(job.conn, d) BY <2>3, <3>2 DEF Holds
    <3> QED BY <2>1, <2>3, <3>1, <3>3 DEF Owners, OneOwner
  <2>4. remote' # remote BY <2>1
  <2> QED
    BY <2>2, <2>3, <2>4
    DEF Next, Register, Enroll, RotateKeysCheck, Proceed, Continue, RotateDue, Trouble,
        Post, Patch, PostLost, PatchLost, Refused, StoreToken, StorePriv, StoreCert, StoreWg,
        UpdateConfig, LocalFailure, Crash, Day, ReadKey, ReadRest, DaemonEnds, SetDaemon
<1> QED BY <1>1, Invariance, OwnersInvariance, PTL DEF Spec, OthersKeepAccess

=============================================================================
