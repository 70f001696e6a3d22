---------------------------- MODULE KeyRotation ----------------------------
(***************************************************************************)
(* Registration of devices and rotation of their keys: warp.py (register,  *)
(* enroll, rotatekey, rotatekeyscheck), the requests of cfzt_api.py, and   *)
(* the start of a daemon, which reads the credentials one by one.          *)
(*                                                                         *)
(* What a connection needs is in three places that no transaction spans:   *)
(* the device as Cloudflare knows it, the secrets, and config.xml.  A      *)
(* request may be refused, or be carried out and its answer be lost; a     *)
(* command may be killed between any two of its steps.                     *)
(*                                                                         *)
(* Commands run one at a time, daemons start at any time.  set_secret and  *)
(* _update_config_xml are single steps here: SecretsStore and ConfigXml    *)
(* show that they are, for commands one at a time.  A token and a          *)
(* WireGuard key, which are never replaced, are known by the device they   *)
(* belong to, a MASQUE key pair by a number.  Addresses and endpoints are  *)
(* left out.                                                               *)
(***************************************************************************)
EXTENDS Integers

CONSTANTS
  Conns,       \* connections that use WARP
  Masque,      \* those whose protocol is warp_masque; the others use WireGuard
  AutoRotate,  \* those with auto_rotate_keys
  Days,        \* key_rotation_days
  MaxDevices,  \* bound: devices that are ever registered
  MaxKeys      \* bound: MASQUE keys in use at the same time

ASSUME ConnsAssumption == Masque \subseteq Conns /\ AutoRotate \subseteq Conns
ASSUME RotationBounds == Days \in Nat /\ MaxDevices \in Nat /\ MaxKeys \in Nat

VARIABLES
  remote,   \* remote[d]: device d as Cloudflare has it
  secret,   \* secret[c]: the secrets of connection c
  conf,     \* conf[c]: c in config.xml; age is the days since last_key_rotation
  at,       \* where the command is that runs
  job,      \* what it works on: connection, device, new key
  due,      \* connections that rotatekeyscheck is still to rotate
  fine,     \* history: connections whose last command has reported "ok"
  daemon    \* daemon[c]: the credentials that its process was started with

cmdVars == <<at, job, due>>
vars == <<remote, secret, conf, cmdVars, fine, daemon>>

\* 0 stands for no device and no key.
Devices == 1..MaxDevices
Keys == 1..MaxKeys
AnyDevice == 0..MaxDevices
AnyKey == 0..MaxKeys

Remote == [type : {"none", "wireguard", "masque"}, key : AnyKey]
Secrets == [token : AnyDevice, priv : AnyKey, cert : AnyKey, wg : AnyDevice]
Settings == [device : AnyDevice, status : {"unregistered", "registered", "enrolled"}, age : 0..Days]
Jobs == [op : {"register", "enroll"}, conn : Conns, dev : AnyDevice, key : AnyKey]
NoJob == [op |-> "none"]
Daemon == [at : {"off", "reading", "up"}, key : AnyKey, wg : AnyDevice, clean : BOOLEAN]
Off == [at |-> "off", key |-> 0, wg |-> 0, clean |-> FALSE]

TypeOK ==
  /\ remote \in [Devices -> Remote]
  /\ secret \in [Conns -> Secrets]
  /\ conf \in [Conns -> Settings]
  /\ at \in {"idle", "post", "patch", "token", "priv", "cert", "wg", "config"}
  /\ IF at = "idle" THEN job = NoJob ELSE job \in Jobs
  /\ at \notin {"idle", "post"} => job.dev \in Devices
  /\ due \subseteq Conns
  /\ fine \subseteq Conns
  /\ daemon \in [Conns -> Daemon]

Init ==
  /\ remote = [d \in Devices |-> [type |-> "none", key |-> 0]]
  /\ secret = [c \in Conns |-> [token |-> 0, priv |-> 0, cert |-> 0, wg |-> 0]]
  /\ conf = [c \in Conns |-> [device |-> 0, status |-> "unregistered", age |-> Days]]
  /\ at = "idle" /\ job = NoJob /\ due = {}
  /\ fine = {}
  /\ daemon = [c \in Conns |-> Off]

-----------------------------------------------------------------------------
\* Keys that anybody may still present or compare.
KeysInUse ==
  {remote[d].key : d \in Devices}
    \cup UNION {{secret[c].priv, secret[c].cert, daemon[c].key} : c \in Conns}
    \cup IF at = "idle" THEN {} ELSE {job.key}

Least(S) == {k \in S : \A j \in S : k <= j}

\* A newly generated key is one that nobody has; which one does not matter.
FreshKeys == Least(Keys \ KeysInUse)

\* mutant: the request names the host, and Cloudflare answers with the device that it
\* already has for that host
FreshDevicesByHost == Least({d \in Devices : remote[d].type \in {"none", "wireguard"}})

\* The request has a random install_id: it always makes a new device.
FreshDevices == Least({d \in Devices : remote[d].type = "none"})

\* A command for c begins: what was reported of c is out of date, and a daemon that
\* is reading the secrets may find some old and some new ones.
Begin(c, j, to) ==
  /\ at' = to /\ job' = j
  /\ fine' = fine \ {c}
  /\ daemon' = [daemon EXCEPT ![c].clean = @ /\ daemon[c].at = "up"]

\* The command that is running returns.
Return(result) ==
  /\ at' = "idle" /\ job' = NoJob
  /\ fine' = IF result = "ok" THEN fine \cup {job.conn} ELSE fine

Goto(to) == at' = to /\ UNCHANGED <<job, fine>>

-----------------------------------------------------------------------------
(* The commands *)

Register(c) ==
  /\ at = "idle" /\ due = {}
  /\ Begin(c, [op |-> "register", conn |-> c, dev |-> 0, key |-> 0], "post")
  /\ UNCHANGED <<remote, secret, conf, due>>

\* mutant: a connection that has a token but no device is enrolled
CallEnrollAny(c) ==
  IF secret[c].token = 0
  THEN /\ fine' = fine \ {c}
       /\ UNCHANGED <<at, job, daemon>>
  ELSE Begin(c, [op |-> "enroll", conn |-> c, dev |-> conf[c].device, key |-> 0], "patch")

\* cmd_enroll, also as rotatekey and for each connection that is due
CallEnroll(c) ==
  IF conf[c].device = 0 \/ secret[c].token = 0
  THEN /\ fine' = fine \ {c}
       /\ UNCHANGED <<at, job, daemon>>
  ELSE Begin(c, [op |-> "enroll", conn |-> c, dev |-> conf[c].device, key |-> 0], "patch")

Enroll(c) ==
  /\ at = "idle" /\ due = {}
  /\ CallEnroll(c)
  /\ UNCHANGED <<remote, secret, conf, due>>

\* mutant: only connections that have never been enrolled count as due
IsDueRegistered(c) ==
  /\ c \in AutoRotate
  /\ conf[c].status = "registered"
  /\ conf[c].age >= Days

\* The connections that cmd_rotatekeyscheck rotates
IsDue(c) ==
  /\ c \in AutoRotate
  /\ conf[c].status \in {"enrolled", "registered"}
  /\ conf[c].age >= Days

RotateKeysCheck ==
  /\ at = "idle" /\ due = {}
  /\ due' = {c \in Conns : IsDue(c)}
  /\ due' # {}
  /\ UNCHANGED <<remote, secret, conf, at, job, fine, daemon>>

RotateDue(c) ==
  /\ at = "idle"
  /\ due' = due \ {c}
  /\ CallEnroll(c)
  /\ UNCHANGED <<remote, secret, conf>>

-----------------------------------------------------------------------------
(* register_device and enroll_masque_key, and the other end *)

NewDevice(d) == remote' = [remote EXCEPT ![d] = [type |-> "wireguard", key |-> 0]]

Post ==
  /\ at = "post"
  /\ \E d \in FreshDevices : NewDevice(d) /\ job' = [job EXCEPT !.dev = d]
  /\ at' = IF job.conn \in Masque THEN "patch" ELSE "token"
  /\ UNCHANGED <<secret, conf, due, fine, daemon>>

\* The device is registered, but nobody gets to know it.
PostLost ==
  /\ at = "post"
  /\ \E d \in FreshDevices : NewDevice(d)
  /\ Return("failed")
  /\ UNCHANGED <<secret, conf, due, daemon>>

\* The token that goes with the request: a new one, or the one in the store.
Token == IF job.op = "register" THEN job.dev ELSE secret[job.conn].token

\* PATCH /reg/<device> replaces the device's key and makes it a MASQUE device.
NewKey(k) ==
  /\ Token = job.dev /\ remote[job.dev].type # "none"
  /\ remote' = [remote EXCEPT ![job.dev] = [type |-> "masque", key |-> k]]

Patch ==
  /\ at = "patch"
  /\ \E k \in FreshKeys : NewKey(k) /\ job' = [job EXCEPT !.key = k]
  /\ at' = IF job.op = "register" THEN "token" ELSE "priv"
  /\ UNCHANGED <<secret, conf, due, fine, daemon>>

PatchLost ==
  /\ at = "patch"
  /\ \E k \in FreshKeys : NewKey(k)
  /\ Return("failed")
  /\ UNCHANGED <<secret, conf, due, daemon>>

\* The request is refused, does not get through, or no key could be generated.
Refused ==
  /\ at \in {"post", "patch"}
  /\ Return("failed")
  /\ UNCHANGED <<remote, secret, conf, due, daemon>>

-----------------------------------------------------------------------------
(* Secrets, certificate, config.xml *)

StoreToken ==
  /\ at = "token"
  /\ secret' = [secret EXCEPT ![job.conn].token = job.dev]
  /\ Goto(IF job.key # 0 THEN "priv" ELSE "wg")
  /\ UNCHANGED <<remote, conf, due, daemon>>

StorePriv ==
  /\ at = "priv"
  /\ secret' = [secret EXCEPT ![job.conn].priv = job.key]
  /\ Goto("cert")
  /\ UNCHANGED <<remote, conf, due, daemon>>

StoreCert ==
  /\ at = "cert"
  /\ secret' = [secret EXCEPT ![job.conn].cert = job.key]
  /\ Goto(IF job.op = "register" THEN "wg" ELSE "config")
  /\ UNCHANGED <<remote, conf, due, daemon>>

StoreWg ==
  /\ at = "wg"
  /\ secret' = [secret EXCEPT ![job.conn].wg = job.dev]
  /\ Goto("config")
  /\ UNCHANGED <<remote, conf, due, daemon>>

UpdateConfig ==
  /\ at = "config"
  /\ conf' = [conf EXCEPT ![job.conn] =
                [device |-> job.dev,
                 status |-> IF job.key # 0 THEN "enrolled" ELSE "registered",
                 age    |-> 0]]
  /\ Return("ok")
  /\ UNCHANGED <<remote, secret, due, daemon>>

\* mutant: an exception is logged and the command reports success
LocalFailureIgnored ==
  /\ at \in {"cert", "config"}
  /\ Return("ok")
  /\ UNCHANGED <<remote, secret, conf, due, daemon>>

\* The certificate cannot be generated, or config.xml cannot be updated.
LocalFailure ==
  /\ at \in {"cert", "config"}
  /\ Return("failed")
  /\ UNCHANGED <<remote, secret, conf, due, daemon>>

\* mutant: config.xml is told of the new device before the secrets are stored
CrashAfterConfig ==
  /\ at # "idle"
  /\ Return("failed") /\ due' = {}
  /\ conf' = [conf EXCEPT ![job.conn] =
                [device |-> job.dev,
                 status |-> IF job.key # 0 THEN "enrolled" ELSE "registered",
                 age    |-> 0]]
  /\ UNCHANGED <<remote, secret, daemon>>

\* The command is killed, or set_secret raises: no handler, the whole process ends.
Crash ==
  /\ at # "idle"
  /\ Return("failed") /\ due' = {}
  /\ UNCHANGED <<remote, secret, conf, daemon>>

Day ==
  /\ \E c \in Conns : conf[c].age < Days
  /\ conf' = [c \in Conns |-> [conf[c] EXCEPT !.age = IF @ < Days THEN @ + 1 ELSE @]]
  /\ UNCHANGED <<remote, secret, cmdVars, fine, daemon>>

-----------------------------------------------------------------------------
(* start_connection, _write_warp_config: one get_secret after the other; what the
   protocol of the connection does not use is left out *)

SetDaemon(c, d) ==
  /\ daemon' = [daemon EXCEPT ![c] = d]
  /\ UNCHANGED <<remote, secret, conf, cmdVars, fine>>

ReadKey(c) ==
  /\ daemon[c].at = "off"
  /\ conf[c].status \in {"enrolled", "registered"}
  /\ SetDaemon(c, [at    |-> "reading",
                   key   |-> IF c \in Masque THEN secret[c].priv ELSE 0,
                   wg    |-> 0,
                   clean |-> c \in fine])

\* A key with the certificate of another is as good as none.
ReadRest(c) ==
  /\ daemon[c].at = "reading"
  /\ SetDaemon(c, IF c \in Masque
                  THEN [daemon[c] EXCEPT !.at  = "up",
                                         !.key = IF secret[c].cert = @ THEN @ ELSE 0]
                  ELSE [daemon[c] EXCEPT !.at = "up", !.wg = secret[c].wg])

DaemonEnds(c) == daemon[c].at # "off" /\ SetDaemon(c, Off)

-----------------------------------------------------------------------------
Continue ==
  \/ Post \/ Patch
  \/ StoreToken \/ StorePriv \/ StoreCert \/ StoreWg \/ UpdateConfig

\* A rotation under way goes on.
Proceed == Continue \/ \E c \in due : RotateDue(c)

Trouble == PostLost \/ PatchLost \/ LocalFailure \/ Crash

Next ==
  \/ \E c \in Conns : Register(c) \/ Enroll(c)
  \/ RotateKeysCheck
  \/ Proceed \/ Refused \/ Trouble
  \/ Day
  \/ \E c \in Conns : ReadKey(c) \/ ReadRest(c) \/ DaemonEnds(c)

Spec == Init /\ [][Next]_vars

\* A request that Cloudflare would accept is refused.
Unlucky == Refused /\ (at = "patch" => Token = job.dev)

\* Commands make progress, days pass and cron runs rotatekeyscheck, other commands
\* or not; from some time on no request or step fails for a reason of its own.
FairSpec ==
  /\ Spec
  /\ WF_vars(Proceed \/ Refused) /\ WF_vars(Day) /\ SF_vars(RotateKeysCheck)
  /\ <>[][~Trouble /\ ~Unlucky]_vars

-----------------------------------------------------------------------------
\* What is stored for c is what Cloudflare has for the device of c.
Agrees(c) ==
  /\ conf[c].device # 0 /\ secret[c].token = conf[c].device
  /\ secret[c].priv = secret[c].cert
  /\ remote[conf[c].device] = [type |-> "masque", key |-> secret[c].priv]

\* The "result": "ok" of register, enroll and rotatekey for a MASQUE connection means
\* that config.xml, the secrets and Cloudflare agree, and they do so until the next
\* command for this connection, whatever other commands do, fail to do or die of.
OkMeansAgreement == \A c \in Masque \cap fine : Agrees(c)

\* start_connection goes by registration_status (service.py:150): whatever has died
\* or failed, a connection with that status has the secrets that a start needs, and
\* its device is one that Cloudflare knows.
StatusIsBacked ==
  \A c \in Conns :
    /\ conf[c].status # "unregistered" =>
         /\ conf[c].device # 0 /\ remote[conf[c].device].type # "none"
         /\ secret[c].token # 0 /\ secret[c].wg # 0
    /\ conf[c].status = "enrolled" => secret[c].priv # 0 /\ secret[c].cert # 0

\* Cloudflare lets the daemon of c in.
Accepted(c) ==
  IF c \in Masque
  THEN /\ daemon[c].key # 0
       /\ \E d \in Devices : remote[d] = [type |-> "masque", key |-> daemon[c].key]
  ELSE daemon[c].wg # 0 /\ remote[daemon[c].wg].type = "wireguard"

\* A daemon that was started after a command for its connection ended well, with no
\* other begun before it had read its secrets, is let in.
CleanStartIsAccepted ==
  [][\A c \in Masque : ReadRest(c) /\ daemon[c].clean => Accepted(c)']_vars

\* docs/admin.md:42, "re-enrolls them without downtime", as far as it goes: a daemon
\* that is let in is shut out only when a new key is enrolled for its own connection,
\* never by what a command for another one does, fails to do or dies of.
OthersKeepAccess ==
  [][\A c \in Conns :
       Accepted(c) /\ ~Accepted(c)' /\ daemon'[c] = daemon[c]
         => at = "patch" /\ job.conn = c]_vars

\* A connection that a lost answer, a crash or a failed step has left without valid
\* credentials gets them from a later rotatekeyscheck, as long as its device and the
\* token for it are there.
Repairable(c) == conf[c].status # "unregistered" /\ secret[c].token = conf[c].device

RotationHeals ==
  \A c \in Masque \cap AutoRotate :
    Repairable(c) ~> Agrees(c) \/ ~Repairable(c)

\* docs/admin.md:42: rotatekeyscheck "re-enrolls them without downtime": when a
\* rotation has reported success, a daemon that was let in when it started
\* (CleanStartIsAccepted) is let in when it connects again.
NoDowntime ==
  \A c \in Masque \cap fine : daemon[c].at = "up" /\ daemon[c].clean => Accepted(c)

=============================================================================
