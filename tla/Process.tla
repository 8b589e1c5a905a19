-------------------------------- MODULE Process -------------------------------
(***************************************************************************)
(* One invocation of the command (internal/app): the policy file is read    *)
(* while others may change it, the policy is validated, the secrets leave   *)
(* the environment, the gateway is built and started, and supervise waits   *)
(* for a signal or for Serve.  Once started, the accept loop of             *)
(* BoundedListener runs; Serve and Shutdown are seen from outside, as       *)
(* Server models them inside.                                               *)
(***************************************************************************)
EXTENDS BoundedListener, Policy

CONSTANTS
  Policies,     \* what the file may say: kinds of policies, each a set of them
  Names,        \* environment variables the policy names
  Inodes        \* files that may be at the policy's path

ASSUME DecodedAssumption == \A P \in Policies : P \subseteq PolicyDocuments

VARIABLES
  pc, command,
  path, files,              \* the file at the path; per file: private, size
  vetted,                   \* history: the files that were private while at the path
  seen,                     \* what Lstat found: inode, size; the open file; bytes read
  policy,
  env, looked, stuck,       \* the variables; those looked up; those Unsetenv failed for
  secrets, failed,          \* the values taken; resolveSecrets' failed
  res,                      \* who holds the upstream client, the scheduler, the listener
  subscribed, pending,      \* signals: handler installed, one waiting
  clean, served, shut,      \* cleanTrigger; results of Serve and Shutdown
  deadline, exit

disk == <<path, files, vetted>>
file == <<disk, seen>>
keys == <<env, looked, stuck, secrets, failed>>
super == <<subscribed, pending, clean, served, shut, deadline>>
pvars == <<vars, pc, command, file, policy, keys, res, super, exit>>

Parts == {"upstream", "scheduler", "listener"}
(* private: all that safePolicyFileInfo asks for *)
File == [private : BOOLEAN, size : 1..2]
Nowhere == [inode |-> 0, size |-> 0, fd |-> 0, bytes |-> 0]
Blank == [i \in Inodes |-> [private |-> TRUE, size |-> 1]]
NoPolicy == [stage |-> "unread"]
Used == [stage |-> "used"]          \* a validated policy whose numbers no longer matter

PInit ==
  /\ Init
  /\ pc = "path" /\ command \in {"validate", "serve"}
  /\ path \in Inodes /\ files \in [Inodes -> File] /\ vetted = {i \in {path} : files[i].private}
  /\ seen = Nowhere /\ policy = NoPolicy
  /\ env = [n \in Names |-> "unset"] /\ looked = {} /\ stuck = {}
  /\ secrets = [n \in Names |-> "unset"] /\ failed = FALSE
  /\ res = [x \in Parts |-> "none"]
  /\ subscribed = FALSE /\ pending = FALSE /\ clean = FALSE
  /\ served = "none" /\ shut = "none" /\ deadline = FALSE /\ exit = "none"

Exit(code) == pc' = "exited" /\ exit' = code
Goto(place) == pc' = place /\ UNCHANGED exit

-----------------------------------------------------------------------------
(* readPolicyFile *)

Reading == pc \in {"path", "read", "open", "fstat", "contents", "restat"}

(* Others rename, rewrite or expose files meanwhile. *)
DiskChanges ==
  /\ Reading
  /\ \/ path' \in Inodes /\ UNCHANGED files
     \/ \E i \in Inodes, f \in File : files' = [files EXCEPT ![i] = f] /\ UNCHANGED path
  /\ vetted' = vetted \cup {i \in {path'} : files'[i].private}
  /\ UNCHANGED <<vars, pc, command, seen, policy, keys, res, super, exit>>

Usage(ok, place) == IF ok THEN Goto(place) ELSE Exit("usage")

(* Any call of the file system may fail. *)
ReadFails ==
  /\ Reading /\ Exit("usage")
  /\ UNCHANGED <<vars, command, file, policy, keys, res, super>>

(* validPolicyPath and safePolicyAncestors; a refusal is a ReadFails. *)
PathIsSafe ==
  /\ pc = "path" /\ Goto("read")
  /\ UNCHANGED <<vars, command, file, policy, keys, res, super>>

LstatPolicy ==
  /\ pc = "read"
  /\ Usage(files[path].private, "open")
  /\ seen' = [seen EXCEPT !.inode = path, !.size = files[path].size]
  /\ UNCHANGED <<vars, command, disk, policy, keys, res, super>>

(* The name may mean another file by now. *)
OpenPolicy ==
  /\ pc = "open" /\ Goto("fstat")
  /\ seen' = [seen EXCEPT !.fd = path]
  /\ UNCHANGED <<vars, command, disk, policy, keys, res, super>>

FstatPolicy ==
  /\ pc = "fstat"
  /\ LET f == files[seen.fd] IN
     Usage(f.private /\ seen.fd = seen.inode /\ f.size = seen.size, "contents")
  /\ UNCHANGED <<vars, command, file, policy, keys, res, super>>

ReadContents ==
  /\ pc = "contents" /\ Goto("restat")
  /\ seen' = [seen EXCEPT !.bytes = files[seen.fd].size]
  /\ UNCHANGED <<vars, command, disk, policy, keys, res, super>>

(* The file is of no interest once it has been read. *)
Parse ==
  /\ Goto("parse") /\ path' = (CHOOSE i \in Inodes : TRUE) /\ files' = Blank
  /\ seen' = Nowhere /\ vetted' = {}

RestatPolicy ==
  /\ pc = "restat"
  /\ LET f == files[seen.fd] IN
     IF f.private /\ f.size = seen.size /\ f.size = seen.bytes
     THEN Parse ELSE Exit("usage") /\ UNCHANGED file
  /\ UNCHANGED <<vars, command, policy, keys, res, super>>

(* JSON, and the checks of schema, listener and names: they pass or not. *)
DecodePolicy ==
  /\ pc = "parse"
  /\ \/ Goto("decoded") /\ \E P \in Policies : policy' = [kind |-> P]
     \/ Exit("usage") /\ UNCHANGED policy
  /\ UNCHANGED <<vars, command, file, keys, res, super>>

ParsePolicy ==
  /\ pc = "decoded" /\ Goto("validate") /\ policy' \in policy.kind
  /\ UNCHANGED <<vars, command, file, keys, res, super>>

(* A refused policy exits like bad usage; the model tells them apart. *)
ValidatePolicy ==
  /\ pc = "validate"
  /\ \/ validatePolicy(policy) /\ Goto("accepted")
     \/ ~validatePolicy(policy) /\ Exit("policy")
  /\ UNCHANGED <<vars, command, file, policy, keys, res, super>>

(* The variables hold anything: they are read here for the first time. "bad" *)
(* is an empty value or one that is too long.                               *)
Prepare ==
  /\ pc = "accepted" /\ Goto("secrets")
  /\ policy' = Used /\ env' \in [Names -> {"a", "b", "bad", "unset"}]
  /\ UNCHANGED <<vars, command, file, looked, stuck, secrets, failed, res, super>>

-----------------------------------------------------------------------------
(* prepareGateway *)

Usable(n) == env[n] \in {"a", "b"}
Duplicate(n) == \E m \in looked : secrets[m] = env[n]

(* consume: every variable is looked up and unset, whatever failed before;  *)
(* one that cannot be unset stays.                                          *)
ConsumeSecret(n) ==
  /\ pc = "secrets" /\ n \notin looked /\ looked' = looked \cup {n}
  /\ \/ env' = [env EXCEPT ![n] = "unset"] /\ UNCHANGED stuck
     \/ stuck' = stuck \cup {n} /\ UNCHANGED env
  /\ secrets' = [secrets EXCEPT ![n] = IF Usable(n) THEN env[n] ELSE @]
  /\ failed' = (failed \/ stuck' # stuck \/ ~Usable(n) \/ Duplicate(n))
  /\ Goto("secrets")
  /\ UNCHANGED <<vars, command, file, policy, res, super>>

ClearSecrets == secrets' = [n \in Names |-> "unset"]
Taken == <<env, looked, stuck, failed>>

SecretsResolved ==
  /\ pc = "secrets" /\ looked = Names
  /\ IF failed THEN Exit("usage") /\ ClearSecrets ELSE Goto("newUpstream") /\ UNCHANGED secrets
  /\ UNCHANGED <<vars, command, file, policy, Taken, res, super>>

(* cleanupPreparedResources closes what is ready.  The scheduler may need   *)
(* longer than startupCleanupTimeout: it is left late, the upstream client  *)
(* is closed all the same.                                                  *)
Cleaned(inTime) ==
  [x \in Parts |-> IF res[x] # "ready" THEN res[x]
                   ELSE IF x = "scheduler" /\ ~inTime THEN "late" ELSE "closed"]
CleanUp == \E inTime \in BOOLEAN : res' = Cleaned(inTime)

NewUpstream ==
  /\ pc = "newUpstream"
  /\ \/ res' = [res EXCEPT !["upstream"] = "ready"] /\ Goto("newScheduler") /\ UNCHANGED secrets
     \/ UNCHANGED res /\ Exit("usage") /\ ClearSecrets
  /\ UNCHANGED <<vars, command, file, policy, Taken, super>>

NewScheduler ==
  /\ pc = "newScheduler"
  /\ \/ res' = [res EXCEPT !["scheduler"] = "ready"] /\ Goto("newHandler") /\ UNCHANGED secrets
     \/ CleanUp /\ Exit("usage") /\ ClearSecrets
  /\ UNCHANGED <<vars, command, file, policy, Taken, super>>

(* Fault: a failure leaves the scheduler running. *)
NewHandlerLeaks ==
  /\ pc = "newHandler" /\ ClearSecrets
  /\ \/ UNCHANGED res /\ Goto("prepared")
     \/ res' = [Cleaned(TRUE) EXCEPT !["scheduler"] = res["scheduler"]] /\ Exit("usage")
  /\ UNCHANGED <<vars, command, file, policy, Taken, super>>

(* newHandler and validateServer; the deferred clear ends prepareGateway. *)
NewHandler ==
  /\ pc = "newHandler" /\ ClearSecrets
  /\ \/ UNCHANGED res /\ Goto("prepared")
     \/ CleanUp /\ Exit("usage")
  /\ UNCHANGED <<vars, command, file, policy, Taken, super>>

CloseValidated ==
  /\ pc = "prepared" /\ command = "validate"
  /\ \E inTime \in BOOLEAN :
       res' = Cleaned(inTime) /\ Exit(IF inTime THEN "success" ELSE "runtime")
  /\ UNCHANGED <<vars, command, file, policy, keys, super>>

-----------------------------------------------------------------------------
(* preparedGateway.start consumes the gateway on every path. *)

Subscribe ==
  /\ pc = "prepared" /\ command = "serve"
  /\ \/ subscribed' = TRUE /\ UNCHANGED res /\ Goto("listen")
     \/ CleanUp /\ Exit("runtime") /\ UNCHANGED subscribed
  /\ UNCHANGED <<vars, command, file, policy, keys, pending, clean, served, shut, deadline>>

(* A listener bound elsewhere is closed and refused. *)
Listen ==
  /\ pc = "listen"
  /\ \/ res' = [res EXCEPT !["listener"] = "ready"] /\ Goto("newServer") /\ UNCHANGED subscribed
     \/ /\ Exit("runtime") /\ subscribed' = FALSE
        /\ \E inTime \in BOOLEAN, bound \in {"none", "closed"} :
             res' = [Cleaned(inTime) EXCEPT !["listener"] = bound]
  /\ UNCHANGED <<vars, command, file, policy, keys, pending, clean, served, shut, deadline>>

NewServer ==
  /\ pc = "newServer"
  /\ \/ res' = [x \in Parts |-> "server"] /\ Goto("supervise") /\ UNCHANGED subscribed
     \/ CleanUp /\ Exit("runtime") /\ subscribed' = FALSE
  /\ UNCHANGED <<vars, command, file, policy, keys, pending, clean, served, shut, deadline>>

-----------------------------------------------------------------------------
(* supervise *)

(* A signal kills a process that does not catch it; os/signal drops what    *)
(* does not fit the channel.                                                *)
Signal ==
  /\ pc # "exited"
  /\ IF subscribed THEN pending' = TRUE /\ UNCHANGED <<pc, exit>>
                   ELSE Exit("killed") /\ UNCHANGED pending
  /\ UNCHANGED <<vars, command, file, policy, keys, res, subscribed, clean, served, shut, deadline>>

Running == pc \in {"supervise", "shutdown", "await"}

(* The accept loop and the connections, which Shutdown closes. *)
ServerRuns ==
  /\ Running /\ loop # "returned"
  /\ Accepting \/ \E c \in Connections : Connect(c)
  /\ UNCHANGED <<pc, command, file, policy, keys, res, super, exit>>

ConnectionsClose ==
  /\ Running
  /\ \E k \in Closers : EndClose(k) \/ \E c \in Connections : StartClose(k, c)
  /\ UNCHANGED <<pc, command, file, policy, keys, res, super, exit>>

(* Serve returns when the accept loop has; before a shutdown that is an     *)
(* error.                                                                   *)
ServeReturns ==
  /\ Running /\ loop = "returned" /\ served = "none"
  /\ served' \in (IF closed THEN {"nil", "error"} ELSE {"error"})
  /\ UNCHANGED <<vars, pc, command, file, policy, keys, res, subscribed, pending, clean, shut,
                 deadline, exit>>

(* The first of the two; stop restores the default effect of signals.       *)
Triggered ==
  /\ pc = "supervise"
  /\ \/ served # "none" /\ clean' = FALSE
     \/ pending /\ clean' = TRUE
  /\ subscribed' = FALSE /\ Goto("shutdown")
  /\ UNCHANGED <<vars, command, file, policy, keys, res, pending, served, shut, deadline>>

ShutdownCloses ==
  /\ pc = "shutdown" /\ (CloseListener \/ CloseInner)
  /\ UNCHANGED <<pc, command, file, policy, keys, res, super, exit>>

DeadlinePasses ==
  /\ pc \in {"shutdown", "await"} /\ ~deadline /\ deadline' = TRUE
  /\ UNCHANGED <<vars, pc, command, file, policy, keys, res, subscribed, pending, clean, served,
                 shut, exit>>

(* Shutdown returns when the listener is closed, or at its deadline with an  *)
(* error.                                                                   *)
ShutdownReturns ==
  /\ pc = "shutdown" /\ Goto("await")
  /\ \/ innerClosed /\ shut' = "nil"
     \/ deadline /\ shut' = "error"
     \/ innerClosed /\ shut' = "error"
  /\ UNCHANGED <<vars, command, file, policy, keys, res, subscribed, pending, clean, served, deadline>>

(* Fault: a ready result and the deadline are chosen between at random. *)
VerdictRandom ==
  /\ pc = "await"
  /\ \/ served # "none" /\ Exit(IF clean /\ served = "nil" /\ shut = "nil" THEN "success" ELSE "runtime")
     \/ deadline /\ Exit("runtime")
  /\ UNCHANGED <<vars, command, file, policy, keys, res, super>>

(* Fault: nothing but the result of Serve is waited for. *)
VerdictPatient ==
  /\ pc = "await"
  /\ served # "none" /\ Exit(IF clean /\ served = "nil" /\ shut = "nil" THEN "success" ELSE "runtime")
  /\ UNCHANGED <<vars, command, file, policy, keys, res, super>>

(* A result that is ready is preferred to the deadline. *)
Verdict ==
  /\ pc = "await"
  /\ \/ served # "none" /\ Exit(IF clean /\ served = "nil" /\ shut = "nil" THEN "success" ELSE "runtime")
     \/ deadline /\ served = "none" /\ Exit("runtime")
  /\ UNCHANGED <<vars, command, file, policy, keys, res, super>>

Exited == pc = "exited" /\ UNCHANGED pvars

-----------------------------------------------------------------------------
Preparing ==
  \/ PathIsSafe \/ LstatPolicy \/ OpenPolicy \/ FstatPolicy \/ ReadContents \/ RestatPolicy
  \/ ReadFails \/ DecodePolicy \/ ParsePolicy \/ ValidatePolicy \/ Prepare
  \/ (\E n \in Names : ConsumeSecret(n)) \/ SecretsResolved
  \/ NewUpstream \/ NewScheduler \/ NewHandler \/ CloseValidated
  \/ Subscribe \/ Listen \/ NewServer
Supervising == Triggered \/ ShutdownReturns \/ Verdict

PNext ==
  \/ Preparing \/ Supervising \/ DiskChanges \/ Signal
  \/ ServerRuns \/ ConnectionsClose \/ ServeReturns \/ ShutdownCloses \/ DeadlinePasses \/ Exited

(* The process runs and the accept loop goes on; nothing is assumed of      *)
(* clients, of Serve or of signals.                                         *)
PSpec ==
  /\ PInit /\ [][PNext]_pvars
  /\ WF_pvars(Preparing) /\ WF_pvars(Supervising) /\ WF_pvars(ShutdownCloses)
  /\ WF_pvars(Running /\ loop = "slot" /\ ServerRuns) /\ WF_pvars(Running /\ loop = "check" /\ ServerRuns)
  /\ WF_pvars(Running /\ innerClosed /\ loop = "accept" /\ ServerRuns)

-----------------------------------------------------------------------------
(* Whoever renames, rewrites or exposes files while it is read: the policy  *)
(* that is parsed comes from a file that was private while it was the file  *)
(* at the path, even if what is at the path when it is opened was not.      *)
(* The accepted policies are exactly those that the running gateway can     *)
(* live with: no product, sum or conversion of the validators wraps into an *)
(* accepted value, and none is refused that the modules' assumptions and    *)
(* the hard limits admit.                                                   *)
PolicyDecided ==
  [][/\ pc' = "parse" => seen.fd \in vetted
     /\ pc' = "accepted" => Sound(policy')
     /\ exit' = "policy" => ~Sound(policy')]_pvars

(* Once the secrets have been looked at, the only variables left for a      *)
(* child or a dump are those the system refused to unset, whatever else was *)
(* wrong with any of them; then nothing is ever built or started.  No copy  *)
(* outlives the preparation.                                                *)
SecretsTaken ==
  policy = Used /\ pc # "secrets" /\ exit # "killed" =>
    /\ \A n \in Names : env[n] # "unset" => n \in stuck
    /\ stuck # {} => exit = "usage" /\ \A x \in Parts : res[x] = "none"
    /\ pc \in {"newUpstream", "newScheduler", "newHandler"} \/ \A n \in Names : secrets[n] = "unset"

(* A process that ends by itself has forgotten nothing it opened, on any    *)
(* path: what is not the server's is closed, but for a scheduler that was   *)
(* told to close and took too long, and then no success is reported; the    *)
(* server has been told to shut down; signals have their default effect     *)
(* again; no secret is left in the environment or in a copy.                *)
NothingLeaked ==
  /\ SecretsTaken
  /\ pc = "exited" /\ exit # "killed" =>
       /\ \A x \in Parts : res[x] # "ready"
       /\ exit = "success" => \A x \in Parts : res[x] # "late"
       /\ res["scheduler"] = "server" => shut # "none"
       /\ ~subscribed

(* The exit code tells a clean shutdown from a failure: success is reported *)
(* if and only if a signal asked for it and both Serve and Shutdown ended   *)
(* well, also when Serve's result and the deadline become ready together.   *)
VerdictExact ==
  pc = "exited" /\ exit # "killed" /\ shut # "none" =>
    (exit = "success" <=> clean /\ served = "nil" /\ shut = "nil")

(* A signal is not swallowed: as time passes, a process that has caught one *)
(* ends, even if Serve never returns.                                       *)
TimePasses == WF_pvars(DeadlinePasses)
SignalEnds == TimePasses => (pending ~> pc = "exited")

(* Closing the listener ends the accept loop, whether it waits for a slot   *)
(* (no connection has to be closed for that), for a client, or holds a      *)
(* connection it has just accepted: it is no reason for the deadline to     *)
(* pass.                                                                    *)
ShutdownEndsAccept == closed ~> (loop = "returned" \/ deadline \/ exit = "killed")

(* A request to stop takes effect, in the supervisor and in the accept loop *)
(* it stops, whatever Serve, clients and further signals do.                *)
StopTakesEffect == SignalEnds /\ ShutdownEndsAccept
=============================================================================
