---------------------------- MODULE NodeLifecycle ----------------------------
(***************************************************************************)
(* The start, stop, delete and update docker commands (pkg/nodes,          *)
(* pkg/update), each a process of its own that talks to the shared Docker  *)
(* daemon and the shared data directory one call at a time, and the compose*)
(* files they leave there (pkg/docker/compose).  A process can be killed   *)
(* between any two calls, a Docker call can fail, a container can exit, a  *)
(* new image can be published, and other commands can run in between.      *)
(*                                                                         *)
(* All compose files live in the same directory, so Docker Compose takes   *)
(* them for one project: a container is identified by its service name     *)
(* alone, whichever file brought it up.                                    *)
(***************************************************************************)
EXTENDS Resolve

CONSTANTS
    Procs,         \* command processes
    Commands,      \* the commands users may give
    Bases,         \* the data directories --data-dir can choose between
    MaxCommands,   \* bound: commands given in one behaviour
    Startable,     \* networks `start` knows (createComposeFileForNetwork)
    PlainFirst,    \* networks whose file is first written without the extra
    OwnKey,        \* extras whose service name does not carry "-testnet"
    AlwaysUp,      \* extras Docker restarts when they exit (Restart: always)
    OwnDataOnly,   \* extras that do not mount the primary's data
    Reads,         \* container -> the others whose data its own file mounts
    Ports,         \* service -> host ports it publishes
    Seeded,        \* services that wait for an init container
    ImageOf,       \* service -> its image, None if it is not one of nodevin's
    Published,     \* images of which newer versions may be published
    Minting,       \* networks whose services share a secret nodevin makes
    Watchtower,    \* the watchtower service and its container
    Faults,        \* which of AllFaults can happen
    ComposeV2      \* docker compose rather than docker-compose

VARIABLES
    files,    \* <<base, name>> -> services of its compose file, {} if none
    dirs,     \* the data directories that exist
    def,      \* service -> the definition its container was created from
    status,   \* service -> absent, created (waits to be started), running
              \* or exited
    jwt,      \* <<base, network>> -> the secret in its file, or None
    outdated, \* images whose local version is behind the published one
    old,      \* services whose container is of a version before the local one
    pc,       \* process -> the call it makes next
    cmd,      \* process -> the command it runs
    node,     \* process -> the container `stop` resolved, or None
    ids,      \* process -> the containers its Docker calls name, by service
    stale,    \* process -> those of ids that exist no more under that id
    upSince,  \* process -> what others started since it last looked
    todo,     \* process -> the <<container, image>> update has yet to look at
    image,    \* process -> the image update is bringing up to date, or None
    secret,   \* process -> the secret start has read or made, or None
    begun     \* number of commands given

(* A command can be interrupted; a Docker, Compose or file system call can *)
(* fail on its own; `docker ps` can fail while containers run; an extra's  *)
(* directory can fail to be created; a secret that is on disk can fail to  *)
(* be read.                                                                *)
AllFaults == {"kill", "call", "ps", "mkdir", "read"}

vars == <<files, dirs, def, status, jwt, outdated, old,
          pc, cmd, node, ids, stale, upSince, todo, image, secret, begun>>
hub == <<outdated, old>>
held == <<todo, image, secret>>
host == <<files, dirs, def, status, jwt, hub>>
local == <<node, ids, stale, upSince, held>>

-----------------------------------------------------------------------------
(* Commands: [op, net, testnet, client, extra, cname, base, l1].  extra is *)
(* the consensus client, ord or cluster network started along, or None;    *)
(* client and cname are the --execution-client and --container-name values;*)
(* l1 is the clients of nodevin's own Ethereum node a layer-2 node attaches*)
(* to, {} with an external one.                                            *)

Ops == {"start", "stop", "delete", "stopAll", "deleteAll", "update"}

Flags(c) == [testnet |-> c.testnet, client |-> c.client]

Services == AllContainerNames \cup {Watchtower}
Dirs == Bases \X Names
Images == {ImageOf[s] : s \in Services} \ {None}
Secrets == Procs \X (0..MaxCommands)
Definitions == [svc : Services, name : Names \cup {Watchtower},
                own : Dirs \cup {None}, mounts : SUBSET Dirs,
                watch : SUBSET Services, restart : BOOLEAN,
                secret : Secrets \cup {None}, l1 : SUBSET Names]
NoDef == [svc |-> Watchtower, name |-> Watchtower, own |-> None, mounts |-> {},
          watch |-> {}, restart |-> FALSE, secret |-> None, l1 |-> {}]

(* Mutant: the data directory is named after the registry key.             *)
MainDefKeyed(c, k) ==
    LET dir == <<c.base, Registered(c.net, c.testnet)>>
    IN  [svc |-> StartNode(c),
         name |-> IF c.cname = None THEN StartNode(c) ELSE c.cname,
         own |-> dir, mounts |-> {dir} \cup {c.base} \X Reads[StartNode(c)],
         watch |-> {}, restart |-> FALSE, secret |-> k, l1 |-> {}]

(* The primary service, given the secret k of its stack.  It is the one    *)
(* wired to the L1 unless an extra is.                                     *)
MainDef(c, k) ==
    LET dir == <<c.base, StartNode(c)>>
    IN  [svc |-> StartNode(c),
         name |-> IF c.cname = None THEN StartNode(c) ELSE c.cname,
         own |-> dir, mounts |-> {dir} \cup {c.base} \X Reads[StartNode(c)],
         watch |-> {}, restart |-> FALSE, secret |-> k,
         l1 |-> IF c.extra = None THEN c.l1 ELSE {}]

(* Mutant: no extra's service name carries "-testnet".                     *)
ExtraDefUnsuffixed(c, k) ==
    LET name == ContainerName[Registered(c.extra, c.testnet)]
        dir  == <<c.base, name>>
    IN  [svc |-> ContainerName[c.extra], name |-> name, own |-> dir,
         mounts |-> {dir, <<c.base, StartNode(c)>>}, watch |-> {},
         restart |-> FALSE, secret |-> k, l1 |-> c.l1]

(* Most extra services mount the primary's data besides their own.         *)
ExtraDef(c, k) ==
    LET name == ContainerName[Registered(c.extra, c.testnet)]
        dir  == <<c.base, name>>
    IN  [svc |-> IF c.extra \in OwnKey THEN ContainerName[c.extra] ELSE name,
         name |-> name, own |-> dir,
         mounts |-> {dir} \cup (IF c.extra \in OwnDataOnly THEN {}
                               ELSE {<<c.base, StartNode(c)>>}),
         watch |-> {}, restart |-> c.extra \in AlwaysUp, secret |-> k, l1 |-> c.l1]

(* Watchtower is told the service names, and is one service for all files. *)
WithWatchtower(D) == D \cup {[NoDef EXCEPT !.watch = {d.svc : d \in D}]}

Requested(c, k) ==
    {MainDef(c, k)} \cup (IF c.extra = None THEN {} ELSE {ExtraDef(c, k)})

PlainStack(c, k) == WithWatchtower({MainDef(c, k)})

(* Mutant: the watch list is made before the extra services are added.     *)
FullStackEarly(c, k) == Requested(c, k) \cup PlainStack(c, k)

FullStack(c, k) == WithWatchtower(Requested(c, k))

ComposeFile(p) ==
    <<cmd[p].base, IF cmd[p].op = "start" THEN StartNode(cmd[p]) ELSE node[p]>>

DirsOf(D) == {d.own : d \in D} \ {None}

-----------------------------------------------------------------------------
(* What Docker shows.                                                      *)

Exists(s) == status[s] # "absent"
Running == {s \in Services : status[s] = "running"}
RunningNames == {def[s].name : s \in Running}

(* The answers `docker ps` may give.                                       *)
PsAnswers ==
    {[ok |-> TRUE, names |-> RunningNames]} \cup
    (IF "ps" \in Faults THEN {[ok |-> FALSE, names |-> {}]} ELSE {})

(* hasFootprint, in the data directory the command uses.                   *)
Footprint(base) ==
    {c \in Names : <<base, c>> \in dirs \/ files[<<base, c>>] # {}}

(* Whether `compose ps -q` prints anything for a file with services D:     *)
(* version 1 lists the file's containers in any state, version 2 whatever  *)
(* runs in the project.  A created service may have its init container     *)
(* running or not.                                                         *)
PsQuietAnswers(D) ==
    IF ComposeV2
    THEN IF Running # {} THEN {TRUE}
         ELSE IF \E s \in Services : status[s] = "created" THEN BOOLEAN
         ELSE {FALSE}
    ELSE {\E d \in D : Exists(d.svc)}

(* The containers of S are stopped.                                        *)
AfterStop(S) ==
    [s \in Services |-> IF s \in S \cap Running THEN "exited" ELSE status[s]]

PortsFree(s) == \A t \in Running \ {s} : Ports[s] \cap Ports[t] = {}

-----------------------------------------------------------------------------
(* Where a process can be: between two calls, or through with its command. *)
Labels == {"idle", "done", "failed", "pull", "create", "mint", "plain", "pullExtra",
           "write", "up", "starting", "cleanup", "resolve", "ps", "down", "target",
           "guard", "remove", "list", "dockerStop", "dockerRm", "images", "next",
           "refresh"}

TypeOK ==
    /\ files \in [Bases \X Names -> SUBSET Definitions]
    /\ dirs \in SUBSET Dirs
    /\ def \in [Services -> Definitions]
    /\ status \in [Services -> {"absent", "created", "running", "exited"}]
    /\ jwt \in [Bases \X Minting -> Secrets \cup {None}]
    /\ outdated \in SUBSET Images
    /\ old \in SUBSET Services
    /\ pc \in [Procs -> Labels]
    /\ cmd \in [Procs -> Commands]
    /\ node \in [Procs -> Names \cup {None}]
    /\ ids \in [Procs -> SUBSET Services]
    /\ stale \in [Procs -> SUBSET Services]
    /\ upSince \in [Procs -> SUBSET Services]
    /\ todo \in [Procs -> SUBSET ((Names \cup {Watchtower}) \X Images)]
    /\ image \in [Procs -> Images \cup {None}]
    /\ secret \in [Procs -> Secrets \cup {None}]
    /\ begun \in 0..MaxCommands

Init ==
    /\ files = [f \in Bases \X Names |-> {}]
    /\ dirs = {}
    /\ def = [s \in Services |-> NoDef]
    /\ status = [s \in Services |-> "absent"]
    /\ jwt = [f \in Bases \X Minting |-> None]
    /\ outdated = {}
    /\ old = {}
    /\ pc = [p \in Procs |-> "idle"]
    /\ cmd = [p \in Procs |-> CHOOSE c \in Commands : TRUE]
    /\ node = [p \in Procs |-> None]
    /\ ids = [p \in Procs |-> {}]
    /\ stale = [p \in Procs |-> {}]
    /\ upSince = [p \in Procs |-> {}]
    /\ todo = [p \in Procs |-> {}]
    /\ image = [p \in Procs |-> None]
    /\ secret = [p \in Procs |-> None]
    /\ begun = 0

Resting == {"idle", "done", "failed"}

(* The call p makes fails on its own and ends the command.                 *)
CallFails(p) == "call" \in Faults /\ pc' = [pc EXCEPT ![p] = "failed"]

Goto(p, label) == pc' = [pc EXCEPT ![p] = label]
At(p, label) == pc[p] = label

(* The containers of S are removed or replaced: listed ids go stale.       *)
Gone(S) == stale' = [q \in Procs |-> stale[q] \cup (ids[q] \cap S)]

(* p looks at what runs: what was started before does not count any more.  *)
Looks(p) == upSince' = [upSince EXCEPT ![p] = {}]

(* p starts the container of s, which every other process may now miss.    *)
Starts(p, s) ==
    upSince' = [q \in Procs |-> IF q = p THEN upSince[q] ELSE upSince[q] \cup {s}]

-----------------------------------------------------------------------------
(* A user gives a command.                                                 *)
Begin(p) ==
    /\ pc[p] \in Resting
    /\ begun < MaxCommands
    /\ \E c \in Commands :
         /\ cmd' = [cmd EXCEPT ![p] = c]
         /\ Goto(p, CASE c.op = "start" -> "pull"
                      [] c.op = "stop" -> "resolve"
                      [] c.op = "delete" -> "target"
                      [] c.op \in {"stopAll", "deleteAll"} -> "list"
                      [] c.op = "update" -> "images")
    /\ begun' = begun + 1
    /\ node' = [node EXCEPT ![p] = None]
    /\ ids' = [ids EXCEPT ![p] = {}]
    /\ stale' = [stale EXCEPT ![p] = {}]
    /\ todo' = [todo EXCEPT ![p] = {}]
    /\ image' = [image EXCEPT ![p] = None]
    /\ secret' = [secret EXCEPT ![p] = None]
    /\ Looks(p)
    /\ UNCHANGED host

(* The process is interrupted; what it did stays.                          *)
Kill(p) ==
    /\ "kill" \in Faults
    /\ pc[p] \notin Resting
    /\ Goto(p, "failed")
    /\ UNCHANGED <<host, cmd, local, begun>>

-----------------------------------------------------------------------------
(* start                                                                   *)

(* ResolveL1Endpoints: the clients of the L1 to attach to must run.        *)
L1Runs(c, ps) == c.l1 \subseteq ps.names

(* The first check for the L1, then docker.PullImage for the primary       *)
(* service, which never replaces an image that is there.                   *)
Pull(p) ==
    /\ At(p, "pull")
    /\ \/ \E ps \in PsAnswers :
            Goto(p, IF L1Runs(cmd[p], ps) THEN "create" ELSE "failed")
       \/ CallFails(p)
    /\ UNCHANGED <<host, cmd, local, begun>>

EthereumMembers(n) ==
    UNION {CandidateContainerNames(m) : m \in {n} \cup ComponentNetworks(n)}

(* Mutant: only the members of the chain about to be started are looked at.*)
ConflictsOfOneChain(c, names) ==
    {x \in names \cap EthereumMembers(Registered(c.net, c.testnet)) :
        /\ x # StartNode(c)
        /\ c.extra # None => x # ContainerName[Registered(c.extra, c.testnet)]}

(* Mutant: only execution clients are looked at.                           *)
ConflictingClients(c, names) ==
    {x \in names : /\ \E n \in {c.net, TestnetOf[c.net]} \ {None} :
                         x \in CandidateContainerNames(n)
                   /\ x # StartNode(c)}

(* The running members of either Ethereum stack the new stack has not.     *)
ConflictingContainers(c, names) ==
    {x \in names :
        /\ \E n \in {c.net, TestnetOf[c.net]} \ {None} : x \in EthereumMembers(n)
        /\ x # StartNode(c)
        /\ c.extra # None => x # ContainerName[Registered(c.extra, c.testnet)]}

(* Where createComposeFileForNetwork goes once it has nothing to refuse.   *)
FirstWrite(c) ==
    IF c.extra = None THEN "write"
    ELSE IF c.net \in PlainFirst THEN "plain" ELSE "pullExtra"

Mints(c) == Registered(c.net, c.testnet) \in Minting

(* jwt.hex, in a directory named after the network and not the container.  *)
JwtFile(c) == <<c.base, Registered(c.net, c.testnet)>>

(* Mutant: a new secret is made each time.                                 *)
SecretForgotten(c) == None

(* The secret there is, if the network has one.                            *)
SecretKept(c) == IF Mints(c) THEN jwt[JwtFile(c)] ELSE None

(* BaseJWTSecret takes a file it cannot read, for whatever reason, for one *)
(* that is not there.                                                      *)
SecretsRead(c) ==
    {SecretKept(c)} \cup (IF Mints(c) /\ "read" \in Faults THEN {None} ELSE {})

(* createComposeFileForNetwork up to the first file or pull: the second    *)
(* check for the L1, the secret, the conflicts.  A client it does not know,*)
(* an unsupported network, an L1 that does not run and a conflict end it.  *)
Create(p) ==
    LET c == cmd[p] IN
    /\ At(p, "create")
    /\ \E ps \in PsAnswers : \E k \in SecretsRead(c) :
         /\ Goto(p, IF \/ c.net \notin Startable
                       \/ ~L1Runs(c, ps)
                       \/ Selectable(c.net) /\ ConflictingContainers(c, ps.names) # {}
                    THEN "failed"
                    ELSE IF Mints(c) /\ k = None THEN "mint"
                    ELSE FirstWrite(c))
         /\ secret' = [secret EXCEPT ![p] = k]
    /\ UNCHANGED <<host, cmd, node, ids, stale, upSince, todo, image, begun>>

(* Mutant: a file that is there is never overwritten.                      *)
MintOnlyNew(p) ==
    LET c == cmd[p] IN
    /\ At(p, "mint")
    /\ jwt' = IF SecretKept(c) = None THEN [jwt EXCEPT ![JwtFile(c)] = <<p, begun>>] ELSE jwt
    /\ secret' = [secret EXCEPT ![p] = <<p, begun>>]
    /\ Goto(p, FirstWrite(c))
    /\ UNCHANGED <<files, dirs, def, status, hub, cmd, node, ids, stale, upSince,
                   todo, image, begun>>

(* BaseJWTSecret without a secret: one never seen before, named after the  *)
(* command that makes it, replaces what the file may have had.  A write    *)
(* that fails truncates the file.                                          *)
Mint(p) ==
    LET c == cmd[p] IN
    /\ At(p, "mint")
    /\ \/ /\ jwt' = [jwt EXCEPT ![JwtFile(c)] = <<p, begun>>]
          /\ secret' = [secret EXCEPT ![p] = <<p, begun>>]
          /\ Goto(p, FirstWrite(c))
       \/ /\ jwt' \in {jwt, [jwt EXCEPT ![JwtFile(c)] = None]}
          /\ CallFails(p)
          /\ UNCHANGED secret
    /\ UNCHANGED <<files, dirs, def, status, hub, cmd, node, ids, stale, upSince,
                   todo, image, begun>>

(* CreateComposeFile: directories, then the file.                          *)
WriteFile(p, D) ==
    /\ files' = [files EXCEPT ![ComposeFile(p)] = D]
    /\ dirs' = dirs \cup DirsOf(D)
    /\ UNCHANGED <<def, status, jwt, hub, cmd, local, begun>>

(* The primary's directory or the file cannot be written.                  *)
WriteFails(p, D) ==
    /\ dirs' \in {dirs, dirs \cup {MainDef(cmd[p], secret[p]).own}, dirs \cup DirsOf(D)}
    /\ CallFails(p)
    /\ UNCHANGED <<files, def, status, jwt, hub, cmd, local, begun>>

WritePlain(p) ==
    LET D == PlainStack(cmd[p], secret[p]) IN
    /\ At(p, "plain")
    /\ \/ WriteFile(p, D) /\ Goto(p, "pullExtra")
       \/ WriteFails(p, D)

PullExtra(p) ==
    /\ At(p, "pullExtra")
    /\ Goto(p, "write") \/ CallFails(p)
    /\ UNCHANGED <<host, cmd, local, begun>>

(* An extra whose directory cannot be created is left out with a log line. *)
Write(p) ==
    LET D == FullStack(cmd[p], secret[p]) IN
    /\ At(p, "write")
    /\ \/ WriteFile(p, D) /\ Goto(p, "up")
       \/ /\ "mkdir" \in Faults /\ cmd[p].extra # None
          /\ WriteFile(p, PlainStack(cmd[p], secret[p])) /\ Goto(p, "up")
       \/ WriteFails(p, D)

(* compose up, first part: every service of the file gets a container made *)
(* from its definition and the local image, replacing one made from others;*)
(* one that does not run waits to be started.  Only some may have it when  *)
(* `up` fails.  A container name taken by another service's makes it fail. *)
(* A start then ends; an update goes on with the next container.           *)
Creatable(d) == \A s \in Services \ {d.svc} : Exists(s) => def[s].name # d.name

UpEnds(p, label) == Goto(p, IF cmd[p].op = "update" THEN "next" ELSE label)

UpFails(p) == "call" \in Faults /\ UpEnds(p, "failed")

UpCreate(p) ==
    LET F == files[ComposeFile(p)] IN
    /\ At(p, "up")
    /\ \E T \in SUBSET F :
         LET fresh == {d \in T : ~Exists(d.svc) \/ def[d.svc] # d \/ d.svc \in old}
             new   == {d.svc : d \in fresh}
         IN /\ \A d \in fresh : Creatable(d)
            /\ def' = [s \in Services |->
                         IF s \in new THEN TheOne({d \in fresh : d.svc = s}) ELSE def[s]]
            /\ status' = [s \in Services |->
                            IF s \in {d.svc : d \in T} /\ (s \in new \/ status[s] = "exited")
                            THEN "created" ELSE status[s]]
            /\ old' = old \ new
            /\ ids' = [ids EXCEPT ![p] = {d.svc : d \in T}]
            /\ stale' = [q \in Procs |-> IF q = p THEN {} ELSE stale[q] \cup (ids[q] \cap new)]
            /\ \/ T = F /\ F # {} /\ Goto(p, "starting")
               \/ T # F /\ UpFails(p)
               \/ T # F /\ (\E d \in F \ T : ~Creatable(d)) /\ UpEnds(p, "failed")
               \/ F = {} /\ UpEnds(p, "failed")
    /\ UNCHANGED <<files, dirs, jwt, outdated, cmd, node, upSince, held, begun>>

(* compose up, second part: one container at a time is started, once its   *)
(* init container is through and if its ports are free.  Docker makes the  *)
(* directories it mounts.                                                  *)
UpStart(p) ==
    /\ At(p, "starting")
    /\ \E s \in ids[p] \ stale[p] :
         /\ status[s] = "created"
         /\ PortsFree(s)
         /\ status' = [status EXCEPT ![s] = "running"]
         /\ dirs' = dirs \cup def[s].mounts
         /\ Starts(p, s)
    /\ UNCHANGED <<files, def, jwt, hub, pc, cmd, node, ids, stale, held, begun>>

(* Every container has been started; one that exited again does not matter.*)
UpReturns(p) ==
    /\ At(p, "starting")
    /\ \/ /\ stale[p] = {}
          /\ \A s \in ids[p] : status[s] \in {"running", "exited"}
          /\ UpEnds(p, "cleanup")
       \/ /\ stale[p] # {} \/ \E s \in ids[p] : status[s] = "created" /\ ~PortsFree(s)
          /\ UpEnds(p, "failed")
       \/ UpFails(p)
    /\ UNCHANGED <<host, cmd, local, begun>>

(* RemoveInitContainersAndVolumes: every stack's init containers go, and   *)
(* an up that has not yet seen one of them complete cannot start its       *)
(* service any more.  Errors are only logged.                              *)
Cleanup(p) ==
    /\ At(p, "cleanup")
    /\ \E T \in SUBSET {s \in Seeded : status[s] = "created"} :
         stale' = [q \in Procs |->
                     IF At(q, "starting") THEN stale[q] \cup (ids[q] \cap T) ELSE stale[q]]
    /\ Goto(p, "done")
    /\ UNCHANGED <<host, cmd, node, ids, upSince, held, begun>>

-----------------------------------------------------------------------------
(* stop, also called by delete, which ignores its error; update takes its  *)
(* last call, compose down, to go on to the pull                           *)

StopReturns(p, label) ==
    Goto(p, CASE cmd[p].op = "delete" -> "guard"
              [] cmd[p].op = "update" -> IF label = "done" THEN "refresh" ELSE "next"
              [] OTHER -> label)

StopFails(p) == "call" \in Faults /\ StopReturns(p, "failed")

(* stopNode up to the compose file.  Several clients on disk with none     *)
(* running count as nothing to stop.                                       *)
StopResolve(p) ==
    LET c == cmd[p] IN
    /\ At(p, "resolve")
    /\ \E ps \in PsAnswers :
         LET r  == ResolveContainerName(c.net, Flags(c), ps, Footprint(c.base))
             to == OnChain(TheOne(r.names), c.testnet)
             owned == InStack(EffectiveNetwork(c.net, c.testnet))
         IN \/ /\ owned \/ r.kind \in {"refused", "ambiguousRunning"}
               /\ StopReturns(p, "failed") /\ UNCHANGED node
            \/ /\ ~owned /\ r.kind = "ambiguousOnDisk"
               /\ StopReturns(p, "done") /\ UNCHANGED node
            \/ /\ ~owned /\ r.kind = "found"
               /\ node' = [node EXCEPT ![p] = to]
               /\ IF files[<<c.base, to>>] = {}
                  THEN StopReturns(p, "failed") ELSE Goto(p, "ps")
    /\ Looks(p)
    /\ UNCHANGED <<host, cmd, ids, stale, held, begun>>

(* compose ps -q: with no output there is nothing to stop.                 *)
StopPs(p) ==
    LET F == files[ComposeFile(p)] IN
    /\ At(p, "ps")
    /\ \/ /\ F # {}
          /\ \E any \in PsQuietAnswers(F) :
               IF any THEN Goto(p, "down") ELSE StopReturns(p, "done")
       \/ F = {} /\ StopReturns(p, "failed")
       \/ StopFails(p)
    /\ UNCHANGED <<host, cmd, local, begun>>

(* Mutant: the error of compose down is not looked at.                     *)
StopDownUnchecked(p) ==
    LET S == {s \in {d.svc : d \in files[ComposeFile(p)]} : Exists(s)} IN
    /\ At(p, "down")
    /\ \E T \in SUBSET S :
         /\ status' = [s \in Services |-> IF s \in T THEN "absent" ELSE AfterStop(T)[s]]
         /\ Gone(T)
    /\ StopReturns(p, "done")
    /\ UNCHANGED <<files, dirs, def, jwt, hub, cmd, node, ids, upSince, held, begun>>

(* compose down stops the containers of the file's services, then removes  *)
(* them; either half can fail part of the way.                             *)
StopDown(p) ==
    LET F == files[ComposeFile(p)]
        S == {s \in {d.svc : d \in F} : Exists(s)}
    IN
    /\ At(p, "down")
    /\ \E T \in SUBSET S :
         \/ /\ status' = AfterStop(T)
            /\ StopFails(p)
            /\ UNCHANGED stale
         \/ /\ status' = [s \in Services |-> IF s \in T THEN "absent" ELSE AfterStop(S)[s]]
            /\ Gone(T)
            /\ \/ T = S /\ F # {} /\ StopReturns(p, "done")
               \/ F = {} /\ StopReturns(p, "failed")
               \/ StopFails(p)
    /\ UNCHANGED <<files, dirs, def, jwt, hub, cmd, node, ids, upSince, held, begun>>

-----------------------------------------------------------------------------
(* stop all and the first half of delete all                               *)

AllReturns(p, label) == Goto(p, IF cmd[p].op = "deleteAll" THEN "guard" ELSE label)

AllFails(p) == "call" \in Faults /\ AllReturns(p, "failed")

(* Mutant: the alternates are forgotten.                                   *)
StopAllNamesDefault == {ContainerName[n] : n \in Networks} \cup {Watchtower}

StopAllNames == AllContainerNames \cup {Watchtower}

(* docker ps: the ids of the containers with a registered name.            *)
StopAllList(p) ==
    /\ At(p, "list")
    /\ \E ps \in PsAnswers :
         LET listed == {s \in Running : ps.ok /\ def[s].name \in StopAllNames}
         IN /\ ids' = [ids EXCEPT ![p] = listed]
            /\ IF ~ps.ok THEN AllReturns(p, "failed")
               ELSE IF listed = {} THEN AllReturns(p, "done")
               ELSE Goto(p, "dockerStop")
    /\ stale' = [stale EXCEPT ![p] = {}]
    /\ Looks(p)
    /\ UNCHANGED <<host, cmd, node, held, begun>>

(* docker stop stops what it still finds; a stale id makes it fail.        *)
StopAllStop(p) ==
    LET valid == ids[p] \ stale[p] IN
    /\ At(p, "dockerStop")
    /\ \E T \in SUBSET valid :
         /\ status' = AfterStop(T)
         /\ \/ T = ids[p] /\ Goto(p, "dockerRm")
            \/ T = valid /\ T # ids[p] /\ AllReturns(p, "failed")
            \/ AllFails(p)
    /\ UNCHANGED <<files, dirs, def, jwt, hub, cmd, local, begun>>

(* docker rm removes those that do not run.                                *)
StopAllRemove(p) ==
    LET valid == {s \in ids[p] \ stale[p] : status[s] # "running"} IN
    /\ At(p, "dockerRm")
    /\ \E T \in SUBSET valid :
         /\ status' = [s \in Services |-> IF s \in T THEN "absent" ELSE status[s]]
         /\ Gone(T)
         /\ \/ T = ids[p] /\ AllReturns(p, "done")
            \/ T = valid /\ T # ids[p] /\ AllReturns(p, "failed")
            \/ AllFails(p)
    /\ UNCHANGED <<files, dirs, def, jwt, hub, cmd, node, ids, upSince, held, begun>>

-----------------------------------------------------------------------------
(* delete and the second half of delete all                                *)

DeleteTargets(c) ==
    {OnChain(x, c.testnet) : x \in ExplicitContainerName(c.net, Flags(c)).names}

(* The names that must not run, and the directories that go.               *)
Guarded(c) == IF c.op = "deleteAll" THEN AllContainerNames ELSE DeleteTargets(c)
Doomed(c) == {c.base} \X (IF c.op = "deleteAll" THEN Names ELSE DeleteTargets(c))

(* deleteNetworkDirectory up to the stop: the client must be named and its *)
(* directory exist; a stack component is only checked, not stopped.        *)
DeleteTarget(p) ==
    LET c == cmd[p] IN
    /\ At(p, "target")
    /\ Goto(p, IF DeleteTargets(c) = {} \/ Doomed(c) \cap dirs = {} THEN "failed"
               ELSE IF InStack(EffectiveNetwork(c.net, c.testnet)) THEN "guard"
               ELSE "resolve")
    /\ UNCHANGED <<host, cmd, local, begun>>

(* Mutant: the containers are not looked at again after the stop.          *)
GuardAnswersUnchecked(c) == {TRUE}

(* ensureNotRunning: refuses while a guarded container runs, but takes a   *)
(* failing docker ps for nothing running.                                  *)
GuardAnswers(c) == {~ps.ok \/ Guarded(c) \cap ps.names = {} : ps \in PsAnswers}

(* Mutant: the stop is tried again until nothing runs.                     *)
GuardRetries(p) ==
    /\ At(p, "guard")
    /\ \E free \in GuardAnswers(cmd[p]) :
         Goto(p, IF free THEN "remove" ELSE IF cmd[p].op = "delete" THEN "resolve" ELSE "list")
    /\ Looks(p)
    /\ UNCHANGED <<host, cmd, node, ids, stale, held, begun>>

Guard(p) ==
    /\ At(p, "guard")
    /\ \E free \in GuardAnswers(cmd[p]) : Goto(p, IF free THEN "remove" ELSE "failed")
    /\ Looks(p)
    /\ UNCHANGED <<host, cmd, node, ids, stale, held, begun>>

(* ForceRemoveAll, and for a selectable network its compose file, which may*)
(* also stay: that error is not looked at.  With `delete all` the whole    *)
(* base goes, compose files and secrets included, or any part of it.       *)
Remove(p) ==
    LET c       == cmd[p]
        all     == c.op = "deleteAll"
        owned   == IF all \/ Selectable(c.net) THEN Doomed(c) ELSE {}
        written == {f \in Doomed(c) : all /\ files[f] # {}}
        secrets == IF all THEN {c.base} \X Minting ELSE {}
        FilesWithout(S) == [f \in Bases \X Names |-> IF f \in S THEN {} ELSE files[f]]
        JwtWithout(S) == [f \in Bases \X Minting |-> IF f \in S THEN None ELSE jwt[f]]
    IN
    /\ At(p, "remove")
    /\ \/ /\ dirs' = dirs \ Doomed(c)
          /\ \/ files' = FilesWithout(owned)
             \/ ~all /\ "call" \in Faults /\ files' = files
          /\ jwt' = JwtWithout(secrets)
          /\ Goto(p, "done")
       \/ /\ \E S \in SUBSET (Doomed(c) \cap dirs) : dirs' = dirs \ S
          /\ \E S \in SUBSET written : files' = FilesWithout(S)
          /\ \E S \in SUBSET secrets : jwt' = JwtWithout(S)
          /\ CallFails(p)
    /\ UNCHANGED <<def, status, hub, cmd, local, begun>>

-----------------------------------------------------------------------------
(* update docker                                                           *)

(* The containers the Docker API lists, running or not, by name and image. *)
(* Docker shows one whose image has been replaced under a bare id, so it   *)
(* is not taken for one of nodevin's.                                      *)
UpdateList(p) ==
    LET listed == {s \in Services \ old : Exists(s) /\ ImageOf[s] # None} IN
    /\ At(p, "images")
    /\ \/ /\ todo' = [todo EXCEPT ![p] = {<<def[s].name, ImageOf[s]>> : s \in listed}]
          /\ Goto(p, "next")
       \/ CallFails(p) /\ UNCHANGED todo
    /\ UNCHANGED <<host, cmd, node, ids, stale, upSince, image, secret, begun>>

(* The name of the compose file that manages container x, or None.         *)
UpdateFile(c, x, ps) ==
    FindComposeFileForContainer(x, Flags(c), ps, Footprint(c.base),
                                {n \in Names : files[<<c.base, n>>] # {}})

(* The next container: passed over if its image is up to date, if that     *)
(* cannot be found out, or if no compose file manages it.                  *)
UpdateNext(p) ==
    /\ At(p, "next")
    /\ \/ todo[p] = {} /\ Goto(p, "done") /\ UNCHANGED <<node, todo, image>>
       \/ \E x \in todo[p] :
            /\ todo' = [todo EXCEPT ![p] = @ \ {x}]
            /\ \/ /\ x[2] \notin outdated \/ "call" \in Faults
                  /\ UNCHANGED <<pc, node, image>>
               \/ /\ x[2] \in outdated
                  /\ \E ps \in PsAnswers :
                       LET file == UpdateFile(cmd[p], x[1], ps) IN
                       IF file = None THEN UNCHANGED <<pc, node, image>>
                       ELSE /\ node' = [node EXCEPT ![p] = file]
                            /\ image' = [image EXCEPT ![p] = x[2]]
                            /\ Goto(p, "down")
    /\ UNCHANGED <<host, cmd, ids, stale, upSince, secret, begun>>

(* Mutant: the node is not brought up again.                               *)
UpdatePullEnds(p) ==
    /\ At(p, "refresh")
    /\ outdated' = outdated \ {image[p]}
    /\ Goto(p, "next")
    /\ UNCHANGED <<files, dirs, def, status, jwt, old, cmd, local, begun>>

(* docker pull: the containers of the image that are still there are now   *)
(* of an old version.  If it fails the node stays down.                    *)
UpdatePull(p) ==
    /\ At(p, "refresh")
    /\ \/ /\ outdated' = outdated \ {image[p]}
          /\ old' = IF image[p] \in outdated
                    THEN old \cup {s \in Services : Exists(s) /\ ImageOf[s] = image[p]}
                    ELSE old
          /\ Goto(p, "up")
       \/ "call" \in Faults /\ Goto(p, "next") /\ UNCHANGED hub
    /\ UNCHANGED <<files, dirs, def, status, jwt, cmd, local, begun>>

-----------------------------------------------------------------------------
(* A container's process ends by itself and no restart policy keeps it up. *)
ContainerExits ==
    /\ \E s \in Running : /\ ~def[s].restart
                          /\ status' = [status EXCEPT ![s] = "exited"]
    /\ UNCHANGED <<files, dirs, def, jwt, hub, pc, cmd, local, begun>>

(* A newer version of an image that containers were made from is published.*)
Publish ==
    /\ \E i \in Published \ outdated :
         /\ \E s \in Services : Exists(s) /\ ImageOf[s] = i
         /\ outdated' = outdated \cup {i}
    /\ UNCHANGED <<files, dirs, def, status, jwt, old, pc, cmd, local, begun>>

Step(p) ==
    \/ Pull(p) \/ Create(p) \/ Mint(p) \/ WritePlain(p) \/ PullExtra(p) \/ Write(p)
    \/ UpCreate(p) \/ UpStart(p) \/ UpReturns(p) \/ Cleanup(p)
    \/ StopResolve(p) \/ StopPs(p) \/ StopDown(p)
    \/ StopAllList(p) \/ StopAllStop(p) \/ StopAllRemove(p)
    \/ DeleteTarget(p) \/ Guard(p) \/ Remove(p)
    \/ UpdateList(p) \/ UpdateNext(p) \/ UpdatePull(p)

Next == (\E p \in Procs : Begin(p) \/ Kill(p) \/ Step(p)) \/ ContainerExits \/ Publish

Spec == Init /\ [][Next]_vars

(* A command that is not interrupted makes its next call.                  *)
FairSpec == Spec /\ \A p \in Procs : WF_vars(Step(p))

(* The clients `start` accepts are the ones the registry knows.            *)
ASSUME LifecycleAssumption ==
    /\ Commands # {}
    /\ Commands \subseteq [op : Ops, net : Networks, testnet : BOOLEAN,
                           client : Names \cup {None}, extra : Networks \cup {None},
                           cname : Names \cup {None}, base : Bases,
                           l1 : SUBSET Names]
    /\ \A c \in Commands : c.op = "start" => StartNode(c) \in AllContainerNames
    /\ Reads \in [Names -> SUBSET Names]
    /\ Ports \in [Services -> SUBSET Nat]
    /\ Watchtower \notin Names
    /\ None \notin Dirs \cup Secrets \cup {Watchtower}
    /\ DOMAIN ImageOf = Services
    /\ Published \subseteq Images
    /\ MaxCommands \in Nat
    /\ Faults \subseteq AllFaults
    /\ ComposeV2 \in BOOLEAN

(* The registry and the compose builders put stacks together from networks *)
(* that have no container in common, and give a testnet's stack the testnet*)
(* twins of the mainnet stack's members.  The only network with clients to *)
(* choose between is Ethereum, on its two chains.  What the commands say is*)
(* what `start` accepts (SelectedExecutionClient) and adds to a network.   *)
ASSUME StackAssumption ==
    /\ \A m, n \in Networks :
          m # n => CandidateContainerNames(m) \cap CandidateContainerNames(n) = {}
    /\ \A n \in Networks : InStack(n) =>
          (IsTestnet(ContainerName[n]) <=> IsTestnet(ContainerName[PartOf[n]]))
    /\ \A n \in Networks : \A t \in BOOLEAN :
          /\ Selectable(Registered(n, t)) <=> Selectable(n)
          /\ PartOf[Registered(n, t)] = IF InStack(n) THEN Registered(PartOf[n], t) ELSE None
    /\ \A n \in Startable \cap Networks :
          /\ ~InStack(n)
          /\ Selectable(n) => {m \in Networks : Selectable(m)} \subseteq {n, TestnetOf[n]}
    /\ \A c \in Commands : c.op = "start" /\ c.net \in Startable =>
          /\ Selectable(c.net) =>
                StartNode(c) \in CandidateContainerNames(Registered(c.net, c.testnet))
          /\ c.extra # None =>
                /\ ~Selectable(c.extra)
                /\ Selectable(c.net) => c.extra \notin OwnDataOnly
                /\ PartOf[c.extra] = c.net \/ (~InStack(c.extra) /\ ~Selectable(c.net))
                /\ StartNode(c) \notin {ContainerName[c.extra],
                                       ContainerName[Registered(c.extra, c.testnet)]}

-----------------------------------------------------------------------------
(* Safety                                                                  *)

Uses(s, d) == def[s].own = d

(* The data of a running node is only removed if another command started   *)
(* it after the deletion had looked: a failed, partial or misdirected stop *)
(* never leads there (delete.go:93-100, :128-134).                         *)
DeleteSafe ==
    [][\A d \in dirs \ dirs' : \A s \in Running : Uses(s, d) =>
          \E p \in Procs : At(p, "remove") /\ s \in upSince[p]]_vars

(* "It refuses to remove the data of a node that is still running."        *)
(* (delete.go:61), whoever started the node and when.                      *)
RunningDataStays == [][\A d \in dirs \ dirs' : \A s \in Running : ~Uses(s, d)]_vars

(* So the data directories are a DataStore: nodes run on directories that  *)
(* exist and no step removes one in use, through every command, failure and*)
(* interruption (compose.go:299-309, delete.go:92-124).                    *)
Store ==
    INSTANCE DataStore WITH
        Directories <- Dirs, data <- dirs,
        used <- {def[s].own : s \in Running} \ {None}

DataIsKept == Store!Spec

(* What a stop that succeeded tells its user does not run any more: the    *)
(* container it resolved, every client of the network when it found none   *)
(* running, or every nodevin container.                                    *)
StoppedNames(p) ==
    LET c == cmd[p] IN
    IF c.op = "stopAll" THEN AllContainerNames
    ELSE IF node[p] = None
         THEN CandidateContainerNames(EffectiveNetwork(c.net, c.testnet))
    ELSE {node[p]}

(* A stop reports success only if nothing it names runs, except what other *)
(* commands started meanwhile (stop_node.go:39-41, :83-86, :165-168).      *)
StopTruth ==
    [][\A p \in Procs :
          (pc[p] \notin Resting /\ pc'[p] = "done" /\ cmd[p].op \in {"stop", "stopAll"})
          => \A s \in Running' : def'[s].name \in StoppedNames(p)' => s \in upSince'[p]]_vars

(* Of the Ethereum containers at most one execution client and one         *)
(* consensus client run, of the same chain (ethereum.go:59-63): sequential *)
(* commands, clients that crash and starts that fail never add a second.   *)
ExecutionClients ==
    UNION {CandidateContainerNames(n) : n \in {m \in Networks : Selectable(m)}}
ConsensusClients ==
    {ContainerName[n] : n \in {m \in Networks : InStack(m) /\ Selectable(PartOf[m])}}

OneEthereumStack ==
    \A x, y \in RunningNames \cap (ExecutionClients \cup ConsensusClients) :
        /\ IsTestnet(x) <=> IsTestnet(y)
        /\ (x \in ExecutionClients <=> y \in ExecutionClients) => x = y

(* A consensus client that runs beside an execution client was started     *)
(* with that client's data, where its JWT secret is                        *)
(* (ethereum_config.go:410-466): never with that of one which ran before.  *)
ConsensusIsPaired ==
    \A s, e \in Running :
        def[s].name \in ConsensusClients /\ def[e].name \in ExecutionClients
        => def[e].own \in def[s].mounts

(* Clients that share a secret run with the one that is on disk, from which*)
(* every later start gives it to the other (base_config.go:51-58: "minting *)
(* it once and reusing the same value"): as long as the file can be read,  *)
(* it is never made anew while one of them runs, and a failed write or a   *)
(* deletion never takes it from them.                                      *)
SecretIsKept ==
    \A s \in Running : def[s].secret # None =>
        \E m \in Minting : jwt[<<def[s].own[1], m>>] = def[s].secret

(* Where the file could not be read and a new secret replaced the one that *)
(* clients run with (base_config.go:70-87), each has the new one by the end*)
(* of the start: up leaves no client with the one it had.                  *)
SecretsSettle == (\A p \in Procs : pc[p] \in Resting) => SecretIsKept

(* A start reports success only once every container it was asked for was  *)
(* made from this request: the pulled extra was not dropped on the way and *)
(* Watchtower, shared by all stacks and told service keys, finds each of   *)
(* them by its container's name (compose.go:485-531).                      *)
StartTruth ==
    [][\A p \in Procs : (At(p, "cleanup") /\ pc'[p] = "done") =>
          /\ \A d \in Requested(cmd[p], secret[p]) :
                /\ Exists(d.svc) /\ def[d.svc] = d
                /\ d.name \in def[Watchtower].watch
          /\ Exists(Watchtower)]_vars

(* "silently replacing a running node is not something `start` should do"  *)
(* (ethereum.go:62): what `start` replaces, it starts again by that name.  *)
StartReplacesNoNode ==
    [][\A p \in Procs : (At(p, "up") /\ pc'[p] = "starting") =>
          \A s \in (Running \ Running') \ {Watchtower} : def'[s].name = def[s].name]_vars

(* The builders publish no host port twice, except for the Ethereum clients*)
(* of one kind (fixed ports, pkg/docker/compose/*_config.go).              *)
ASSUME PortsAssumption ==
    \A s, t \in Services : s # t /\ Ports[s] \cap Ports[t] # {} =>
        {s, t} \subseteq ExecutionClients \/ {s, t} \subseteq ConsensusClients

(* "Every network here can plausibly run alongside any other"              *)
(* (registry_test.go:205): a start that passed its checks comes up, with   *)
(* no container name or port taken by what other starts left running.      *)
StartsComeUp ==
    [][\A p \in Procs : pc[p] \in {"up", "starting"} => pc'[p] # "failed"]_vars

(* An update takes whole stacks down one after the other, found by what of *)
(* them runs at that moment: once it is through, every container of every  *)
(* compose file is there again under its name (docker_update.go:142-175).  *)
NodesComeBack ==
    (\A p \in Procs : pc[p] \in Resting) =>
        \A f \in Bases \X Names : \A d \in files[f] :
            Exists(d.svc) /\ def[d.svc].name = d.name

(* "Nodevin ensures your nodes are always running the latest software      *)
(* versions." (README.md:12): while no command is under way, every node    *)
(* that runs is on the watch list of Watchtower, by its container name.    *)
NodesAreWatched ==
    (\A p \in Procs : pc[p] \in {"idle", "done"}) =>
        \A s \in Running \ {Watchtower} :
            Exists(Watchtower) /\ def[s].name \in def[Watchtower].watch

-----------------------------------------------------------------------------
(* Liveness                                                                *)

(* Every command comes to its end, whatever other commands do to the       *)
(* containers it waits for.                                                *)
CommandsEnd == \A p \in Procs : pc[p] \notin Resting ~> pc[p] \in Resting
=============================================================================
