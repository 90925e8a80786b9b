------------------------------- MODULE Launch -------------------------------
(***************************************************************************)
(* launch_mainnet.py and run_testnet.py: keys are made and saved in        *)
(* keystores, one genesis is written to the data directory of every node,  *)
(* a process is started on each directory, and in the end all are stopped  *)
(* and a bundle that describes the network is written.                     *)
(*                                                                         *)
(* Every step leaves files behind.  The launcher can be killed between any *)
(* two of them, the node processes outlive it, and it can be run again     *)
(* with other arguments on what is there.                                  *)
(***************************************************************************)
EXTENDS Dict, Sequences

CONSTANTS
    Nodes,         \* bound: data directories; what is done to any further ones is alike
    Arguments,     \* the launchers and the arguments they may be run with
    MaxRuns,       \* bound: launcher runs
    Absent,        \* no file, no key, no passphrase, no arguments
    Partial        \* a file with a part of its content

\* In thousands of coins.
MARKET_SUPPLY == 750
FOUNDER_SUPPLY == 250
MAX_SUPPLY == 1000
TESTNET_STAKE == 100

Dirs == 1 .. Nodes
Roles == <<"market", "treasury", "founder">>

ASSUME LaunchAssumption ==
    /\ Nodes \in Nat \ {0}
    /\ MaxRuns \in Nat
    /\ \A a \in Arguments :
          \/ /\ a.program = "mainnet"
             /\ {a.stake, a.epoch, a.vest_cliff, a.vest_duration} \subseteq Int
          \/ a.program = "testnet" /\ a.validators \in Nat

VARIABLES
    program,    \* "mainnet" or "testnet"
    step,       \* what the launcher does next, "idle" when none runs
    at,         \* the role or directory that a loop of it has reached
    args,       \* its arguments
    addr,       \* the address it made for each role
    secrets,    \* number of secrets drawn so far; a secret and its address are one number
    keyfile,    \* the keystore of each role: a secret under a passphrase
    staged,     \* the temporary file of the genesis being written
    genesis,    \* genesis.json of each directory that has one
    procs,      \* node processes
    bundle,     \* genesis_bundle.json
    overwrote,  \* history: a keystore was written when there was a genesis
    runs        \* history: launcher runs so far

launchVars == <<program, step, at, args, addr, secrets, keyfile, staged, genesis, procs,
                bundle, overwrote, runs>>

-----------------------------------------------------------------------------
(* Genesis *)

\* The check of tokenomics.build_genesis.
AnyStake(stake) == TRUE
StakeInRange(stake) == 0 <= stake /\ stake <= FOUNDER_SUPPLY

\* What tokenomics.build_genesis and main give to write_genesis.
MainnetGenesis ==
    [allocations |-> Put(Put(<< >>, addr["market"], MARKET_SUPPLY), addr["founder"], FOUNDER_SUPPLY),
     initial_stakes |-> IF args.stake = 0 THEN << >> ELSE Put(<< >>, addr["founder"], args.stake),
     vesting |-> IF args.vest_duration > 0
                 THEN Put(<< >>, addr["founder"], <<FOUNDER_SUPPLY, args.vest_cliff, args.vest_duration>>)
                 ELSE << >>,
     treasury_address |-> addr["treasury"], epoch |-> args.epoch]

\* run_testnet.build_genesis: secrets 1, 2, ... validate and another one is the treasury.
TestnetGenesis ==
    LET stakes == [k \in 1 .. args.validators |-> TESTNET_STAKE]
    IN  [allocations |-> Put(stakes, 0, MAX_SUPPLY - args.validators * TESTNET_STAKE),
         initial_stakes |-> stakes, vesting |-> << >>, treasury_address |-> 0, epoch |-> 8]

\* genesis_params finds a file.
Loads(d) == d \in DOMAIN genesis

\* What the constructors of the chain demand of it.
Accepted(g) ==
    /\ \A a \in DOMAIN g.allocations : g.allocations[a] >= 0
    /\ SumFunction(g.allocations) = MAX_SUPPLY
    /\ \A a \in DOMAIN g.initial_stakes :
          0 < g.initial_stakes[a] /\ g.initial_stakes[a] <= Get(g.allocations, a)
    /\ \A a \in DOMAIN g.vesting :
          /\ \A i \in 1 .. 3 : g.vesting[a][i] >= 0
          /\ g.vesting[a][1] <= Get(g.allocations, a)
    /\ g.epoch > 0

Boots(d) == Loads(d) /\ Accepted(genesis[d])

-----------------------------------------------------------------------------
LaunchInit ==
    /\ program \in {"mainnet", "testnet"}
    /\ step = "idle" /\ at = 1
    /\ args = Absent
    /\ addr = [r \in {"market", "treasury", "founder"} |-> Absent]
    /\ keyfile = addr
    /\ secrets = 0
    /\ staged = Absent
    /\ genesis = << >>
    /\ procs = {}
    /\ bundle = Absent
    /\ overwrote = FALSE
    /\ runs = 0

Goto(s, i) == step' = s /\ at' = i

\* The launcher is run; on mainnet it wants a passphrase.
Run(a) ==
    /\ step = "idle"
    /\ runs < MaxRuns
    /\ a.program = program
    /\ program = "mainnet" => a.passphrase # Absent
    /\ args' = a
    /\ runs' = runs + 1
    /\ Goto(IF program = "mainnet" THEN "keys" ELSE "build", 1)
    /\ UNCHANGED <<program, addr, secrets, keyfile, staged, genesis, procs, bundle, overwrote>>

\* A secret that nobody has, and what encrypt_secret makes of it.
NewSecret == secrets + 1
Encrypted(secret, passphrase) == [secret |-> secret, passphrase |-> passphrase]

\* save_keystore replaces the file as a whole.
SavedIfAbsent(r, keystore) ==
    IF keyfile[r] = Absent THEN [keyfile EXCEPT ![r] = keystore] ELSE keyfile
Saved(r, keystore) == [keyfile EXCEPT ![r] = keystore]

\* _gen_keystore for the next role.
GenKeystore ==
    /\ step = "keys"
    /\ secrets' = NewSecret
    /\ addr' = [addr EXCEPT ![Roles[at]] = NewSecret]
    /\ keyfile' = Saved(Roles[at], Encrypted(NewSecret, args.passphrase))
    /\ overwrote' = (overwrote \/ Loads(1))
    /\ IF at < Len(Roles) THEN Goto("keys", at + 1) ELSE Goto("build", 1)
    /\ UNCHANGED <<program, args, staged, genesis, procs, bundle, runs>>

\* build_genesis returns or raises.
BuildGenesis ==
    /\ step = "build"
    /\ IF program = "mainnet" => StakeInRange(args.stake) THEN Goto("write", 1) ELSE Goto("idle", 1)
    /\ UNCHANGED <<program, args, addr, secrets, keyfile, staged, genesis, procs, bundle,
                   overwrote, runs>>

\* On to the next directory, or to the processes after the last.
NextDirectory == IF at < Nodes THEN Goto("write", at + 1) ELSE Goto("spawn", 1)

\* write_genesis raises when there is a genesis, and the launcher ends.
SkipExisting == NextDirectory
GenesisExists == Goto("idle", 1)

RefuseGenesis ==
    /\ step = "write"
    /\ Loads(at)
    /\ GenesisExists
    /\ UNCHANGED <<program, args, addr, secrets, keyfile, staged, genesis, procs, bundle,
                   overwrote, runs>>

\* _atomic_write: a temporary file first ...
StageGenesis ==
    /\ step = "write"
    /\ ~Loads(at)
    /\ staged' = IF program = "mainnet" THEN MainnetGenesis ELSE TestnetGenesis
    /\ Goto("replace", at)
    /\ UNCHANGED <<program, args, addr, secrets, keyfile, genesis, procs, bundle,
                   overwrote, runs>>

\* ... which then takes the place of the genesis.
ReplaceGenesis ==
    /\ step = "replace"
    /\ genesis' = Put(genesis, at, staged)
    /\ staged' = Absent
    /\ NextDirectory
    /\ UNCHANGED <<program, args, addr, secrets, keyfile, procs, bundle, overwrote, runs>>

-----------------------------------------------------------------------------
(* Node processes *)

\* The process on directory d seals with a key of its own.
Validates(d) == IF program = "mainnet" THEN d = 1 ELSE d <= args.validators

\* The process started on directory d; a mainnet launcher hands on its environment.
Started(d) ==
    [dir |-> d, run |-> runs, up |-> FALSE, validates |-> Validates(d), key |-> Absent,
     passphrase |-> IF program = "mainnet" THEN args.passphrase ELSE Absent]

\* Popen for the next directory.
Spawn ==
    /\ step = "spawn"
    /\ procs' = procs \cup {Started(at)}
    /\ IF at < Nodes THEN Goto("spawn", at + 1) ELSE Goto("watch", 1)
    /\ UNCHANGED <<program, args, addr, secrets, keyfile, staged, genesis, bundle,
                   overwrote, runs>>

\* p2p.py serve: decrypt_secret opens the founder's keystore with the right
\* passphrase only, testnet secrets are on the command line.
KeyOf(p) ==
    CASE ~p.validates -> Absent
      [] p.validates /\ program = "testnet" -> p.dir
      [] OTHER -> keyfile["founder"].secret
Unlocked(p) ==
    p.validates /\ program = "mainnet" => keyfile["founder"].passphrase = p.passphrase

\* The process starts to serve, or ends when the key or the genesis does not load.
Serve(p) ==
    /\ ~p.up
    /\ procs' = (procs \ {p}) \cup
                (IF Unlocked(p) /\ Boots(p.dir)
                 THEN {[p EXCEPT !.up = TRUE, !.key = KeyOf(p)]} ELSE {})
    /\ UNCHANGED <<program, step, at, args, addr, secrets, keyfile, staged, genesis, bundle,
                   overwrote, runs>>

\* The launcher watches the first directory until the time is over, it is
\* interrupted or the directory does not load; then it stops what it started.
Stop(next) ==
    /\ step = "watch"
    /\ procs' = {p \in procs : p.run # runs}
    /\ next = "report" => program = "mainnet" /\ Boots(1)
    /\ Goto(next, 1)
    /\ UNCHANGED <<program, args, addr, secrets, keyfile, staged, genesis, bundle,
                   overwrote, runs>>

\* The bundle is written.
Report ==
    /\ step = "report"
    /\ bundle' = [genesis |-> genesis[1], validator_address |-> addr["founder"],
                  treasury_address |-> addr["treasury"]]
    /\ Goto("idle", 1)
    /\ UNCHANGED <<program, args, addr, secrets, keyfile, staged, genesis, procs,
                   overwrote, runs>>

\* The launcher is killed; the bundle it is writing may be cut off.
Kill ==
    /\ step # "idle"
    /\ bundle' \in {bundle} \cup (IF step = "report" THEN {Partial} ELSE {})
    /\ staged' = Absent
    /\ Goto("idle", 1)
    /\ UNCHANGED <<program, args, addr, secrets, keyfile, genesis, procs, overwrote, runs>>

\* A node process ends by itself.
Exit(p) ==
    /\ procs' = procs \ {p}
    /\ UNCHANGED <<program, step, at, args, addr, secrets, keyfile, staged, genesis, bundle,
                   overwrote, runs>>

LaunchNext ==
    \/ \E a \in Arguments : Run(a)
    \/ GenKeystore
    \/ BuildGenesis
    \/ RefuseGenesis
    \/ StageGenesis
    \/ ReplaceGenesis
    \/ Spawn
    \/ \E p \in procs : Serve(p)
    \/ \E next \in {"report", "idle"} : Stop(next)
    \/ Report
    \/ Kill
    \/ \E p \in procs : Exit(p)


-----------------------------------------------------------------------------
\* MAINNET.md: "Every node on the network must use the byte-identical file".  The
\* directories that have a genesis have the same one, however often the launcher
\* was killed between two of them and run again with new keys and arguments; and a
\* bundle that was written as a whole names the validator and treasury of it, though
\* it takes them from the launcher's own variables.
OneGenesis ==
    /\ \A d, e \in Dirs : Loads(d) /\ Loads(e) => genesis[d] = genesis[e]
    /\ bundle \notin {Absent, Partial} =>
          /\ \A d \in Dirs : Loads(d) /\ genesis[d] = bundle.genesis
          /\ DOMAIN bundle.genesis.initial_stakes \subseteq {bundle.validator_address}
          /\ bundle.genesis.treasury_address = bundle.treasury_address

\* A genesis on disk loads: what build_genesis lets through, the constructors of
\* the chain accept, unless an argument that is written unchecked is out of range
\* (the epoch, the cliff, or so many testnet validators that the treasury owes).
GenesisBoots ==
    \A d \in Dirs : Loads(d) =>
        \/ Accepted(genesis[d])
        \/ genesis[d].epoch <= 0
        \/ \E a \in DOMAIN genesis[d].vesting : genesis[d].vesting[a][2] < 0
        \/ Get(genesis[d].allocations, 0) < 0

\* "keystores (KEEP SECRET, back up offline)": the keystores hold the keys of the
\* genesis on disk, also when earlier runs died half way, and a node that seals has
\* the key of a validator of its genesis, if that has any.  They stop doing so when
\* the launcher is run again beside a genesis: it replaces them before
\* write_genesis raises, and the coins of that genesis are lost.
KeystoresOpenGenesis ==
    ~overwrote =>
        /\ program = "mainnet" /\ Loads(1) =>
              /\ DOMAIN genesis[1].allocations =
                     {keyfile["market"].secret, keyfile["founder"].secret}
              /\ DOMAIN genesis[1].initial_stakes \subseteq {keyfile["founder"].secret}
              /\ genesis[1].treasury_address = keyfile["treasury"].secret
        /\ \A p \in procs : p.key # Absent =>
              genesis[p.dir].initial_stakes = << >> \/ p.key \in DOMAIN genesis[p.dir].initial_stakes

\* A store has no lock, so two processes must never append to one: no directory
\* ever has two, though orphans of a killed launcher run on beside its next run.
OneProcessPerStore == \A p, q \in procs : p.dir = q.dir => p = q
=============================================================================
