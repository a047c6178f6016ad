---------------------------- MODULE DeliveryProofs ---------------------------
(***************************************************************************)
(* Theorems about Startup and Delivery, for any schema and any number of   *)
(* migrations, any intervals, any number of addresses and redirects.       *)
(***************************************************************************)
EXTENDS Delivery, SequenceTheorems, TLAPS

-----------------------------------------------------------------------------
(* The inductive invariant of the start. *)

InTx     == {"exec", "record", "commit"}
Migrated == {"hydrate", "start", "listen", "serving", "stopping"}

(* Where Migrate is, and what it has left behind it. *)
LoopInv ==
    /\ main \notin InTx => stmt = 0
    /\ main \in {"down", "config", "open", "track"} => file = 1
    /\ main \in {"check", "begin"} \cup InTx =>
          tracked /\ \A f \in 1..(file - 1) : f \in applied
    /\ main \in {"begin"} \cup InTx => file \notin applied
    /\ main \in Migrated => applied = DOMAIN Files

(* What the open transaction holds. *)
TxInv ==
    /\ main = "exec" =>
          /\ stmt <= Len(Files[file])
          /\ tx.objects = {Files[file][i] : i \in 1..stmt}
          /\ tx.versions = {}
    /\ main = "record" => tx.objects = Creates(file) /\ tx.versions = {}
    /\ main = "commit" => tx.objects = Creates(file) /\ tx.versions = {file}

StartupInv == StartupTypeOK /\ LoopInv /\ TxInv /\ RecordedIsComplete

StartupStep == Proceed \/ Stop \/ Return \/ Kill \/ Settle

(* The process is gone, the database as it was. *)
LEMMA GoneKeeps ==
    ASSUME StartupInv, Gone
    PROVE  StartupInv'
<1>1. /\ main' = "down" /\ file' = 1 /\ stmt' = 0 /\ tx' = NoTx
      /\ UNCHANGED <<env, tracked, applied, objects, calm>>
    BY DEF Gone, database
<1>2. StartupTypeOK'
    BY <1>1, FilesAssumption DEF StartupInv, StartupTypeOK, Phases, NoTx
<1> QED
    BY <1>1, <1>2
       DEF StartupInv, LoopInv, TxInv, InTx, Migrated, RecordedIsComplete,
           Creates

(* A migration's file is a sequence of objects. *)
LEMMA FilesType ==
    /\ Len(Files) \in Nat /\ DOMAIN Files = 1..Len(Files)
    /\ \A f \in DOMAIN Files :
          /\ Files[f] \in Seq(Objects) /\ Len(Files[f]) \in Nat
          /\ DOMAIN Files[f] = 1..Len(Files[f])
          /\ Creates(f) \subseteq Objects
BY FilesAssumption DEF Creates

LEMMA StartupInitEstablishes == StartupInit => StartupInv
<1> SUFFICES ASSUME StartupInit
             PROVE  StartupInv
    OBVIOUS
<1>1. PICK n \in 0..Len(Files) :
          /\ tracked \in BOOLEAN /\ (n > 0 => tracked)
          /\ applied = 1..n
          /\ objects = UNION {Creates(f) : f \in 1..n}
    BY DEF StartupInit
<1>2. StartupTypeOK
  <2>1. applied \subseteq DOMAIN Files /\ file \in 1..(Len(Files) + 1)
    BY <1>1, FilesType DEF StartupInit
  <2>2. objects \subseteq Objects
    BY <1>1, FilesType
  <2>3. tracked \in BOOLEAN
    BY <1>1
  <2> QED
    BY <2>1, <2>2, <2>3 DEF StartupInit, StartupTypeOK, Phases, NoTx
<1>3. RecordedIsComplete
  <2> SUFFICES ASSUME NEW f \in DOMAIN Files
               PROVE  IF f \in applied THEN tracked /\ Creates(f) \subseteq objects
                                       ELSE Creates(f) \cap objects = {}
    BY DEF RecordedIsComplete
  <2>1. CASE f \in 1..n
    <3>1. n > 0 /\ tracked
      BY <1>1, <2>1
    <3>2. Creates(f) \subseteq UNION {Creates(g) : g \in 1..n}
      BY <2>1
    <3> QED
      BY <1>1, <2>1, <3>1, <3>2
  <2>2. CASE f \notin 1..n
    <3>1. \A g \in 1..n : g \in DOMAIN Files /\ g # f
      BY <2>2, FilesType
    <3>2. \A g \in 1..n : Creates(g) \cap Creates(f) = {}
      BY <3>1, FilesAssumption DEF Creates
    <3> QED
      BY <1>1, <2>2, <3>2
  <2> QED
    BY <2>1, <2>2
<1> QED
    BY <1>2, <1>3 DEF StartupInit, StartupInv, LoopInv, TxInv, InTx, Migrated

(* A step of Migrate that goes on within its transaction. *)
LEMMA ExecKeeps ==
    ASSUME StartupInv, ExecStatements
    PROVE  StartupInv'
<1> USE DEF GoTo, database
<1>0. StartupTypeOK /\ LoopInv /\ TxInv /\ RecordedIsComplete /\ main = "exec"
      /\ file \in DOMAIN Files /\ tx.open
    BY DEF StartupInv, StartupTypeOK, ExecStatements
<1>1. ASSUME stmt < Len(Files[file]),
             tx' = [tx EXCEPT !.objects = @ \cup {Files[file][stmt + 1]}],
             stmt' = stmt + 1,
             UNCHANGED <<env, main, file, database, calm>>
      PROVE  StartupInv'
  <2>1. stmt + 1 \in DOMAIN Files[file] /\ Files[file][stmt + 1] \in Objects
    BY <1>0, <1>1, FilesType DEF StartupTypeOK
  <2>2. StartupTypeOK'
    BY <1>0, <1>1, <2>1 DEF StartupTypeOK
  <2>3. {Files[file][i] : i \in 1..stmt} \cup {Files[file][stmt + 1]}
            = {Files[file][i] : i \in 1..(stmt + 1)}
    BY <1>0 DEF StartupTypeOK
  <2>4. TxInv'
    BY <1>0, <1>1, <2>3, FilesType DEF TxInv, StartupTypeOK
  <2> QED
    BY <1>0, <1>1, <2>2, <2>4
       DEF StartupInv, LoopInv, InTx, Migrated, RecordedIsComplete, Creates
<1>2. ASSUME stmt = Len(Files[file]), main' = "record",
             UNCHANGED <<env, file, stmt, tx, database, calm>>
      PROVE  StartupInv'
  <2>1. tx.objects = Creates(file)
    BY <1>0, <1>2, FilesType DEF TxInv, Creates
  <2>2. StartupTypeOK'
    BY <1>0, <1>2 DEF StartupTypeOK, Phases
  <2> QED
    BY <1>0, <1>2, <2>1, <2>2
       DEF StartupInv, LoopInv, TxInv, InTx, Migrated, RecordedIsComplete,
           Creates
<1> QED
    BY <1>1, <1>2, GoneKeeps DEF ExecStatements, Refused

(* The commit makes the file's objects and its version exist together. *)
LEMMA CommitKeeps ==
    ASSUME StartupInv, Commit
    PROVE  StartupInv'
<1> USE DEF GoTo, database
<1>0. /\ StartupTypeOK /\ LoopInv /\ TxInv /\ RecordedIsComplete
      /\ main = "commit" /\ file \in DOMAIN Files /\ file \notin applied
      /\ tx.objects = Creates(file) /\ tx.versions = {file} /\ tracked
    BY DEF StartupInv, StartupTypeOK, Commit, LoopInv, TxInv, InTx
<1>1. ASSUME /\ main' = "check" /\ applied' = applied \cup {file}
             /\ objects' = objects \cup Creates(file)
             /\ tx' = NoTx /\ file' = file + 1 /\ stmt' = 0
             /\ UNCHANGED <<env, tracked, calm>>
      PROVE  StartupInv'
  <2>1. StartupTypeOK'
    BY <1>0, <1>1, FilesType DEF StartupTypeOK, Phases, NoTx
  <2>2. LoopInv'
    <3>1. \A f \in 1..(file' - 1) : f \in applied'
      <4>1. \A f \in 1..(file' - 1) : f \in 1..(file - 1) \/ f = file
        BY <1>0, <1>1, FilesType
      <4> QED
        BY <1>0, <1>1, <4>1 DEF LoopInv, InTx
    <3> QED
      BY <1>0, <1>1, <3>1 DEF LoopInv, InTx, Migrated
  <2>3. RecordedIsComplete'
    <3> SUFFICES ASSUME NEW f \in DOMAIN Files
                 PROVE  IF f \in applied'
                        THEN tracked' /\ Creates(f) \subseteq objects'
                        ELSE Creates(f) \cap objects' = {}
      BY DEF RecordedIsComplete, Creates
    <3>1. f # file => Creates(f) \cap Creates(file) = {}
      BY <1>0, FilesAssumption DEF Creates
    <3> QED
      BY <1>0, <1>1, <3>1 DEF RecordedIsComplete
  <2> QED
    BY <1>1, <2>1, <2>2, <2>3 DEF StartupInv, TxInv
<1> QED
    BY <1>0, <1>1, GoneKeeps DEF Commit, Refused

(* The version is looked up; a missing one starts a transaction. *)
LEMMA LoopKeeps ==
    ASSUME StartupInv, CreateTracking \/ CheckVersion \/ Begin \/ RecordVersion
    PROVE  StartupInv'
<1> USE DEF GoTo, database
<1>0. StartupTypeOK /\ LoopInv /\ TxInv /\ RecordedIsComplete
    BY DEF StartupInv
<1>1. ASSUME CreateTracking
      PROVE  StartupInv'
  <2>1. ASSUME main = "track", main' = "check", tracked' = TRUE,
               UNCHANGED <<env, file, stmt, tx, applied, objects, calm>>
        PROVE  StartupInv'
    <3>1. StartupTypeOK'
      BY <1>0, <2>1 DEF StartupTypeOK, Phases
    <3> QED
      BY <1>0, <2>1, <3>1
         DEF StartupInv, LoopInv, TxInv, InTx, Migrated, RecordedIsComplete,
             Creates
  <2> QED
    BY <1>1, <2>1, GoneKeeps DEF CreateTracking, Refused
<1>2. ASSUME CheckVersion
      PROVE  StartupInv'
  <2>1. ASSUME main = "check",
               \/ file > Len(Files) /\ main' = "hydrate" /\ UNCHANGED file
               \/ file \in applied /\ file' = file + 1 /\ UNCHANGED main
               \/ /\ file \in DOMAIN Files \ applied
                  /\ main' = "begin" /\ UNCHANGED file,
               UNCHANGED <<env, stmt, tx, database, calm>>
        PROVE  StartupInv'
    <3>1. StartupTypeOK'
      BY <1>0, <2>1, FilesType DEF StartupTypeOK, Phases
    <3>2. LoopInv'
      <4>1. CASE file > Len(Files) /\ main' = "hydrate" /\ UNCHANGED file
        <5>1. file = Len(Files) + 1 /\ applied \subseteq DOMAIN Files
          BY <1>0, <4>1, FilesType DEF StartupTypeOK
        <5>2. \A f \in 1..(file - 1) : f \in applied
          BY <1>0, <2>1 DEF LoopInv
        <5>3. DOMAIN Files = 1..(file - 1)
          BY <5>1, FilesType
        <5>4. applied = DOMAIN Files
          BY <5>1, <5>2, <5>3
        <5> QED
          BY <1>0, <2>1, <4>1, <5>4 DEF LoopInv, InTx, Migrated
      <4>2. CASE file \in applied /\ file' = file + 1 /\ UNCHANGED main
        <5>1. \A f \in 1..(file' - 1) : f \in 1..(file - 1) \/ f = file
          BY <1>0, <4>2, FilesType DEF StartupTypeOK
        <5>2. \A f \in 1..(file' - 1) : f \in applied'
          BY <1>0, <2>1, <4>2, <5>1 DEF LoopInv
        <5> QED
          BY <1>0, <2>1, <4>2, <5>2 DEF LoopInv, InTx, Migrated
      <4>3. CASE /\ file \in DOMAIN Files \ applied
                 /\ main' = "begin" /\ UNCHANGED file
        BY <1>0, <2>1, <4>3 DEF LoopInv, InTx, Migrated
      <4> QED
        BY <2>1, <4>1, <4>2, <4>3
    <3> QED
      BY <1>0, <2>1, <3>1, <3>2
         DEF StartupInv, TxInv, RecordedIsComplete, Creates
  <2> QED
    BY <1>2, <2>1, GoneKeeps DEF CheckVersion, Refused
<1>3. ASSUME Begin
      PROVE  StartupInv'
  <2>1. ASSUME main = "begin", main' = "exec",
               tx' = [NoTx EXCEPT !.open = TRUE],
               UNCHANGED <<env, file, stmt, database, calm>>
        PROVE  StartupInv'
    <3>1. tx' = [open |-> TRUE, objects |-> {}, versions |-> {}]
      BY <2>1 DEF NoTx
    <3>2. stmt = 0 /\ file \in DOMAIN Files /\ Len(Files[file]) \in Nat
      BY <1>0, <2>1, FilesType DEF LoopInv, InTx, StartupTypeOK
    <3>3. StartupTypeOK'
      <4>1. /\ tx' \in [open : BOOLEAN, objects : SUBSET Objects,
                        versions : SUBSET DOMAIN Files]
            /\ tx'.open
        BY <3>1
      <4>2. main' \in Phases /\ main' \in {"exec", "record", "commit"}
        BY <2>1 DEF Phases
      <4>3. UNCHANGED <<env, file, stmt, tracked, applied, objects, calm>>
        BY <2>1
      <4> QED
        BY <1>0, <3>2, <4>1, <4>2, <4>3 DEF StartupTypeOK
    <3>4. TxInv'
      BY <2>1, <3>1, <3>2 DEF TxInv
    <3> QED
      BY <1>0, <2>1, <3>3, <3>4
         DEF StartupInv, LoopInv, InTx, Migrated, RecordedIsComplete, Creates
  <2> QED
    BY <1>3, <2>1, GoneKeeps DEF Begin, Refused
<1>4. ASSUME RecordVersion
      PROVE  StartupInv'
  <2>1. ASSUME main = "record", main' = "commit",
               tx' = [tx EXCEPT !.versions = @ \cup {file}],
               UNCHANGED <<env, file, stmt, database, calm>>
        PROVE  StartupInv'
    <3>1. file \in DOMAIN Files /\ tx.objects = Creates(file)
          /\ tx.versions = {}
      BY <1>0, <2>1 DEF StartupTypeOK, TxInv
    <3>2. /\ tx'.open = tx.open /\ tx'.objects = Creates(file)
          /\ tx'.versions = {file}
      BY <1>0, <2>1, <3>1 DEF StartupTypeOK
    <3>3. StartupTypeOK'
      <4>1. tx' \in [open : BOOLEAN, objects : SUBSET Objects,
                     versions : SUBSET DOMAIN Files]
        BY <1>0, <2>1, <3>1 DEF StartupTypeOK
      <4> QED
        <5>1. tx'.open <=> main' \in {"exec", "record", "commit"}
          BY <1>0, <2>1, <3>2 DEF StartupTypeOK
        <5> QED
          BY <1>0, <2>1, <3>1, <4>1, <5>1 DEF StartupTypeOK, Phases
    <3> QED
      BY <1>0, <2>1, <3>2, <3>3
         DEF StartupInv, LoopInv, TxInv, InTx, Migrated, RecordedIsComplete,
             Creates
  <2> QED
    BY <1>4, <2>1, GoneKeeps DEF RecordVersion, Refused
<1> QED
    BY <1>1, <1>2, <1>3, <1>4

(* Every step of the process keeps the invariant. *)
LEMMA StartupKeeps ==
    ASSUME StartupInv, StartupStep \/ UNCHANGED startupVars
    PROVE  StartupInv'
<1> USE DEF GoTo, database
<1>0. StartupTypeOK /\ LoopInv /\ TxInv /\ RecordedIsComplete
    BY DEF StartupInv
<1>1. ASSUME <<main, main'>> \in
                 {<<"down", "config">>, <<"config", "open">>, <<"open", "track">>,
                  <<"hydrate", "start">>, <<"start", "listen">>,
                  <<"listen", "serving">>, <<"listen", "stopping">>,
                  <<"serving", "stopping">>},
             UNCHANGED <<env, file, stmt, tx, database, calm>>
      PROVE  StartupInv'
  <2>1. StartupTypeOK'
    BY <1>0, <1>1 DEF StartupTypeOK, Phases
  <2> QED
    BY <1>0, <1>1, <2>1
       DEF StartupInv, LoopInv, TxInv, InTx, Migrated, RecordedIsComplete,
           Creates
<1>2. ASSUME Settle \/ UNCHANGED startupVars
      PROVE  StartupInv'
  <2>1. UNCHANGED <<env, main, file, stmt, tx, database>> /\ calm' \in BOOLEAN
    BY <1>0, <1>2 DEF Settle, startupVars, StartupTypeOK
  <2>2. StartupTypeOK'
    BY <1>0, <2>1 DEF StartupTypeOK
  <2> QED
    BY <1>0, <2>1, <2>2
       DEF StartupInv, LoopInv, TxInv, InTx, Migrated, RecordedIsComplete,
           Creates
<1>3. CASE Start \/ LoadConfig \/ OpenDB
    BY <1>1, <1>3, GoneKeeps DEF Start, LoadConfig, OpenDB, Refused
<1>4. CASE Hydrate \/ StartGoroutines
    BY <1>1, <1>4, GoneKeeps DEF Hydrate, StartGoroutines, Refused
<1>5. CASE Listen \/ Stop
    BY <1>1, <1>5 DEF Listen, Stop
<1>6. CASE Return \/ Kill
    BY <1>6, GoneKeeps DEF Return, Kill, Refused
<1> QED
    BY <1>2, <1>3, <1>4, <1>5, <1>6, ExecKeeps, CommitKeeps, LoopKeeps
       DEF StartupStep, Proceed

-----------------------------------------------------------------------------
(* What Send still has to do. *)

(* Mail: the close comes last, the TLS handshake before the login. *)
MailRest(c) ==
    /\ c[Len(c)] = "close"
    /\ \A i \in 1..Len(c) :
          /\ c[i] \notin {"resolve", "exchange"}
          /\ c[i] = "auth" => env.user
          /\ c[i] = "starttls" => \A k \in 1..Len(c) : c[k] = "auth" => i < k

(* HTTP: while there are addresses, one may still answer, unless a fault    *)
(* has shown already.                                                       *)
HTTPRest(j) ==
    /\ j.calls \in {HTTPCalls, <<"dial", "exchange">>, <<"exchange">>}
    /\ j.calls = <<"dial", "exchange">> => j.addrs # <<>>
    /\ j.addrs # <<>> => j.fault \/ \E i \in 1..Len(j.addrs) : j.addrs[i] = "up"

SendInv(j) ==
    /\ j.channel \in Stored /\ ~j.error /\ j.calls # <<>>
    /\ j.channel.type = "email" => MailRest(j.calls)
    /\ j.channel.type # "email" => HTTPRest(j)

JobInv ==
    /\ job \in Jobs
    /\ job.pc = "send" => SendInv(job)
    /\ SentMeansTaken /\ FailureHasACause

(* No process goes past its configuration with one Validate refuses. *)
ConfigInv == main \notin {"down", "config"} => Validate(env)

(* The call at the front is done, the rest is mail still. *)
LEMMA RestOfMail ==
    ASSUME NEW c \in Seq(Calls), c # <<>>, MailRest(c), Head(c) # "close"
    PROVE  /\ Len(c) # 1
           /\ Tail(c) \in Seq(Calls) /\ Tail(c) # <<>> /\ MailRest(Tail(c))
<1>1. Len(c) \in Nat \ {0} /\ Head(c) = c[1]
    BY EmptySeq, LenProperties
<1>2. Len(c) # 1
    BY <1>1 DEF MailRest
<1>3. /\ Tail(c) \in Seq(Calls) /\ Len(Tail(c)) = Len(c) - 1
      /\ \A i \in 1..Len(Tail(c)) : Tail(c)[i] = c[i + 1]
    BY HeadTailProperties
<1>4. Tail(c) # <<>>
  <2>1. Len(Tail(c)) # 0
    BY <1>1, <1>2, <1>3
  <2>2. Len(<<>>) = 0
    OBVIOUS
  <2> QED
    BY <2>1, <2>2
<1>5. MailRest(Tail(c))
  <2>1. Tail(c)[Len(Tail(c))] = "close"
    BY <1>1, <1>2, <1>3 DEF MailRest
  <2>2. \A i \in 1..Len(Tail(c)) : i + 1 \in 1..Len(c)
    BY <1>1, <1>3
  <2> QED
    BY <1>1, <1>3, <2>1, <2>2 DEF MailRest
<1> QED
    BY <1>2, <1>3, <1>4, <1>5

(* What sendSMTP starts with is mail to do. *)
LEMMA MailCallsRest ==
    ASSUME env \in Environments
    PROVE  /\ MailCalls(env) \in Seq(Calls) /\ MailCalls(env) # <<>>
           /\ MailRest(MailCalls(env))
<1> DEFINE Mail(c) == c \in Seq(Calls) /\ c # <<>> /\ MailRest(c)
<1>1. ASSUME env.user
      PROVE  /\ Mail(<<"dial", "greeting", "starttls", "auth",
                       "mail", "rcpt", "data", "close">>)
             /\ Mail(<<"dial", "greeting", "auth",
                       "mail", "rcpt", "data", "close">>)
    BY <1>1 DEF Calls, MailRest
<1>2. /\ Mail(<<"dial", "greeting", "starttls",
                "mail", "rcpt", "data", "close">>)
      /\ Mail(<<"dial", "greeting", "mail", "rcpt", "data", "close">>)
    BY DEF Calls, MailRest
<1>3. /\ env.tls /\ env.user => MailCalls(env) =
            <<"dial", "greeting", "starttls", "auth",
              "mail", "rcpt", "data", "close">>
      /\ env.tls /\ ~env.user => MailCalls(env) =
            <<"dial", "greeting", "starttls",
              "mail", "rcpt", "data", "close">>
      /\ ~env.tls /\ env.user => MailCalls(env) =
            <<"dial", "greeting", "auth",
              "mail", "rcpt", "data", "close">>
      /\ ~env.tls /\ ~env.user => MailCalls(env) =
            <<"dial", "greeting", "mail", "rcpt", "data", "close">>
    BY DEF MailCalls
<1> HIDE DEF Mail
<1>4. Mail(MailCalls(env))
    BY <1>1, <1>2, <1>3, Zenon
<1> QED
    BY <1>4 DEF Mail

-----------------------------------------------------------------------------
(* How a call ends. *)

(* The end of Send, with a result the two properties allow. *)
LEMMA FinishKeeps ==
    ASSUME NEW j \in Jobs, Finish(j),
           ~j.error /\ j.post => j.taken,
           j.error => j.fault \/ Undeliverable'
    PROVE  JobInv'
<1>1. /\ job' \in Jobs /\ job'.pc = "record"
      /\ job'.error = j.error /\ job'.post = j.post /\ job'.taken = j.taken
      /\ job'.fault = j.fault
    BY EmptySeq DEF Finish, Jobs
<1> QED
    BY <1>1 DEF JobInv, SentMeansTaken, FailureHasACause

(* The end of Send with an error. *)
LEMMA FailKeeps ==
    ASSUME NEW j \in Jobs, NEW fault \in BOOLEAN, FailedBy(j, fault),
           fault \/ j.fault \/ Undeliverable'
    PROVE  JobInv'
<1> DEFINE k == [j EXCEPT !.error = TRUE, !.fault = @ \/ fault]
<1>1. /\ k \in Jobs /\ k.error /\ k.fault = (j.fault \/ fault)
      /\ Finish(k)
    BY DEF FailedBy, Jobs
<1> HIDE DEF k
<1> QED
    BY <1>1, FinishKeeps

(* What a call leaves as it is. *)
LEMMA ChannelKept ==
    ASSUME job'.channel = job.channel, UNCHANGED env
    PROVE  Undeliverable' <=> Undeliverable
BY DEF Undeliverable, SMTPAnySet

LEMMA FailedHere ==
    ASSUME job \in Jobs, NEW fault \in BOOLEAN, FailedBy(job, fault),
           UNCHANGED env, fault \/ job.fault \/ Undeliverable
    PROVE  JobInv'
<1>1. job'.channel = job.channel
    BY DEF FailedBy, Finish, Jobs
<1> QED
    BY <1>1, ChannelKept, FailKeeps

(* Send goes on. *)
LEMMA SendingKeeps ==
    ASSUME job' \in Jobs, job'.pc = "send", SendInv(job'), UNCHANGED env
    PROVE  JobInv'
<1>1. MailRest(job'.calls) => MailRest(job.calls)'
    BY DEF MailRest
<1>2. HTTPRest(job') => HTTPRest(job)'
    BY DEF HTTPRest, HTTPCalls
<1>3. SendInv(job)'
    BY <1>1, <1>2 DEF SendInv, Stored, Channels, Targets, ValidateChannelConfig
<1> QED
    BY <1>3 DEF JobInv, SentMeansTaken, FailureHasACause

(* Nothing changes for the worker. *)
LEMMA JobKept ==
    ASSUME JobInv, job' = job, UNCHANGED env
    PROVE  JobInv'
<1>1. CASE job.pc = "send"
    BY <1>1, SendingKeeps DEF JobInv
<1>2. CASE job.pc # "send"
    BY <1>2, ChannelKept DEF JobInv, SentMeansTaken, FailureHasACause
<1> QED
    BY <1>1, <1>2

(* A mail call the server answers, and not the last one. *)
LEMMA MailContinues ==
    ASSUME JobInv, job.pc = "send", job.channel.type = "email",
           Head(job.calls) # "close", Continue(job), UNCHANGED env
    PROVE  JobInv'
<1>1. /\ job \in Jobs /\ SendInv(job) /\ MailRest(job.calls)
      /\ job.calls \in Seq(Calls) /\ job.calls # <<>>
    BY DEF JobInv, SendInv, Jobs
<1>2. /\ Len(job.calls) # 1
      /\ Tail(job.calls) \in Seq(Calls) /\ Tail(job.calls) # <<>>
      /\ MailRest(Tail(job.calls))
    BY <1>1, RestOfMail
<1>3. job' = [job EXCEPT !.calls = Tail(job.calls)]
    BY <1>2 DEF Continue
<1>4. /\ job' \in Jobs /\ job'.pc = "send" /\ job'.calls = Tail(job.calls)
      /\ job'.channel = job.channel /\ job'.error = job.error
    BY <1>1, <1>2, <1>3 DEF Jobs
<1> QED
    BY <1>1, <1>2, <1>4
       DEF JobInv, SendInv, SentMeansTaken, FailureHasACause, MailRest

-----------------------------------------------------------------------------
(* The worker's steps. *)

(* A new event; what the process runs with has been validated. *)
LEMMA TakeKeeps ==
    ASSUME StartupInv, JobInv, ConfigInv, Take
    PROVE  JobInv'
<1>1. PICK ch \in Stored :
          LET j == [Idle EXCEPT !.pc = "send", !.channel = ch,
                                !.calls = CallsOf(ch.type, env)]
          IN  IF ch.type \notin Notifiers(env) \/ ch.target = "slack junk"
              THEN FailedBy(j, FALSE)
              ELSE job' = j
    BY DEF Take
<1>2. UNCHANGED env /\ env \in Environments /\ Validate(env)
    BY DEF Take, startupVars, StartupInv, StartupTypeOK, ConfigInv
<1>3. /\ HTTPCalls \in Seq(Calls) /\ HTTPCalls # <<>>
      /\ HTTPCalls # <<"dial", "exchange">>
    BY DEF HTTPCalls, Calls
<1>4. /\ CallsOf(ch.type, env) \in Seq(Calls) /\ CallsOf(ch.type, env) # <<>>
      /\ ch.type = "email" => MailRest(CallsOf(ch.type, env))
      /\ ch.type # "email" => CallsOf(ch.type, env) = HTTPCalls
    BY <1>2, <1>3, MailCallsRest DEF CallsOf
<1> DEFINE j == [Idle EXCEPT !.pc = "send", !.channel = ch,
                             !.calls = CallsOf(ch.type, env)]
<1>5. /\ j \in Jobs /\ j.pc = "send" /\ j.channel = ch /\ j.addrs = <<>>
      /\ j.calls = CallsOf(ch.type, env) /\ ~j.error
  <2>1. 0 \in 0..MaxHops /\ <<>> \in Seq({"up", "dead"})
    BY MaxHopsAssumption
  <2>2. PICK calls \in Seq(Calls) : calls = CallsOf(ch.type, env)
    BY <1>4
  <2>3. Idle \in Jobs /\ Idle.addrs = <<>> /\ ~Idle.error
    BY <2>1, EmptySeq DEF Idle, Jobs
  <2>4. j = [Idle EXCEPT !.pc = "send", !.channel = ch, !.calls = calls]
    BY <2>2
  <2> HIDE DEF j
  <2> QED
    BY <2>2, <2>3, <2>4 DEF Jobs
<1>6. CASE ch.type \notin Notifiers(env) \/ ch.target = "slack junk"
  <2>1. FailedBy(j, FALSE)
    BY <1>1, <1>6
  <2>2. job'.channel = ch
    BY <1>5, <2>1 DEF FailedBy, Finish, Jobs
  <2>3. ch.type \in {"email", "slack", "webhook"}
    BY DEF Stored, Channels, ValidateChannelConfig
  <2>4. Undeliverable'
    BY <1>2, <1>6, <2>2, <2>3 DEF Undeliverable, Notifiers, Validate, SMTPAnySet
  <2> QED
    BY <1>5, <2>1, <2>4, FailKeeps
<1>7. CASE ~(ch.type \notin Notifiers(env) \/ ch.target = "slack junk")
  <2>1. job' = j
    BY <1>1, <1>7
  <2> HIDE DEF j
  <2>2. SendInv(j)
    BY <1>3, <1>4, <1>5 DEF SendInv, HTTPRest
  <2>3. SendInv(job)'
    BY <1>2, <2>1, <2>2 DEF SendInv, MailRest, HTTPRest
  <2> QED
    BY <1>5, <2>1, <2>3 DEF JobInv, SentMeansTaken, FailureHasACause
<1> QED
    BY <1>6, <1>7

(* Refusals, lost answers, deadlines. *)
LEMMA FaultKeeps ==
    ASSUME JobInv, Fault \/ TimeOut
    PROVE  JobInv'
<1>1. job \in Jobs /\ UNCHANGED env
    BY DEF JobInv, Fault, TimeOut, startupVars
<1>2. CASE FailedBy(job, TRUE)
    BY <1>1, <1>2, FailedHere
<1>3. CASE FailedBy([job EXCEPT !.taken = job.post], TRUE)
  <2>1. [job EXCEPT !.taken = job.post] \in Jobs
    BY <1>1 DEF Jobs
  <2> QED
    BY <1>3, <2>1, FailKeeps
<1> QED
    BY <1>2, <1>3 DEF Fault, TimeOut

(* The login: no STARTTLS is to come, so it has been, if SMTP_TLS is set. *)
LEMMA AuthKeeps ==
    ASSUME StartupInv, JobInv, MailAuth
    PROVE  JobInv'
<1>1. /\ job \in Jobs /\ job.pc = "send" /\ SendInv(job) /\ UNCHANGED env
      /\ job.calls # <<>> /\ job.calls \in Seq(Calls) /\ Head(job.calls) = "auth"
    BY DEF JobInv, MailAuth, Calling, startupVars, Jobs
<1>2. /\ Len(job.calls) \in Nat \ {0} /\ Head(job.calls) = job.calls[1]
      /\ DOMAIN job.calls = 1..Len(job.calls)
    BY <1>1, EmptySeq, LenProperties
<1>3. job.channel.type = "email"
  <2>1. Head(HTTPCalls) # "auth" /\ Head(<<"dial", "exchange">>) # "auth"
        /\ Head(<<"exchange">>) # "auth"
    BY DEF HTTPCalls
  <2> QED
    BY <1>1, <2>1 DEF SendInv, HTTPRest
<1>4. /\ \A i \in 1..Len(job.calls) : job.calls[i] = "starttls" =>
            \A k \in 1..Len(job.calls) : job.calls[k] = "auth" => i < k
      /\ \A i \in 1..Len(job.calls) : job.calls[i] = "auth" => env.user
    BY <1>1, <1>3 DEF SendInv, MailRest
<1>5. env.user /\ Secure
    BY <1>1, <1>2, <1>4 DEF Secure
<1>6. CASE FailedBy(job, FALSE) /\ ~env.tls /\ env.host # "localhost"
  <2>1. Undeliverable
    BY <1>3, <1>5, <1>6 DEF Undeliverable
  <2> QED
    BY <1>1, <1>6, <2>1, FailedHere
<1>7. CASE Continue(job)
    BY <1>1, <1>3, <1>7, MailContinues
<1> QED
  <2>1. \/ Continue(job)
        \/ FailedBy(job, FALSE) /\ ~env.tls /\ env.host # "localhost"
    BY <1>5 DEF MailAuth
  <2> QED
    BY <1>6, <1>7, <2>1

(* The other calls of sendSMTP. *)
LEMMA MailKeeps ==
    ASSUME JobInv, MailDial \/ MailStep \/ MailEnvelope \/ MailClose
    PROVE  JobInv'
<1>1. /\ job \in Jobs /\ job.pc = "send" /\ SendInv(job) /\ UNCHANGED env
      /\ job.calls # <<>> /\ job.calls \in Seq(Calls)
    BY DEF JobInv, MailDial, MailStep, MailEnvelope, MailClose, Calling,
           startupVars, Jobs
<1>2. CASE MailStep
    BY <1>1, <1>2, MailContinues DEF MailStep, Calling
<1>3. CASE MailEnvelope
  <2>1. Head(job.calls) \in {"mail", "rcpt"}
    BY <1>3 DEF MailEnvelope, Calling
  <2>2. job.channel.type = "email"
    <3>1. /\ Head(HTTPCalls) = "resolve" /\ Head(<<"dial", "exchange">>) = "dial"
          /\ Head(<<"exchange">>) = "exchange"
      BY DEF HTTPCalls
    <3> QED
      BY <1>1, <2>1, <3>1 DEF SendInv, HTTPRest
  <2>3. \/ Continue(job)
        \/ FailedBy(job, FALSE)
           /\ (env.from = "other" \/ job.channel.target = "named")
    BY <1>3 DEF MailEnvelope
  <2>4. CASE Continue(job)
    BY <1>1, <2>1, <2>2, <2>4, MailContinues
  <2>5. CASE FailedBy(job, FALSE)
             /\ (env.from = "other" \/ job.channel.target = "named")
    BY <1>1, <2>2, <2>5, FailedHere DEF Undeliverable
  <2> QED
    BY <2>3, <2>4, <2>5
<1>4. CASE MailClose
  <2>1. /\ [job EXCEPT !.taken = TRUE] \in Jobs
        /\ [job EXCEPT !.taken = TRUE].taken
        /\ ~[job EXCEPT !.taken = TRUE].error
    BY <1>1 DEF Jobs, SendInv
  <2>2. Finish([job EXCEPT !.taken = TRUE])
    BY <1>4 DEF MailClose
  <2> QED
    BY <2>1, <2>2, FinishKeeps
<1>5. CASE MailDial
  <2>1. Head(job.calls) = "dial" /\ job.channel.type = "email"
    BY <1>5 DEF MailDial, Calling
  <2>2. CASE Continue(job)
    BY <1>1, <2>1, <2>2, MailContinues
  <2>3. CASE FailedBy(job, FALSE) /\ ~env.dialable
    BY <1>1, <2>1, <2>3, FailedHere DEF Undeliverable
  <2> QED
    BY <1>5, <2>2, <2>3 DEF MailDial, NothingToDial
<1> QED
    BY <1>2, <1>3, <1>4, <1>5

(* The calls of an http.Client, and what is left after each. *)
LEMMA HTTPTails ==
    /\ HTTPCalls \in Seq(Calls) /\ HTTPCalls # <<>> /\ Len(HTTPCalls) = 3
    /\ Head(HTTPCalls) = "resolve" /\ Tail(HTTPCalls) = <<"dial", "exchange">>
    /\ HTTPCalls # <<"dial", "exchange">>
    /\ <<"dial", "exchange">> \in Seq(Calls) /\ <<"dial", "exchange">> # <<>>
    /\ Len(<<"dial", "exchange">>) = 2 /\ Head(<<"dial", "exchange">>) = "dial"
    /\ Tail(<<"dial", "exchange">>) = <<"exchange">>
    /\ <<"exchange">> \in Seq(Calls) /\ <<"exchange">> # <<>>
    /\ Head(<<"exchange">>) = "exchange" /\ <<"exchange">> # <<"dial", "exchange">>
<1>1. HTTPCalls \in Seq(Calls) /\ <<"dial", "exchange">> \in Seq(Calls)
      /\ <<"exchange">> \in Seq(Calls)
    BY DEF HTTPCalls, Calls
<1>2. /\ Len(HTTPCalls) = 3 /\ Len(<<"dial", "exchange">>) = 2
      /\ Len(<<"exchange">>) = 1 /\ Len(<<>>) = 0
    BY DEF HTTPCalls
<1>3. /\ Head(HTTPCalls) = "resolve" /\ Head(<<"dial", "exchange">>) = "dial"
      /\ Head(<<"exchange">>) = "exchange"
    BY DEF HTTPCalls
<1>4. Tail(HTTPCalls) = <<"dial", "exchange">>
    BY DEF HTTPCalls
<1>5. Tail(<<"dial", "exchange">>) = <<"exchange">>
    OBVIOUS
<1> QED
    BY <1>1, <1>2, <1>3, <1>4, <1>5

(* Some address; if all of them are dead, that is a fault. *)
LEMMA ResolveKeeps ==
    ASSUME JobInv, Resolve
    PROVE  JobInv'
<1>1. /\ job \in Jobs /\ job.pc = "send" /\ SendInv(job) /\ UNCHANGED env
      /\ Head(job.calls) = "resolve" /\ job.calls # <<>>
      /\ job.calls \in Seq(Calls)
    BY DEF JobInv, Resolve, Calling, startupVars, Jobs
<1>2. job.channel.type # "email" /\ job.calls = HTTPCalls
  <2>1. job.channel.type # "email"
    <3>1. Len(job.calls) \in Nat \ {0} /\ Head(job.calls) = job.calls[1]
      BY <1>1, EmptySeq, LenProperties
    <3> QED
      BY <1>1, <3>1 DEF SendInv, MailRest
  <2> QED
    BY <1>1, <2>1, HTTPTails DEF SendInv, HTTPRest
<1>3. CASE \/ FailedBy(job, TRUE)
           \/ job.channel.target = "internal" /\ FailedBy(job, FALSE)
    BY <1>1, <1>3, FailedHere DEF Undeliverable
<1>4. ASSUME NEW n \in 1..MaxAddrs, NEW addrs \in [1..n -> {"up", "dead"}],
             Continue([job EXCEPT !.addrs = addrs,
                                  !.fault = @ \/ \A i \in 1..n : addrs[i] = "dead"])
      PROVE  JobInv'
  <2>1. PICK fault \in BOOLEAN :
            fault = (job.fault \/ \A i \in 1..n : addrs[i] = "dead")
    OBVIOUS
  <2>2. n \in Nat /\ n # 0
    BY MaxAddrsAssumption
  <2>3. addrs \in Seq({"up", "dead"}) /\ Len(addrs) = n /\ addrs # <<>>
    BY <2>2, SeqDef, EmptySeq
  <2> DEFINE j == [job EXCEPT !.addrs = addrs, !.fault = fault]
  <2>4. /\ j \in Jobs /\ j.pc = "send" /\ j.calls = HTTPCalls /\ ~j.error
        /\ j.addrs = addrs /\ j.fault = fault /\ j.channel = job.channel
        /\ j.channel \in Stored
    BY <1>1, <1>2, <2>3 DEF Jobs, SendInv
  <2>5. Continue(j)
    BY <1>4, <2>1
  <2> HIDE DEF j
  <2>6. job' = [j EXCEPT !.calls = <<"dial", "exchange">>]
    <3>1. Len(j.calls) # 1 /\ Tail(j.calls) = <<"dial", "exchange">>
      BY <2>4, HTTPTails
    <3>2. job' = [j EXCEPT !.calls = Tail(j.calls)]
      BY <2>5, <3>1 DEF Continue
    <3> QED
      BY <3>1, <3>2
  <2>7. /\ job' \in Jobs /\ job'.pc = "send" /\ ~job'.error
        /\ job'.calls = <<"dial", "exchange">> /\ job'.addrs = addrs
        /\ job'.fault = fault /\ job'.channel = job.channel
        /\ job'.channel \in Stored
    BY <2>4, <2>6, HTTPTails DEF Jobs
  <2>8. fault \/ \E i \in 1..Len(addrs) : addrs[i] = "up"
    BY <2>1, <2>3
  <2>9. SendInv(job')
    BY <1>2, <2>3, <2>7, <2>8, HTTPTails DEF SendInv, HTTPRest
  <2> QED
    BY <1>1, <2>7, <2>9, SendingKeeps
<1>5. ASSUME job.channel.target # "internal",
             \E n \in 1..MaxAddrs : \E addrs \in [1..n -> {"up", "dead"}] :
                Continue([job EXCEPT
                             !.addrs = addrs,
                             !.fault = @ \/ \A i \in 1..n : addrs[i] = "dead"])
      PROVE  JobInv'
    BY <1>4, <1>5
<1> QED
    BY <1>3, <1>5 DEF Resolve

(* A dead address; the last one fails the delivery, and then all were dead. *)
LEMMA DialKeeps ==
    ASSUME JobInv, Dial
    PROVE  JobInv'
<1>1. /\ job \in Jobs /\ job.pc = "send" /\ SendInv(job) /\ UNCHANGED env
      /\ Head(job.calls) = "dial" /\ job.channel.type # "email"
    BY DEF JobInv, Dial, Calling, startupVars
<1>2. /\ job.calls = <<"dial", "exchange">> /\ job.addrs # <<>>
      /\ job.fault \/ \E i \in 1..Len(job.addrs) : job.addrs[i] = "up"
    BY <1>1, HTTPTails DEF SendInv, HTTPRest
<1>3. job.addrs \in Seq({"up", "dead"})
    BY <1>1 DEF Jobs
<1>4. /\ Len(job.addrs) \in Nat \ {0} /\ Head(job.addrs) = job.addrs[1]
    BY <1>2, <1>3, EmptySeq, LenProperties
<1>5. CASE Head(job.addrs) = "up" /\ Continue([job EXCEPT !.addrs = <<>>])
  <2> DEFINE j == [job EXCEPT !.addrs = <<>>]
  <2>1. <<>> \in Seq({"up", "dead"})
    OBVIOUS
  <2>2. /\ j \in Jobs /\ j.pc = "send" /\ j.calls = <<"dial", "exchange">>
        /\ ~j.error /\ j.addrs = <<>> /\ j.channel = job.channel
        /\ j.channel \in Stored /\ Continue(j)
    BY <1>1, <1>2, <1>5, <2>1 DEF Jobs, SendInv
  <2> HIDE DEF j
  <2>3. job' = [j EXCEPT !.calls = <<"exchange">>]
    <3>1. Len(j.calls) # 1 /\ Tail(j.calls) = <<"exchange">>
      BY <2>2, HTTPTails
    <3>2. job' = [j EXCEPT !.calls = Tail(j.calls)]
      BY <2>2, <3>1 DEF Continue
    <3> QED
      BY <3>1, <3>2
  <2>4. /\ job' \in Jobs /\ job'.pc = "send" /\ ~job'.error
        /\ job'.calls = <<"exchange">> /\ job'.addrs = <<>>
        /\ job'.channel = job.channel /\ job'.channel \in Stored
    BY <2>2, <2>3, HTTPTails DEF Jobs
  <2>5. SendInv(job')
    BY <1>1, <2>4, HTTPTails DEF SendInv, HTTPRest
  <2> QED
    BY <1>1, <2>4, <2>5, SendingKeeps
<1>6. CASE Head(job.addrs) # "up" /\ Len(job.addrs) = 1 /\ FailedBy(job, FALSE)
  <2>1. \A i \in 1..Len(job.addrs) : i = 1
    BY <1>6
  <2>2. job.fault
    BY <1>2, <1>4, <1>6, <2>1
  <2> QED
    BY <1>1, <1>6, <2>2, FailedHere
<1>7. CASE /\ Head(job.addrs) # "up" /\ Len(job.addrs) # 1
           /\ job' = [job EXCEPT !.addrs = Tail(@)]
  <2>1. /\ Tail(job.addrs) \in Seq({"up", "dead"})
        /\ Len(Tail(job.addrs)) = Len(job.addrs) - 1
        /\ \A i \in 1..Len(Tail(job.addrs)) : Tail(job.addrs)[i] = job.addrs[i + 1]
    BY <1>2, <1>3, HeadTailProperties
  <2>2. Tail(job.addrs) # <<>>
    <3>1. Len(Tail(job.addrs)) # 0 /\ Len(<<>>) = 0
      BY <1>4, <1>7, <2>1
    <3> QED
      BY <3>1
  <2>3. ASSUME NEW i \in 1..Len(job.addrs), job.addrs[i] = "up"
        PROVE  \E k \in 1..Len(Tail(job.addrs)) : Tail(job.addrs)[k] = "up"
    <3>1. i # 1
      BY <1>4, <1>7, <2>3
    <3>2. i - 1 \in 1..Len(Tail(job.addrs)) /\ (i - 1) + 1 = i
      BY <1>4, <2>1, <3>1
    <3> QED
      BY <2>1, <2>3, <3>2
  <2>4. /\ job' \in Jobs /\ job'.pc = "send" /\ ~job'.error
        /\ job'.calls = <<"dial", "exchange">> /\ job'.addrs = Tail(job.addrs)
        /\ job'.fault = job.fault
        /\ job'.channel = job.channel /\ job'.channel \in Stored
    BY <1>1, <1>2, <1>7, <2>1 DEF Jobs, SendInv
  <2>5. SendInv(job')
    BY <1>1, <1>2, <2>2, <2>3, <2>4, HTTPTails DEF SendInv, HTTPRest
  <2> QED
    BY <1>1, <2>4, <2>5, SendingKeeps
<1> QED
    BY <1>5, <1>6, <1>7 DEF Dial

(* An answer, or a redirect that starts the calls over. *)
LEMMA ExchangeKeeps ==
    ASSUME JobInv, Exchange
    PROVE  JobInv'
<1>1. /\ job \in Jobs /\ job.pc = "send" /\ SendInv(job) /\ UNCHANGED env
      /\ Head(job.calls) = "exchange" /\ job.calls # <<>>
      /\ job.calls \in Seq(Calls)
    BY DEF JobInv, Exchange, Calling, startupVars, Jobs
<1>2. job.channel.type \in {"slack", "webhook"}
  <2>1. Len(job.calls) \in Nat \ {0} /\ Head(job.calls) = job.calls[1]
    BY <1>1, EmptySeq, LenProperties
  <2>2. job.channel.type # "email"
    BY <1>1, <2>1 DEF SendInv, MailRest
  <2> QED
    BY <1>1, <2>2 DEF SendInv, Stored, Channels, ValidateChannelConfig
<1>3. job.addrs # <<>> =>
          job.fault \/ \E i \in 1..Len(job.addrs) : job.addrs[i] = "up"
    BY <1>1, <1>2 DEF SendInv, HTTPRest
<1>4. PICK answer \in Answers :
          IF answer \in {"303", "307"}
          THEN IF job.hops = MaxHops
               THEN FailedBy(job, TRUE)
               ELSE job' = [job EXCEPT !.calls = HTTPCalls,
                                       !.hops = @ + 1,
                                       !.post = @ /\ answer = "307"]
          ELSE LET type == job.channel.type
                   j == [job EXCEPT !.taken = job.post /\ Takes(type, answer)]
               IN  IF Success(type, answer) THEN Finish(j)
                                            ELSE FailedBy(j, TRUE)
    BY DEF Exchange
<1>5. CASE FailedBy(job, TRUE)
    BY <1>1, <1>5, FailedHere
<1>6. CASE /\ job.hops # MaxHops
           /\ job' = [job EXCEPT !.calls = HTTPCalls, !.hops = @ + 1,
                                 !.post = @ /\ answer = "307"]
  <2>1. job.hops + 1 \in 0..MaxHops
    BY <1>1, <1>6, MaxHopsAssumption DEF Jobs
  <2>2. PICK post \in BOOLEAN : post = (job.post /\ answer = "307")
    OBVIOUS
  <2>3. /\ job' \in Jobs /\ job'.pc = "send" /\ ~job'.error
        /\ job'.calls = HTTPCalls /\ job'.addrs = job.addrs
        /\ job'.fault = job.fault
        /\ job'.channel = job.channel /\ job'.channel \in Stored
    BY <1>1, <1>6, <2>1, <2>2, HTTPTails DEF Jobs, SendInv
  <2>4. SendInv(job')
    BY <1>2, <1>3, <2>3, HTTPTails DEF SendInv, HTTPRest
  <2> QED
    BY <1>1, <2>3, <2>4, SendingKeeps
<1>7. ASSUME NEW taken \in BOOLEAN,
             taken = (job.post /\ Takes(job.channel.type, answer)),
             \/ /\ Success(job.channel.type, answer)
                /\ Finish([job EXCEPT !.taken = taken])
             \/ FailedBy([job EXCEPT !.taken = taken], TRUE)
      PROVE  JobInv'
  <2> DEFINE j == [job EXCEPT !.taken = taken]
  <2>1. j \in Jobs /\ ~j.error /\ j.taken = taken /\ j.post = job.post
    BY <1>1, <1>7 DEF Jobs, SendInv
  <2>2. CASE Success(job.channel.type, answer) /\ Finish(j)
    <3>1. Takes(job.channel.type, answer)
      BY <1>2, <2>2 DEF Success, Takes
    <3>2. j.post => j.taken
      BY <1>7, <2>1, <3>1
    <3> HIDE DEF j
    <3> QED
      BY <2>1, <2>2, <3>2, FinishKeeps
  <2>3. CASE FailedBy(j, TRUE)
    <3> HIDE DEF j
    <3> QED
      BY <2>1, <2>3, FailKeeps
  <2> QED
    BY <1>7, <2>2, <2>3
<1> QED
  <2>1. PICK taken \in BOOLEAN :
            taken = (job.post /\ Takes(job.channel.type, answer))
    OBVIOUS
  <2>2. CASE answer \in {"303", "307"}
    BY <1>4, <1>5, <1>6, <2>2
  <2>3. CASE answer \notin {"303", "307"}
    <3>1. \/ /\ Success(job.channel.type, answer)
             /\ Finish([job EXCEPT !.taken =
                            job.post /\ Takes(job.channel.type, answer)])
          \/ FailedBy([job EXCEPT !.taken =
                            job.post /\ Takes(job.channel.type, answer)], TRUE)
      BY <1>4, <2>3
    <3>2. [job EXCEPT !.taken = job.post /\ Takes(job.channel.type, answer)]
              = [job EXCEPT !.taken = taken]
      BY <2>1
    <3>3. \/ /\ Success(job.channel.type, answer)
             /\ Finish([job EXCEPT !.taken = taken])
          \/ FailedBy([job EXCEPT !.taken = taken], TRUE)
      BY <3>1, <3>2
    <3> QED
      BY <1>7, <2>1, <3>3
  <2> QED
    BY <2>2, <2>3

-----------------------------------------------------------------------------
(* The specification. *)

IInv == StartupInv /\ ConfigInv /\ JobInv

(* A step of the process leaves the worker alone or ends it with itself. *)
LEMMA BesideKeeps ==
    ASSUME IInv, StartupStep,
           job' = job \/ job' = Idle
    PROVE  ConfigInv' /\ JobInv'
<1>1. UNCHANGED env
    BY DEF StartupStep, Proceed, Start, LoadConfig, OpenDB, CreateTracking,
           CheckVersion, Begin, ExecStatements, RecordVersion, Commit, Hydrate,
           StartGoroutines, Listen, Stop, Return, Kill, Settle, Refused, Gone
<1>2. ConfigInv'
  <2>1. main' \notin {"down", "config"} =>
            main \notin {"down", "config"} \/ Validate(env)
    BY DEF StartupStep, Proceed, Start, LoadConfig, OpenDB, CreateTracking,
           CheckVersion, Begin, ExecStatements, RecordVersion, Commit, Hydrate,
           StartGoroutines, Listen, Stop, Return, Kill, Settle, Refused, Gone,
           GoTo
  <2> QED
    BY <1>1, <2>1 DEF IInv, ConfigInv, Validate, SMTPAnySet
<1>3. CASE job' = job
    BY <1>1, <1>2, <1>3, JobKept DEF IInv
<1>4. CASE job' = Idle
  <2>1. /\ 0 \in 0..MaxHops /\ <<>> \in Seq({"up", "dead"})
        /\ <<>> \in Seq(Calls)
    BY MaxHopsAssumption
  <2>2. Idle \in Jobs /\ Idle.pc = "idle"
    BY <2>1 DEF Idle, Jobs
  <2> QED
    BY <1>2, <1>4, <2>2 DEF JobInv, SentMeansTaken, FailureHasACause
<1> QED
    BY <1>2, <1>3, <1>4

LEMMA InitEstablishes == Init => IInv
<1> SUFFICES ASSUME Init
             PROVE  IInv
    OBVIOUS
<1>1. StartupInv /\ main = "down"
    BY StartupInitEstablishes DEF Init, StartupInit
<1>2. /\ 0 \in 0..MaxHops /\ <<>> \in Seq({"up", "dead"})
      /\ <<>> \in Seq(Calls)
    BY MaxHopsAssumption
<1>3. Idle \in Jobs /\ Idle.pc = "idle" /\ job = Idle
    BY <1>2 DEF Idle, Jobs, Init
<1> QED
    BY <1>1, <1>3
       DEF IInv, ConfigInv, JobInv, SentMeansTaken, FailureHasACause

LEMMA StepKeeps == IInv /\ [Next]_vars => IInv'
<1> SUFFICES ASSUME IInv, [Next]_vars
             PROVE  IInv'
    OBVIOUS
<1>1. StartupInv /\ ConfigInv /\ JobInv
    BY DEF IInv
<1>2. CASE StartupStep /\ (job' = job \/ job' = Idle)
    BY <1>1, <1>2, StartupKeeps, BesideKeeps DEF IInv
<1>3. ASSUME UNCHANGED startupVars, JobInv'
      PROVE  IInv'
    BY <1>1, <1>3, StartupKeeps DEF IInv, ConfigInv, Validate, SMTPAnySet, startupVars
<1>4. CASE UNCHANGED vars
  <2>1. UNCHANGED startupVars /\ job' = job
    BY <1>4 DEF vars
  <2>2. JobInv'
    BY <1>1, <2>1, JobKept DEF startupVars
  <2> QED
    BY <1>3, <2>1, <2>2
<1>5. CASE ProceedStep \/ ReturnStep \/ ((Stop \/ Kill \/ Settle) /\ Beside)
    BY <1>2, <1>5 DEF ProceedStep, ReturnStep, Beside, StartupStep
<1>6. CASE Take
    BY <1>1, <1>3, <1>6, TakeKeeps DEF Take
<1>7. CASE Record
  <2>1. /\ 0 \in 0..MaxHops /\ <<>> \in Seq({"up", "dead"})
        /\ <<>> \in Seq(Calls)
    BY MaxHopsAssumption
  <2>2. Idle \in Jobs /\ Idle.pc = "idle" /\ job' = Idle
    BY <1>7, <2>1 DEF Idle, Jobs, Record
  <2>3. JobInv'
    BY <2>2 DEF JobInv, SentMeansTaken, FailureHasACause
  <2> QED
    BY <1>3, <1>7, <2>3 DEF Record
<1>8. CASE Fault \/ TimeOut
    BY <1>1, <1>3, <1>8, FaultKeeps DEF Fault, TimeOut
<1>9. CASE MailAuth
    BY <1>1, <1>3, <1>9, AuthKeeps DEF MailAuth
<1>10. CASE MailDial \/ MailStep \/ MailEnvelope \/ MailClose
    BY <1>1, <1>3, <1>10, MailKeeps
       DEF MailDial, MailStep, MailEnvelope, MailClose
<1>11. CASE Resolve
    BY <1>1, <1>3, <1>11, ResolveKeeps DEF Resolve
<1>12. CASE Dial
    BY <1>1, <1>3, <1>12, DialKeeps DEF Dial
<1>13. CASE Exchange
    BY <1>1, <1>3, <1>13, ExchangeKeeps DEF Exchange
<1> QED
    BY <1>4, <1>5, <1>6, <1>7, <1>8, <1>9, <1>10, <1>11, <1>12, <1>13 DEF Next

LEMMA Invariant == Spec => []IInv
BY InitEstablishes, StepKeeps, PTL DEF Spec

-----------------------------------------------------------------------------
(* A start that nothing disturbs goes on. *)

LEMMA PhaseValues ==
    /\ Phase["down"] = 0 /\ Phase["config"] = 1 /\ Phase["open"] = 2
    /\ Phase["track"] = 3
    /\ \A p \in {"check", "begin"} \cup InTx : Phase[p] = 4
    /\ Phase["hydrate"] = 5 /\ Phase["start"] = 6 /\ Phase["listen"] = 7
    /\ Phase["serving"] = 8
BY DEF Phase, Phases, InTx

LEMMA EntryPhaseValues ==
    /\ EntryPhase["check"] = 0 /\ EntryPhase["begin"] = 1
    /\ EntryPhase["exec"] = 2 /\ EntryPhase["record"] = 3
    /\ EntryPhase["commit"] = 4
BY DEF EntryPhase, Phases

(* The next phase, the next entry, the next phase of the entry, the next    *)
(* statement.                                                               *)
LEMMA NextPhase ==
    ASSUME \/ <<main, main'>> \in
                {<<"down", "config">>, <<"config", "open">>, <<"open", "track">>,
                 <<"track", "check">>, <<"check", "hydrate">>,
                 <<"hydrate", "start">>, <<"start", "listen">>,
                 <<"listen", "serving">>}
           \/ /\ <<main, main'>> \in {<<"commit", "check">>, <<"check", "check">>}
              /\ file' > file
           \/ /\ <<main, main'>> \in
                   {<<"check", "begin">>, <<"begin", "exec">>,
                    <<"exec", "record">>, <<"record", "commit">>}
              /\ file' = file
           \/ main = "exec" /\ main' = "exec" /\ file' = file /\ stmt' > stmt
    PROVE  Further
<1>1. CASE <<main, main'>> \in
               {<<"down", "config">>, <<"config", "open">>, <<"open", "track">>,
                <<"track", "check">>, <<"check", "hydrate">>,
                <<"hydrate", "start">>, <<"start", "listen">>,
                <<"listen", "serving">>}
    BY <1>1, PhaseValues DEF Further
<1>2. CASE /\ <<main, main'>> \in {<<"commit", "check">>, <<"check", "check">>}
           /\ file' > file
    BY <1>2, PhaseValues DEF Further, InTx
<1>3. CASE /\ <<main, main'>> \in
                  {<<"check", "begin">>, <<"begin", "exec">>,
                   <<"exec", "record">>, <<"record", "commit">>}
           /\ file' = file
    BY <1>3, PhaseValues, EntryPhaseValues DEF Further, InTx
<1>4. CASE main = "exec" /\ main' = "exec" /\ file' = file /\ stmt' > stmt
    BY <1>4 DEF Further
<1> QED
    BY <1>1, <1>2, <1>3, <1>4

LEMMA DurationType ==
    ASSUME NEW n \in Int
    PROVE  Duration(n) \in Int
<1>1. MaxDuration \in Nat /\ n * Second \in Int
    BY SecondAssumption, DurationAssumption
<1> QED
    BY <1>1 DEF Duration

(* What a transaction is about to create is not there yet. *)
LEMMA TableIsFree ==
    ASSUME StartupInv, main = "exec", stmt < Len(Files[file])
    PROVE  Files[file][stmt + 1] \notin objects \cup tx.objects
<1>1. /\ file \in DOMAIN Files \ applied /\ stmt \in Nat
      /\ tx.objects = {Files[file][i] : i \in 1..stmt}
      /\ Creates(file) \cap objects = {}
    BY DEF StartupInv, StartupTypeOK, LoopInv, TxInv, InTx, RecordedIsComplete
<1>2. stmt + 1 \in DOMAIN Files[file] /\ 1..stmt \subseteq DOMAIN Files[file]
    BY <1>1, FilesType
<1>3. Files[file][stmt + 1] \notin objects
    BY <1>1, <1>2 DEF Creates
<1>4. \A i \in 1..stmt : Files[file][i] # Files[file][stmt + 1]
  <2> SUFFICES ASSUME NEW i \in 1..stmt,
                      Files[file][i] = Files[file][stmt + 1]
               PROVE  FALSE
    OBVIOUS
  <2>1. i = stmt + 1
    BY <1>1, <1>2, FilesAssumption
  <2> QED
    BY <1>1, <2>1
<1> QED
    BY <1>1, <1>3, <1>4

(* Nothing Migrate or Hydrate looks for is in the way or missing. *)
LEMMA CalmStepIsFurther ==
    ASSUME StartupInv, StartupStep, Startable, main # "stopping"
    PROVE  Further
<1> USE DEF GoTo
<1>1. /\ calm /\ Validate(env) /\ Duration(env.interval) > 0
      /\ StartupTypeOK /\ LoopInv /\ TxInv /\ RecordedIsComplete
      /\ file \in Nat /\ stmt \in Nat
    BY DEF Startable, StartupInv, StartupTypeOK
<1>2. ~Refused /\ ~Stop /\ ~Kill /\ ~Settle /\ ~Return
    BY <1>1 DEF Refused, Stop, Kill, Settle, Return
<1>3. CASE Start \/ LoadConfig \/ OpenDB \/ CreateTracking
    BY <1>1, <1>2, <1>3, NextPhase DEF Start, LoadConfig, OpenDB, CreateTracking
<1>4. CASE CheckVersion
  <2>1. /\ main = "check"
        /\ \/ main' = "hydrate"
           \/ main' = "check" /\ file' = file + 1
           \/ main' = "begin" /\ file' = file
    BY <1>2, <1>4 DEF CheckVersion
  <2>2. file + 1 > file
    BY <1>1
  <2> QED
    BY <2>1, <2>2, NextPhase
<1>5. CASE Begin
    BY <1>2, <1>5, NextPhase DEF Begin
<1>6. CASE ExecStatements
  <2>1. /\ main = "exec" /\ file' = file
        /\ \/ main' = "exec" /\ stmt' = stmt + 1
           \/ main' = "record"
    BY <1>2, <1>6, TableIsFree DEF ExecStatements
  <2> QED
    BY <1>1, <2>1, NextPhase
<1>7. CASE RecordVersion
  <2>1. file \notin applied \cup tx.versions
    BY <1>1, <1>7 DEF RecordVersion, LoopInv, TxInv, InTx
  <2> QED
    BY <1>2, <1>7, <2>1, NextPhase DEF RecordVersion
<1>8. CASE Commit
  <2>1. main = "commit" /\ main' = "check" /\ file' = file + 1
    BY <1>2, <1>8 DEF Commit
  <2>2. file + 1 > file
    BY <1>1
  <2> QED
    BY <2>1, <2>2, NextPhase
<1>9. CASE Hydrate
  <2>1. applied = DOMAIN Files
    BY <1>1, <1>9 DEF Hydrate, LoopInv, Migrated
  <2>2. ChecksTable \in objects
    BY <1>1, <2>1, ChecksTableAssumption DEF RecordedIsComplete, Creates
  <2> QED
    BY <1>2, <1>9, <2>2, NextPhase DEF Hydrate
<1>10. CASE StartGoroutines
  <2>1. PICK d \in Int : d = Duration(env.interval)
    BY <1>1, IntervalsAssumption, DurationType DEF StartupTypeOK, Environments
  <2>2. ~(Duration(env.interval) <= 0)
    BY <1>1, <2>1
  <2>3. main = "start" /\ main' = "listen"
    BY <1>10, <2>2 DEF StartGoroutines
  <2> QED
    BY <2>3, NextPhase
<1>11. CASE Listen
    BY <1>1, <1>11, NextPhase DEF Listen
<1> QED
    BY <1>2, <1>3, <1>4, <1>5, <1>6, <1>7, <1>8, <1>9, <1>10, <1>11
       DEF StartupStep, Proceed

-----------------------------------------------------------------------------
(* Send does not go round in circles. *)

(* The worker after a Send that is over. *)
LEMMA FinishEnds ==
    ASSUME NEW j \in Jobs, Finish(j)
    PROVE  job'.pc = "record"
BY DEF Finish, Jobs

LEMMA FailureEnds ==
    ASSUME NEW j \in Jobs, NEW fault \in BOOLEAN, FailedBy(j, fault)
    PROVE  job'.pc = "record"
<1> DEFINE k == [j EXCEPT !.error = TRUE, !.fault = @ \/ fault]
<1>1. k \in Jobs /\ Finish(k)
    BY DEF FailedBy, Jobs
<1> HIDE DEF k
<1> QED
    BY <1>1, FinishEnds

(* Addresses are there from resolving the name to the connection. *)
AddrsInv ==
    job.pc = "send" /\ job.channel.type # "email" =>
        /\ Len(job.addrs) <= MaxAddrs
        /\ job.calls # <<"dial", "exchange">> => job.addrs = <<>>

(* The ways in which a Send goes on. *)
MailGoesOn ==
    /\ job.channel.type = "email" /\ Head(job.calls) # "close"
    /\ job'.calls = Tail(job.calls)

NameResolved ==
    /\ job.channel.type # "email"
    /\ job.calls = HTTPCalls /\ job'.calls = <<"dial", "exchange">>
    /\ Len(job'.addrs) \in 1..MaxAddrs
    /\ job'.hops = job.hops

Connected ==
    /\ job.channel.type # "email"
    /\ job.calls = <<"dial", "exchange">> /\ job'.calls = <<"exchange">>
    /\ job'.addrs = <<>> /\ job'.hops = job.hops

AddressDead ==
    /\ job.channel.type # "email"
    /\ job.calls = <<"dial", "exchange">> /\ job'.calls = job.calls
    /\ Len(job'.addrs) = Len(job.addrs) - 1
    /\ job'.hops = job.hops

Redirected ==
    /\ job.channel.type # "email"
    /\ job.calls = <<"exchange">> /\ job'.calls = HTTPCalls
    /\ job'.addrs = job.addrs
    /\ job.hops < MaxHops /\ job'.hops = job.hops + 1

GoesOn ==
    /\ job'.pc = "send" /\ job'.channel = job.channel
    /\ \/ MailGoesOn \/ NameResolved \/ Connected \/ AddressDead \/ Redirected

Over == job'.pc # "send"

LEMMA MailStepGoesOn ==
    ASSUME JobInv, job.pc = "send", job.channel.type = "email",
           Head(job.calls) # "close", Continue(job)
    PROVE  GoesOn
<1>1. /\ job \in Jobs /\ MailRest(job.calls)
      /\ job.calls \in Seq(Calls) /\ job.calls # <<>>
    BY DEF JobInv, SendInv, Jobs
<1>2. Len(job.calls) # 1 /\ Tail(job.calls) \in Seq(Calls)
    BY <1>1, RestOfMail
<1>3. job' = [job EXCEPT !.calls = Tail(job.calls)]
    BY <1>2 DEF Continue
<1>4. /\ job'.pc = "send" /\ job'.channel = job.channel
      /\ job'.calls = Tail(job.calls)
    BY <1>1, <1>2, <1>3 DEF Jobs
<1> QED
    BY <1>4 DEF GoesOn, MailGoesOn

(* Which channel a call belongs to, and what is left of its delivery. *)
LEMMA CallTells ==
    ASSUME JobInv, job.pc = "send"
    PROVE  /\ job \in Jobs /\ job.calls # <<>>
           /\ Head(job.calls) \in {"auth", "mail", "rcpt", "close"} =>
                 job.channel.type = "email"
           /\ Head(job.calls) = "resolve" =>
                 job.channel.type # "email" /\ job.calls = HTTPCalls
           /\ Head(job.calls) = "dial" /\ job.channel.type # "email" =>
                 job.calls = <<"dial", "exchange">> /\ job.addrs # <<>>
           /\ Head(job.calls) = "exchange" =>
                 job.channel.type # "email" /\ job.calls = <<"exchange">>
<1>1. job \in Jobs /\ SendInv(job) /\ job.calls # <<>> /\ job.calls \in Seq(Calls)
    BY DEF JobInv, SendInv, Jobs
<1>2. Len(job.calls) \in Nat \ {0} /\ Head(job.calls) = job.calls[1]
    BY <1>1, EmptySeq, LenProperties
<1>3. job.channel.type = "email" => Head(job.calls) \notin {"resolve", "exchange"}
    BY <1>1, <1>2 DEF SendInv, MailRest
<1>4. job.channel.type # "email" =>
          /\ job.calls \in {HTTPCalls, <<"dial", "exchange">>, <<"exchange">>}
          /\ job.calls = <<"dial", "exchange">> => job.addrs # <<>>
    BY <1>1 DEF SendInv, HTTPRest
<1>5. job.channel.type # "email" =>
          \/ job.calls = HTTPCalls /\ Head(job.calls) = "resolve"
          \/ job.calls = <<"dial", "exchange">> /\ Head(job.calls) = "dial"
          \/ job.calls = <<"exchange">> /\ Head(job.calls) = "exchange"
    BY <1>4, HTTPTails
<1> QED
    BY <1>1, <1>3, <1>4, <1>5

LEMMA MailCallsGoOn ==
    ASSUME JobInv, MailDial \/ MailStep \/ MailAuth \/ MailEnvelope \/ MailClose
    PROVE  GoesOn \/ Over
<1>1. job.pc = "send" /\ job \in Jobs
    BY CallTells DEF MailDial, MailStep, MailAuth, MailEnvelope, MailClose, Calling
<1>2. CASE MailStep
    BY <1>2, MailStepGoesOn DEF MailStep, Calling
<1>3. CASE MailAuth
  <2>1. job.channel.type = "email" /\ Head(job.calls) # "close"
    BY <1>1, <1>3, CallTells DEF MailAuth, Calling
  <2>2. FailedBy(job, FALSE) \/ Continue(job)
    BY <1>3 DEF MailAuth
  <2> QED
    BY <1>1, <2>1, <2>2, MailStepGoesOn, FailureEnds DEF Over
<1>4. CASE MailEnvelope
  <2>1. job.channel.type = "email" /\ Head(job.calls) # "close"
    BY <1>1, <1>4, CallTells DEF MailEnvelope, Calling
  <2>2. FailedBy(job, FALSE) \/ Continue(job)
    BY <1>4 DEF MailEnvelope
  <2> QED
    BY <1>1, <2>1, <2>2, MailStepGoesOn, FailureEnds DEF Over
<1>5. CASE MailClose
  <2>1. [job EXCEPT !.taken = TRUE] \in Jobs
    BY <1>1 DEF Jobs
  <2> QED
    BY <1>5, <2>1, FinishEnds DEF MailClose, Over
<1>6. CASE MailDial
  <2>1. job.channel.type = "email" /\ Head(job.calls) # "close"
    BY <1>6 DEF MailDial, Calling
  <2>2. FailedBy(job, FALSE) \/ Continue(job)
    BY <1>6 DEF MailDial
  <2> QED
    BY <1>1, <2>1, <2>2, MailStepGoesOn, FailureEnds DEF Over
<1> QED
    BY <1>2, <1>3, <1>4, <1>5, <1>6

LEMMA FaultsAreOver ==
    ASSUME JobInv, Fault \/ TimeOut
    PROVE  Over
<1>1. job \in Jobs /\ [job EXCEPT !.taken = job.post] \in Jobs
    BY DEF JobInv, Jobs
<1> QED
    BY <1>1, FailureEnds DEF Fault, TimeOut, Over

LEMMA ResolveGoesOn ==
    ASSUME JobInv, Resolve
    PROVE  GoesOn \/ Over
<1>1. /\ job.pc = "send" /\ job \in Jobs /\ job.channel.type # "email"
      /\ job.calls = HTTPCalls
    BY CallTells DEF Resolve, Calling
<1>2. CASE FailedBy(job, TRUE) \/ FailedBy(job, FALSE)
    BY <1>1, <1>2, FailureEnds DEF Over
<1>3. ASSUME NEW n \in 1..MaxAddrs, NEW addrs \in [1..n -> {"up", "dead"}],
             Continue([job EXCEPT !.addrs = addrs,
                                  !.fault = @ \/ \A i \in 1..n : addrs[i] = "dead"])
      PROVE  GoesOn
  <2>1. PICK fault \in BOOLEAN :
            fault = (job.fault \/ \A i \in 1..n : addrs[i] = "dead")
    OBVIOUS
  <2>2. n \in Nat /\ n # 0
    BY MaxAddrsAssumption
  <2>3. addrs \in Seq({"up", "dead"}) /\ Len(addrs) = n
    BY <2>2, SeqDef
  <2> DEFINE j == [job EXCEPT !.addrs = addrs, !.fault = fault]
  <2>4. /\ j \in Jobs /\ j.pc = "send" /\ j.calls = HTTPCalls
        /\ j.addrs = addrs /\ j.channel = job.channel /\ j.hops = job.hops
    BY <1>1, <2>3 DEF Jobs
  <2>5. Continue(j)
    BY <1>3, <2>1
  <2> HIDE DEF j
  <2>6. job' = [j EXCEPT !.calls = <<"dial", "exchange">>]
    <3>1. Len(j.calls) # 1 /\ Tail(j.calls) = <<"dial", "exchange">>
      BY <2>4, HTTPTails
    <3>2. job' = [j EXCEPT !.calls = Tail(j.calls)]
      BY <2>5, <3>1 DEF Continue
    <3> QED
      BY <3>1, <3>2
  <2>7. /\ job'.pc = "send" /\ job'.calls = <<"dial", "exchange">>
        /\ job'.addrs = addrs /\ job'.channel = job.channel
        /\ job'.hops = job.hops
    BY <2>4, <2>6 DEF Jobs
  <2> QED
    BY <1>1, <2>3, <2>7 DEF GoesOn, NameResolved
<1> QED
    BY <1>2, <1>3 DEF Resolve

LEMMA DialGoesOn ==
    ASSUME JobInv, Dial
    PROVE  GoesOn \/ Over
<1>1. /\ job.pc = "send" /\ job \in Jobs /\ job.channel.type # "email"
      /\ job.calls = <<"dial", "exchange">> /\ job.addrs # <<>>
      /\ job.addrs \in Seq({"up", "dead"})
    BY CallTells DEF Dial, Calling, Jobs
<1>2. CASE Continue([job EXCEPT !.addrs = <<>>])
  <2> DEFINE j == [job EXCEPT !.addrs = <<>>]
  <2>1. /\ j \in Jobs /\ j.pc = "send" /\ j.calls = <<"dial", "exchange">>
        /\ j.addrs = <<>> /\ j.channel = job.channel /\ j.hops = job.hops
        /\ Continue(j)
    BY <1>1, <1>2, EmptySeq DEF Jobs
  <2> HIDE DEF j
  <2>2. job' = [j EXCEPT !.calls = <<"exchange">>]
    <3>1. Len(j.calls) # 1 /\ Tail(j.calls) = <<"exchange">>
      BY <2>1, HTTPTails
    <3>2. job' = [j EXCEPT !.calls = Tail(j.calls)]
      BY <2>1, <3>1 DEF Continue
    <3> QED
      BY <3>1, <3>2
  <2>3. /\ job'.pc = "send" /\ job'.calls = <<"exchange">>
        /\ job'.addrs = <<>> /\ job'.channel = job.channel
        /\ job'.hops = job.hops
    BY <2>1, <2>2 DEF Jobs
  <2> QED
    BY <1>1, <2>3 DEF GoesOn, Connected
<1>3. CASE FailedBy(job, FALSE)
    BY <1>1, <1>3, FailureEnds DEF Over
<1>4. CASE job' = [job EXCEPT !.addrs = Tail(@)]
  <2>1. Len(Tail(job.addrs)) = Len(job.addrs) - 1
    BY <1>1, HeadTailProperties
  <2>2. /\ job'.pc = "send" /\ job'.calls = job.calls
        /\ job'.addrs = Tail(job.addrs) /\ job'.channel = job.channel
        /\ job'.hops = job.hops
    BY <1>1, <1>4 DEF Jobs
  <2> QED
    BY <1>1, <2>1, <2>2 DEF GoesOn, AddressDead
<1> QED
    BY <1>2, <1>3, <1>4 DEF Dial

LEMMA ExchangeGoesOn ==
    ASSUME JobInv, Exchange
    PROVE  GoesOn \/ Over
<1>1. /\ job.pc = "send" /\ job \in Jobs /\ job.channel.type # "email"
      /\ job.calls = <<"exchange">>
    BY CallTells DEF Exchange, Calling
<1>2. PICK answer \in Answers :
          \/ FailedBy(job, TRUE)
          \/ /\ job.hops # MaxHops
             /\ job' = [job EXCEPT !.calls = HTTPCalls, !.hops = @ + 1,
                                   !.post = @ /\ answer = "307"]
          \/ Finish([job EXCEPT !.taken =
                         job.post /\ Takes(job.channel.type, answer)])
          \/ FailedBy([job EXCEPT !.taken =
                           job.post /\ Takes(job.channel.type, answer)], TRUE)
    BY DEF Exchange
<1>3. CASE FailedBy(job, TRUE)
    BY <1>1, <1>3, FailureEnds DEF Over
<1>4. CASE /\ job.hops # MaxHops
           /\ job' = [job EXCEPT !.calls = HTTPCalls, !.hops = @ + 1,
                                 !.post = @ /\ answer = "307"]
  <2>1. job.hops < MaxHops
    BY <1>1, <1>4, MaxHopsAssumption DEF Jobs
  <2>2. /\ job'.pc = "send" /\ job'.calls = HTTPCalls
        /\ job'.addrs = job.addrs /\ job'.channel = job.channel
        /\ job'.hops = job.hops + 1
    BY <1>1, <1>4 DEF Jobs
  <2> QED
    BY <1>1, <2>1, <2>2 DEF GoesOn, Redirected
<1>5. CASE \/ Finish([job EXCEPT !.taken =
                          job.post /\ Takes(job.channel.type, answer)])
           \/ FailedBy([job EXCEPT !.taken =
                            job.post /\ Takes(job.channel.type, answer)], TRUE)
  <2>1. PICK taken \in BOOLEAN :
            taken = (job.post /\ Takes(job.channel.type, answer))
    OBVIOUS
  <2>2. [job EXCEPT !.taken = taken] \in Jobs
    BY <1>1 DEF Jobs
  <2>3. \/ Finish([job EXCEPT !.taken = taken])
        \/ FailedBy([job EXCEPT !.taken = taken], TRUE)
    BY <1>5, <2>1
  <2> QED
    BY <2>2, <2>3, FinishEnds, FailureEnds DEF Over
<1> QED
    BY <1>2, <1>3, <1>4, <1>5

(* While it sends, every step of the system is one of these. *)
LEMMA SendSteps ==
    ASSUME IInv, [Next]_vars, job.pc = "send"
    PROVE  GoesOn \/ Over \/ job' = job
<1>1. JobInv
    BY DEF IInv
<1>2. CASE UNCHANGED vars
    BY <1>2 DEF vars
<1>3. CASE ProceedStep \/ ReturnStep \/ ((Stop \/ Kill \/ Settle) /\ Beside)
  <2>1. job' = job \/ job' = Idle
    BY <1>3 DEF ProceedStep, ReturnStep, Beside
  <2> QED
    BY <2>1 DEF Over, Idle
<1>4. CASE Take \/ Record
    BY <1>4 DEF Take, Record
<1> QED
    BY <1>1, <1>2, <1>3, <1>4, FaultsAreOver, MailCallsGoOn, ResolveGoesOn,
       DialGoesOn, ExchangeGoesOn DEF Next

(* A new job has no addresses, nor has the worker without one. *)
LEMMA NewJobs ==
    ASSUME IInv, [Next]_vars, job.pc # "send"
    PROVE  Over \/ job' = job \/ (job'.addrs = <<>> /\ job'.channel \in Stored)
<1>1. CASE UNCHANGED vars
    BY <1>1 DEF vars
<1>2. CASE ProceedStep \/ ReturnStep \/ ((Stop \/ Kill \/ Settle) /\ Beside)
  <2>1. job' = job \/ job' = Idle
    BY <1>2 DEF ProceedStep, ReturnStep, Beside
  <2> QED
    BY <2>1 DEF Over, Idle
<1>3. CASE Take
  <2>1. PICK ch \in Stored :
            LET j == [Idle EXCEPT !.pc = "send", !.channel = ch,
                                  !.calls = CallsOf(ch.type, env)]
            IN  FailedBy(j, FALSE) \/ job' = j
    BY <1>3 DEF Take
  <2> DEFINE c == CallsOf(ch.type, env)
             j == [Idle EXCEPT !.pc = "send", !.channel = ch, !.calls = c]
  <2> HIDE DEF c
  <2>2. CASE job' = j
    BY <2>2 DEF Idle
  <2>3. CASE FailedBy(j, FALSE)
    BY <2>3 DEF FailedBy, Finish, Over, Idle
  <2> QED
    BY <2>1, <2>2, <2>3 DEF c
<1>4. CASE Record
    BY <1>4 DEF Record, Over, Idle
<1> QED
    BY <1>1, <1>2, <1>3, <1>4
       DEF Next, Fault, TimeOut, MailDial, MailStep, MailAuth, MailEnvelope,
           MailClose, Resolve, Dial, Exchange, Calling

LEMMA AddrsInductive ==
    /\ Init => AddrsInv
    /\ IInv /\ AddrsInv /\ [Next]_vars => AddrsInv'
<1>1. Init => AddrsInv
    BY DEF Init, Idle, AddrsInv
<1>2. ASSUME IInv, AddrsInv, [Next]_vars
      PROVE  AddrsInv'
  <2>1. CASE job' = job
    BY <1>2, <2>1 DEF AddrsInv
  <2>2. CASE Over
    BY <2>2 DEF AddrsInv, Over
  <2>3. CASE job'.addrs = <<>>
    BY <2>3, MaxAddrsAssumption DEF AddrsInv
  <2>4. CASE job.pc = "send" /\ GoesOn
    <3>1. job \in Jobs /\ job'.channel = job.channel
      BY <1>2, <2>4 DEF IInv, JobInv, GoesOn
    <3>2. CASE MailGoesOn
      BY <3>1, <3>2 DEF MailGoesOn, AddrsInv
    <3>3. CASE NameResolved
      BY <3>3, MaxAddrsAssumption DEF NameResolved, AddrsInv
    <3>4. CASE Connected
      BY <2>3, <3>4 DEF Connected
    <3>5. CASE AddressDead
      <4>1. Len(job.addrs) \in Nat /\ Len(job.addrs) <= MaxAddrs
        BY <1>2, <2>4, <3>1, <3>5 DEF AddressDead, AddrsInv, Jobs
      <4>2. Len(job'.addrs) <= MaxAddrs
        BY <3>5, <4>1, MaxAddrsAssumption DEF AddressDead
      <4> QED
        BY <3>5, <4>2 DEF AddressDead, AddrsInv
    <3>6. CASE Redirected
      <4>1. job.addrs = <<>>
        BY <1>2, <2>4, <3>6, HTTPTails DEF Redirected, AddrsInv
      <4> QED
        BY <2>3, <3>6, <4>1 DEF Redirected
    <3> QED
      BY <2>4, <3>2, <3>3, <3>4, <3>5, <3>6 DEF GoesOn
  <2> QED
    BY <1>2, <2>1, <2>2, <2>3, <2>4, SendSteps, NewJobs
<1> QED
    BY <1>1, <1>2

(* What a redirect costs. *)
LEMMA OneHopLess ==
    ASSUME NEW k \in Nat
    PROVE  /\ k * (MaxAddrs + 3) \in Nat
           /\ k # 0 => (k - 1) * (MaxAddrs + 3)
                           = k * (MaxAddrs + 3) - (MaxAddrs + 3)
BY MaxAddrsAssumption

LEMMA CallsLeftIs ==
    ASSUME NEW j, j.channel.type # "email"
    PROVE  /\ j.calls = HTTPCalls =>
                 CallsLeft(j) = (MaxHops - j.hops) * (MaxAddrs + 3)
                                    + (MaxAddrs + 2) + Len(j.addrs)
           /\ j.calls \in {<<"dial", "exchange">>, <<"exchange">>} =>
                 CallsLeft(j) = (MaxHops - j.hops) * (MaxAddrs + 3)
                                    + 1 + Len(j.addrs)
<1>1. /\ HTTPRank["resolve"] = MaxAddrs + 2 /\ HTTPRank["dial"] = 1
      /\ HTTPRank["exchange"] = 1
    BY DEF HTTPRank
<1> QED
    BY <1>1, HTTPTails DEF CallsLeft

LEMMA GoingOnShrinks ==
    ASSUME IInv, AddrsInv, job.pc = "send", GoesOn, job' \in Jobs
    PROVE  CallsLeft(job') \in 1..(CallsLeft(job) - 1)
<1>1. /\ JobInv /\ job \in Jobs /\ job'.channel = job.channel
      /\ job.hops \in 0..MaxHops /\ job'.hops \in 0..MaxHops
      /\ Len(job.addrs) \in Nat /\ Len(job'.addrs) \in Nat
    BY DEF IInv, JobInv, GoesOn, Jobs
<1>2. CASE MailGoesOn
  <2>1. /\ job.calls \in Seq(Calls) /\ job.calls # <<>> /\ MailRest(job.calls)
    BY <1>1, <1>2 DEF JobInv, SendInv, MailGoesOn, Jobs
  <2>2. /\ Tail(job.calls) \in Seq(Calls) /\ Tail(job.calls) # <<>>
        /\ Len(Tail(job.calls)) = Len(job.calls) - 1
    BY <1>2, <2>1, RestOfMail, HeadTailProperties DEF MailGoesOn
  <2>3. Len(Tail(job.calls)) \in Nat \ {0} /\ Len(job.calls) \in Nat
    BY <2>1, <2>2, EmptySeq, LenProperties
  <2>4. CallsLeft(job) = Len(job.calls) /\ CallsLeft(job') = Len(Tail(job.calls))
    BY <1>1, <1>2 DEF MailGoesOn, CallsLeft
  <2> QED
    BY <2>2, <2>3, <2>4
<1>3. CASE job.channel.type # "email"
  <2>1. PICK k \in Nat : k = MaxHops - job.hops
    BY <1>1, MaxHopsAssumption
  <2>2. PICK p \in Nat : p = k * (MaxAddrs + 3)
    BY OneHopLess
  <2>3. job'.channel.type # "email"
    BY <1>1, <1>3
  <2>4. PICK m \in Nat : m = Len(job.addrs)
    BY <1>1
  <2>5. PICK n \in Nat : n = Len(job'.addrs)
    BY <1>1
  <2>6. CASE NameResolved
    <3>1. job.addrs = <<>> /\ Len(job.addrs) = 0
      BY <1>3, <2>6, HTTPTails DEF AddrsInv, NameResolved
    <3>2. CallsLeft(job) = p + (MaxAddrs + 2) + 0
      BY <1>3, <2>1, <2>2, <2>6, <3>1, CallsLeftIs DEF NameResolved
    <3>3. CallsLeft(job') = p + 1 + n
      BY <2>1, <2>2, <2>3, <2>5, <2>6, CallsLeftIs DEF NameResolved
    <3>4. n <= MaxAddrs
      BY <2>5, <2>6, MaxAddrsAssumption DEF NameResolved
    <3> QED
      BY <3>2, <3>3, <3>4, MaxAddrsAssumption
  <2>7. CASE Connected
    <3>1. job.addrs # <<>> /\ job.addrs \in Seq({"up", "dead"})
      BY <1>1, <2>7 DEF Connected, JobInv, SendInv, HTTPRest, Jobs
    <3>2. m # 0 /\ n = 0
      BY <2>7, <2>4, <2>5, <3>1, EmptySeq DEF Connected
    <3>3. CallsLeft(job) = p + 1 + m
      BY <1>3, <2>1, <2>2, <2>7, <2>4, CallsLeftIs DEF Connected
    <3>4. CallsLeft(job') = p + 1 + n
      BY <2>1, <2>2, <2>3, <2>7, <2>5, CallsLeftIs DEF Connected
    <3> QED
      BY <3>2, <3>3, <3>4
  <2>8. CASE AddressDead
    <3>1. CallsLeft(job) = p + 1 + m
      BY <1>3, <2>1, <2>2, <2>8, <2>4, CallsLeftIs DEF AddressDead
    <3>2. CallsLeft(job') = p + 1 + n
      BY <2>1, <2>2, <2>3, <2>8, <2>5, CallsLeftIs DEF AddressDead
    <3>3. n = m - 1
      BY <2>8, <2>4, <2>5 DEF AddressDead
    <3> QED
      BY <3>1, <3>2, <3>3
  <2>9. CASE Redirected
    <3>1. job.addrs = <<>> /\ Len(job.addrs) = 0 /\ Len(job'.addrs) = 0
      BY <1>3, <2>9, HTTPTails DEF AddrsInv, Redirected
    <3>2. k # 0 /\ MaxHops - job'.hops = k - 1 /\ k - 1 \in Nat
      BY <1>1, <2>1, <2>9, MaxHopsAssumption DEF Redirected
    <3>3. PICK q \in Nat : q = (k - 1) * (MaxAddrs + 3)
      BY <3>2, OneHopLess
    <3>4. q = p - (MaxAddrs + 3)
      BY <2>2, <3>2, <3>3, OneHopLess
    <3>5. CallsLeft(job) = p + 1 + 0
      BY <1>3, <2>1, <2>2, <2>9, <3>1, CallsLeftIs DEF Redirected
    <3>6. CallsLeft(job') = q + (MaxAddrs + 2) + 0
      BY <2>3, <2>9, <3>1, <3>2, <3>3, CallsLeftIs DEF Redirected
    <3> QED
      BY <3>3, <3>4, <3>5, <3>6, MaxAddrsAssumption
  <2> QED
    BY <1>3, <2>6, <2>7, <2>8, <2>9 DEF GoesOn, MailGoesOn
<1> QED
    BY <1>2, <1>3 DEF GoesOn, NameResolved, Connected, AddressDead, Redirected

-----------------------------------------------------------------------------
(* Theorems. *)

(* Every variable of the process and of its worker has its type. *)
THEOREM TypeCorrect == Spec => []TypeOK
<1>1. IInv => TypeOK
    BY DEF IInv, StartupInv, JobInv, TypeOK
<1> QED
    BY <1>1, Invariant, PTL

(***************************************************************************)
(* Migrate's record is exact at every moment, whatever was killed or       *)
(* refused: a version is recorded exactly when everything its file creates *)
(* exists (db.go, a transaction for the statements and the version).       *)
(***************************************************************************)
THEOREM MigrationsExact == Spec => []RecordedIsComplete
<1>1. IInv => RecordedIsComplete
    BY DEF IInv, StartupInv
<1> QED
    BY <1>1, Invariant, PTL

(***************************************************************************)
(* Hydrate, the goroutines and the server only run on a database that has  *)
(* everything the migrations of this build create.                         *)
(***************************************************************************)
THEOREM FullSchema == Spec => []RunsOnFullSchema
<1>1. IInv => RunsOnFullSchema
    BY DEF IInv, StartupInv, LoopInv, RecordedIsComplete, RunsOnFullSchema, Migrated
<1> QED
    BY <1>1, Invariant, PTL

(***************************************************************************)
(* A Send that returns nil has handed its alert over, by mail, to Slack or *)
(* to a webhook, with any number of addresses and redirects.               *)
(***************************************************************************)
THEOREM SentIsTaken == Spec => []SentMeansTaken
<1>1. IInv => SentMeansTaken
    BY DEF IInv, JobInv
<1> QED
    BY <1>1, Invariant, PTL

(***************************************************************************)
(* A Send that returns an error has met a failure outside, or a channel or *)
(* an environment of the named kinds.                                      *)
(***************************************************************************)
THEOREM FailureExplained == Spec => []FailureHasACause
<1>1. IInv => FailureHasACause
    BY DEF IInv, JobInv
<1> QED
    BY <1>1, Invariant, PTL

(***************************************************************************)
(* A start that is not disturbed goes on to serving: whatever earlier      *)
(* starts were killed or refused at, main.run finds no table in its way,   *)
(* no version recorded twice and no table missing, and every step is one   *)
(* further.  This is the safety half of ComesUp, for any migrations.       *)
(***************************************************************************)
THEOREM StartAlwaysGoesOn == Spec => StartGoesOn
<1>1. ASSUME IInv, [Next]_vars, Startable, main # "stopping"
      PROVE  Further \/ UNCHANGED <<main, file, stmt>>
  <2>1. StartupStep \/ UNCHANGED startupVars
    BY <1>1
       DEF vars, Next, ProceedStep, ReturnStep, StartupStep, Take, Record,
           Fault, TimeOut, MailDial, MailStep, MailAuth, MailEnvelope,
           MailClose, Resolve, Dial, Exchange
  <2> QED
    BY <1>1, <2>1, CalmStepIsFurther DEF IInv, startupVars
<1>2. IInv /\ [Next]_vars =>
          [Startable /\ main # "stopping" =>
              Further \/ UNCHANGED <<main, file, stmt>>]_startupVars
    BY <1>1
<1> QED
    BY <1>2, Invariant, PTL DEF Spec, StartGoesOn

(***************************************************************************)
(* Every call, dead address and redirect leaves fewer calls to make, for   *)
(* any number of addresses and any limit on redirects: with a deadline on  *)
(* every call, a Send ends.  This is the safety half of DispatchEnds.      *)
(***************************************************************************)
THEOREM SendAlwaysShrinks == Spec => SendShrinks
<1>1. ASSUME IInv, IInv', AddrsInv, [Next]_vars,
             job.pc = "send", job'.pc = "send", job' # job
      PROVE  CallsLeft(job') \in 1..(CallsLeft(job) - 1)
  <2>1. job' \in Jobs
    BY <1>1 DEF IInv, JobInv, Jobs, Stored, Channels, Targets,
                ValidateChannelConfig
  <2> QED
    BY <1>1, <2>1, SendSteps, GoingOnShrinks DEF Over
<1>2. IInv /\ IInv' /\ AddrsInv /\ [Next]_vars =>
          [job.pc = "send" /\ job'.pc = "send" /\ job' # job =>
              CallsLeft(job') \in 1..(CallsLeft(job) - 1)]_vars
    BY <1>1
<1>3. Spec => []AddrsInv
    BY AddrsInductive, Invariant, PTL DEF Spec
<1> QED
    BY <1>2, <1>3, Invariant, PTL DEF Spec, SendShrinks

(***************************************************************************)
(* Which intervals Startable leaves out: only those that do not fit in a   *)
(* time.Duration.  Any other number of seconds is converted exactly, and   *)
(* one Validate accepts makes a ticker scheduler.New does not panic at.    *)
(***************************************************************************)
THEOREM DurationIsExact ==
    ASSUME NEW n \in Nat, n * Second <= MaxDuration
    PROVE  Duration(n) = n * Second /\ (n >= 10 => Duration(n) > 0)
<1>1. PICK x \in Nat : x = n * Second /\ (n >= 10 => x > 0)
    BY SecondAssumption
<1>2. PICK w \in Nat : w = MaxDuration + 1 /\ x < w
    BY <1>1, DurationAssumption
<1>3. x + w \in 0..(2 * w - 1)
    BY <1>2
<1>4. (x + w) % (2 * w) = x + w
    BY <1>3
<1>5. Duration(n) = ((x + w) % (2 * w)) - w
    BY <1>1, <1>2, DurationAssumption DEF Duration
<1> QED
    BY <1>1, <1>4, <1>5
=============================================================================
