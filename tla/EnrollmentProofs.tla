--------------------------- MODULE EnrollmentProofs ---------------------------
(***************************************************************************)
(* Why only --force, or two creations at once, can orphan a certificate,   *)
(* and why a node is let in as the operator said: for any number of        *)
(* commands, keys and certificates, and for every serial number.           *)
(***************************************************************************)
EXTENDS Enrollment, LedgerProofs

Key == file["ca_key"]
Crt == file["ca_cert"]

(* The sequences of files to write, under names.                           *)
Two(a, b) == <<a, b>>
One(a) == <<a>>
None == <<>>

(* A CA being created: nothing is there but what its process has written.  *)
CreatesKey(o, k) ==
  /\ op[o].todo = Two(Write("ca_key", Cert(k, k)), Write("ca_cert", Cert(k, k)))
  /\ Key = (IF op[o].open = "none" THEN Absent ELSE Torn) /\ Crt = Absent

CreatesCert(o, k) ==
  /\ op[o].todo = One(Write("ca_cert", Cert(k, k)))
  /\ Key = Cert(k, k) /\ Crt = (IF op[o].open = "none" THEN Absent ELSE Torn)

(* A server's certificate being written: the CA is there and signed it.    *)
WritesKey(o, k) ==
  op[o].todo = Two(Write("server_key", Cert(k, k)), Write("server_cert", Cert(k, Key.key)))

WritesCert(o, k) == op[o].todo = One(Write("server_cert", Cert(k, Key.key)))

ProcessOK(o) ==
  \/ op[o] = Free
  \/ /\ op[o].at = "init"
     /\ \E k \in Nat \ {0} : CreatesKey(o, k) \/ CreatesCert(o, k)
  \/ /\ op[o].at = "loaded" /\ op[o].todo = None /\ op[o].open = "none"
     /\ Whole(Key) /\ op[o].by = Key.key /\ Crt # Absent
  \/ /\ op[o].at = "sign" /\ op[o].todo = None /\ op[o].open = "none"
     /\ Whole(Crt) /\ op[o].by = Key.key
  \/ /\ op[o].at = "write" /\ Whole(Crt)
     /\ \E k \in Nat \ {0} : WritesKey(o, k) \/ WritesCert(o, k)

OneCreates ==
  \A o, p \in Operator : Creating(o) /\ Creating(p) => o = p

(* The CA, its certificates, and those of the server, while it stays.      *)
CaOK ==
  /\ OneCreates
  /\ \A o \in Operator : ProcessOK(o)
  /\ Whole(Crt) => Whole(Key) /\ Key.key = Crt.key
  /\ \A c \in issued : Whole(Crt) /\ c.by = Key.key
  /\ Whole(file["server_cert"]) => Whole(Crt) /\ file["server_cert"].by = Key.key
  /\ server.up => Whole(Crt) /\ server.trusts = Crt.key /\ server.by = Key.key

AnyContent == [key: Nat, by: Nat]
Process == [at: {"idle", "init", "loaded", "write", "sign"}, by: Nat,
            todo: Seq([file: File, content: AnyContent]), open: File \cup {"none"}, number: Nat]

Shape ==
  /\ file \in [File -> AnyContent] /\ keys \in Nat /\ replaced \subseteq {"forced", "raced"}
  /\ op \in [Operator -> Process]
  /\ \A o \in Operator : op[o].open # "none" => op[o].todo # None

IInv == Shape /\ (replaced = {} => CaOK)
-----------------------------------------------------------------------------
LEMMA FreeIsProcess == Free \in Process /\ Free.at = "idle" /\ Free.open = "none" /\ Free.todo = None
BY DEF Free, Doing, Process, None

LEMMA AbsentAndTorn ==
  /\ Absent \in AnyContent /\ Torn \in AnyContent /\ Absent # Torn
  /\ ~ Whole(Absent) /\ ~ Whole(Torn)
  /\ \A k, b \in Nat : Cert(k, b) \in AnyContent /\ Cert(k, b).key = k /\ Cert(k, b).by = b
  /\ \A k, b \in Nat : k > 0 => Whole(Cert(k, b)) /\ Cert(k, b) # Absent /\ Cert(k, b) # Torn
BY DEF Absent, Torn, Whole, Cert, AnyContent

LEMMA WritesAreWrites ==
  ASSUME NEW f \in File, NEW c \in AnyContent
  PROVE  /\ Write(f, c) \in [file: File, content: AnyContent]
         /\ Write(f, c).file = f /\ Write(f, c).content = c
BY DEF Write

FileWrite == [file: File, content: AnyContent]

LEMMA IsDoing ==
  ASSUME NEW at \in {"idle", "init", "loaded", "write"}, NEW by \in Nat, NEW todo \in Seq(FileWrite)
  PROVE  /\ Doing(at, by, todo) \in Process
         /\ Doing(at, by, todo).at = at /\ Doing(at, by, todo).by = by
         /\ Doing(at, by, todo).todo = todo /\ Doing(at, by, todo).open = "none"
BY DEF Doing, Process, FileWrite

LEMMA Sequences ==
  ASSUME NEW a \in FileWrite, NEW b \in FileWrite
  PROVE  Two(a, b) \in Seq(FileWrite) /\ One(a) \in Seq(FileWrite) /\ None \in Seq(FileWrite)
BY DEF Two, One, None

LEMMA InitInv == Init => IInv
<1> SUFFICES ASSUME Init PROVE IInv
  OBVIOUS
<1>1. Shape
  BY AbsentAndTorn, FreeIsProcess DEF Init, Shape
<1>2. \A f \in File : ~ Whole(file[f])
  BY AbsentAndTorn DEF Init
<1>3. \A o \in Operator : ProcessOK(o) /\ ~ Creating(o)
  BY FreeIsProcess DEF Init, ProcessOK, Creating
<1>4. CaOK
  BY <1>2, <1>3 DEF Init, CaOK, OneCreates, Key, Crt, Down, File
<1> QED
  BY <1>1, <1>4 DEF IInv

(* What a process is doing is no concern of a step of another that leaves  *)
(* the CA's files alone, ...                                               *)
LEMMA OthersGoOn ==
  ASSUME NEW o \in Operator, ProcessOK(o), Key' = Key, Crt' = Crt, op'[o] = op[o]
  PROVE  ProcessOK(o)'
BY DEF ProcessOK, CreatesKey, CreatesCert, WritesKey, WritesCert

(* ... nobody creates a CA where a whole one is, ...                       *)
LEMMA CreatedOnce ==
  ASSUME NEW o \in Operator, ProcessOK(o), Creating(o)
  PROVE  ~ Whole(Crt) /\ Crt \in {Absent, Torn}
<1>1. \E k \in Nat \ {0} : CreatesKey(o, k) \/ CreatesCert(o, k)
  BY FreeIsProcess DEF ProcessOK, Creating
<1> QED
  BY <1>1, AbsentAndTorn DEF CreatesKey, CreatesCert

(* ... and where there is none no command but that does anything.          *)
LEMMA OthersAreFree ==
  ASSUME NEW o \in Operator, ProcessOK(o), ~ Creating(o), Crt = Absent
  PROVE  op[o] = Free
BY AbsentAndTorn DEF ProcessOK, Creating

LEMMA GoesTo ==
  ASSUME Shape, NEW o \in Operator, NEW next \in Process, Goes(o, next)
  PROVE  /\ op' \in [Operator -> Process] /\ op'[o] = next
         /\ \A p \in Operator : p # o => op'[p] = op[p]
BY DEF Shape, Goes
-----------------------------------------------------------------------------
(* A step of o that leaves every file alone and begins no creation.        *)
LEMMA QuietStep ==
  ASSUME IInv, NEW o \in Operator, NEW next \in Process, Goes(o, next), UNCHANGED <<file, replaced>>,
         keys' \in Nat, UNCHANGED server, next.at # "init", next.open # "none" => next.todo # None, replaced = {} => ProcessOK(o)',
         replaced = {} => \A c \in issued' : Whole(Crt) /\ c.by = Key.key
  PROVE  IInv'
<1>1. /\ op' \in [Operator -> Process] /\ op'[o] = next
      /\ \A p \in Operator : p # o => op'[p] = op[p]
  BY GoesTo DEF IInv
<1>2. Key' = Key /\ Crt' = Crt
  BY DEF Key, Crt
<1>3. Shape'
  BY <1>1 DEF IInv, Shape
<1>4. ASSUME replaced = {} PROVE CaOK'
  <2>1. \A p \in Operator : ProcessOK(p)'
    BY <1>1, <1>2, <1>4, OthersGoOn DEF IInv, CaOK
  <2>2. OneCreates'
    BY <1>1, <1>4 DEF IInv, CaOK, OneCreates, Creating
  <2> QED
    BY <1>2, <1>4, <2>1, <2>2 DEF IInv, CaOK
<1> QED
  BY <1>3, <1>4 DEF IInv

LEMMA BuildInv ==
  ASSUME IInv, NEW o \in Operator, NEW force \in BOOLEAN, init(o, force)
  PROVE  IInv'
<1> PICK k \in Nat \ {0} : k = keys + 1
  BY DEF IInv, Shape
<1> PICK key : key = Write("ca_key", Cert(k, k))
  OBVIOUS
<1> PICK crt : crt = Write("ca_cert", Cert(k, k))
  OBVIOUS
<1> DEFINE next == Doing("init", 0, Two(key, crt))
<1>1. Goes(o, next) /\ keys' = k /\ UNCHANGED <<file, issued, server>>
  BY DEF init, Create, Build, Two
<1>2. key \in FileWrite /\ crt \in FileWrite
  BY AbsentAndTorn, WritesAreWrites DEF File, FileWrite
<1>3. next \in Process /\ next.at = "init" /\ next.todo = Two(key, crt) /\ next.open = "none"
  <2>1. Two(key, crt) \in Seq(FileWrite)
    BY <1>2, Sequences
  <2> QED
    BY <2>1, IsDoing
<1> HIDE DEF next
<1>4. /\ op' \in [Operator -> Process] /\ op'[o] = next
      /\ \A p \in Operator : p # o => op'[p] = op[p]
  BY <1>1, <1>3, GoesTo DEF IInv
<1>5. Shape'
  BY <1>1, <1>3, <1>4 DEF IInv, Shape, init, Create
<1>6. ASSUME replaced' = {} PROVE CaOK'
  <2>1. ~Exists /\ CaOK /\ \A p \in Operator : ~Creating(p)
    BY <1>6 DEF init, Create, IInv
  <2>2. Key = Absent /\ Crt = Absent /\ Key' = Key /\ Crt' = Crt
    BY <1>1, <2>1 DEF Exists, Key, Crt
  <2>3. \A p \in Operator : p # o => op'[p] = Free /\ ~Creating(p)'
    BY <1>4, <2>1, <2>2, OthersAreFree, FreeIsProcess DEF CaOK, Creating
  <2>4. CreatesKey(o, k)'
    BY <1>3, <1>4, <2>2 DEF CreatesKey
  <2>5. \A p \in Operator : ProcessOK(p)'
    BY <1>1, <1>3, <1>4, <2>3, <2>4 DEF ProcessOK
  <2>6. OneCreates'
    BY <2>3 DEF OneCreates
  <2> QED
    BY <1>1, <2>1, <2>2, <2>5, <2>6 DEF CaOK
<1> QED
  BY <1>5, <1>6 DEF IInv

LEMMA LoadInv ==
  ASSUME IInv, NEW o \in Operator, load_ca(o)
  PROVE  IInv'
<1> DEFINE next == Doing("loaded", Key.key, None)
<1>1. Goes(o, next) /\ UNCHANGED <<file, keys, issued, replaced, server>>
  BY DEF load_ca, Key, None
<1>2. Key \in AnyContent
  BY DEF IInv, Shape, Key, File
<1>3. next \in Process /\ next.at = "loaded" /\ next.todo = None /\ next.open = "none" /\ next.by = Key.key
  <2>1. Key.key \in Nat
    BY <1>2 DEF AnyContent
  <2>2. None \in Seq(FileWrite)
    BY DEF None
  <2> QED
    BY <2>1, <2>2, IsDoing
<1> HIDE DEF next
<1>4. op'[o] = next
  BY <1>1, <1>3, GoesTo DEF IInv
<1>5. Key' = Key /\ Crt' = Crt /\ Whole(Key) /\ Crt # Absent
  BY <1>1 DEF Key, Crt, load_ca
<1>6. ProcessOK(o)'
  BY <1>3, <1>4, <1>5 DEF ProcessOK
<1> QED
  BY <1>1, <1>3, <1>6, QuietStep DEF IInv, Shape, CaOK

LEMMA SignServerInv ==
  ASSUME IInv, NEW o \in Operator, sign_server(o)
  PROVE  IInv'
<1> PICK k \in Nat \ {0} : k = keys + 1
  BY DEF IInv, Shape
<1> PICK by \in Nat : by = op[o].by
  BY DEF IInv, Shape, Process
<1> PICK key : key = Write("server_key", Cert(k, k))
  OBVIOUS
<1> PICK crt : crt = Write("server_cert", Cert(k, by))
  OBVIOUS
<1> DEFINE next == Doing("write", 0, Two(key, crt))
<1>1. Goes(o, next) /\ keys' = k /\ UNCHANGED <<file, issued, replaced, server>>
  BY DEF sign_server, Two
<1>3. key \in FileWrite /\ crt \in FileWrite
  BY AbsentAndTorn, WritesAreWrites DEF File, FileWrite
<1>4. next \in Process /\ next.at = "write" /\ next.todo = Two(key, crt) /\ next.open = "none"
  <2>1. Two(key, crt) \in Seq(FileWrite)
    BY <1>3, Sequences
  <2> QED
    BY <2>1, IsDoing
<1> HIDE DEF next
<1>5. op'[o] = next
  BY <1>1, <1>4, GoesTo DEF IInv
<1>6. Key' = Key /\ Crt' = Crt /\ Whole(Crt)
  BY <1>1 DEF Key, Crt, sign_server, Loaded
<1>7. ASSUME replaced = {} PROVE ProcessOK(o)'
  <2>1. by = Key.key
    BY <1>7, FreeIsProcess DEF IInv, CaOK, ProcessOK, sign_server, Loaded
  <2>2. WritesKey(o, k)'
    BY <1>4, <1>5, <1>6, <2>1 DEF WritesKey
  <2> QED
    BY <1>4, <1>5, <1>6, <2>2 DEF ProcessOK
<1> QED
  BY <1>1, <1>4, <1>7, QuietStep DEF IInv, CaOK

LEMMA SignNodeInv ==
  ASSUME IInv, NEW o \in Operator, NEW n \in Number, sign_node(o, n)
  PROVE  IInv'
<1> DEFINE next == [op[o] EXCEPT !.at = "sign", !.number = n]
<1>1. Goes(o, next) /\ UNCHANGED <<file, keys, issued, replaced, server>>
  BY DEF sign_node
<1>2. op[o] \in Process /\ n \in Nat
  BY EnrollmentAssumption DEF IInv, Shape
<1>3. /\ next \in Process /\ next.at = "sign" /\ next.todo = op[o].todo
      /\ next.open = op[o].open /\ next.by = op[o].by
  BY <1>2 DEF Process
<1> HIDE DEF next
<1>4. op'[o] = next
  BY <1>1, <1>3, GoesTo DEF IInv
<1>5. Key' = Key /\ Crt' = Crt /\ Whole(Crt) /\ op[o].at = "loaded"
  BY <1>1 DEF Key, Crt, sign_node, Loaded
<1>6. ASSUME replaced = {} PROVE ProcessOK(o)'
  <2>1. op[o].todo = None /\ op[o].open = "none" /\ op[o].by = Key.key
    BY <1>5, <1>6, FreeIsProcess DEF IInv, CaOK, ProcessOK
  <2> QED
    BY <1>3, <1>4, <1>5, <2>1 DEF ProcessOK
<1> QED
  BY <1>1, <1>3, <1>6, QuietStep DEF IInv, Shape, CaOK

LEMMA HandOverInv ==
  ASSUME IInv, NEW o \in Operator, hand_over(o)
  PROVE  IInv'
<1>1. Goes(o, Free) /\ UNCHANGED <<file, keys, replaced, server>> /\ op[o].at = "sign"
  BY DEF hand_over
<1>2. ProcessOK(o)'
  BY <1>1, GoesTo, FreeIsProcess DEF IInv, ProcessOK
<1>3. ASSUME replaced = {} PROVE \A c \in issued' : Whole(Crt) /\ c.by = Key.key
  <2>1. Whole(Crt) /\ op[o].by = Key.key
    BY <1>1, <1>3, FreeIsProcess DEF IInv, CaOK, ProcessOK
  <2>2. issued' = issued \cup {[number |-> op[o].number, by |-> op[o].by]}
    BY DEF hand_over
  <2> QED
    BY <1>3, <2>1, <2>2 DEF IInv, CaOK
<1> QED
  BY <1>1, <1>2, <1>3, FreeIsProcess, QuietStep DEF IInv, Shape

LEMMA DiesInv ==
  ASSUME IInv, NEW o \in Operator, operator_dies(o)
  PROVE  IInv'
<1>1. Goes(o, Free) /\ UNCHANGED <<file, keys, issued, replaced, server>>
  BY DEF operator_dies
<1>2. ProcessOK(o)'
  BY <1>1, GoesTo, FreeIsProcess DEF IInv, ProcessOK
<1> QED
  BY <1>1, <1>2, FreeIsProcess, QuietStep DEF IInv, Shape, CaOK
-----------------------------------------------------------------------------
(* The processes that write.                                               *)
LEMMA Writers ==
  ASSUME NEW o \in Operator, ProcessOK(o), op[o].todo # None
  PROVE  \/ op[o].at = "init" /\ \E k \in Nat \ {0} : CreatesKey(o, k) \/ CreatesCert(o, k)
         \/ op[o].at = "write" /\ Whole(Crt) /\ \E k \in Nat \ {0} : WritesKey(o, k) \/ WritesCert(o, k)
BY FreeIsProcess DEF ProcessOK

LEMMA FirstOfTwo ==
  ASSUME NEW f \in File, NEW c \in AnyContent, NEW w
  PROVE  /\ Head(Two(Write(f, c), w)).file = f /\ Head(Two(Write(f, c), w)).content = c
         /\ Tail(Two(Write(f, c), w)) = One(w)
         /\ Head(One(Write(f, c))).file = f /\ Head(One(Write(f, c))).content = c
         /\ Tail(One(Write(f, c))) = None /\ One(w) # None
BY DEF Two, One, None, Write

LEMMA FirstOfAny ==
  ASSUME NEW todo \in Seq(FileWrite), todo # None
  PROVE  Head(todo).file \in File /\ Head(todo).content \in AnyContent /\ Tail(todo) \in Seq(FileWrite)
<1>1. Head(todo) \in FileWrite /\ Tail(todo) \in Seq(FileWrite)
  BY DEF None
<1> QED
  BY <1>1 DEF FileWrite

LEMMA TodoIsSeq ==
  ASSUME Shape, NEW o \in Operator
  PROVE  op[o].todo \in Seq(FileWrite)
BY DEF Shape, Process, FileWrite

LEMMA FileStep ==
  ASSUME Shape, NEW f \in File, NEW c \in AnyContent, file' = [file EXCEPT ![f] = c]
  PROVE  file' \in [File -> AnyContent] /\ file'[f] = c /\ \A g \in File : g # f => file'[g] = file[g]
BY DEF Shape

(* What a write of o leaves of the invariant, once o itself, the CA's      *)
(* files and the server's certificate are looked at.                       *)
LEMMA WriteStep ==
  ASSUME IInv, replaced = {}, NEW o \in Operator, NEW next \in Process, Goes(o, next),
         UNCHANGED <<issued, server>>, next.at \in {op[o].at, "idle"}, ProcessOK(o)',
         \A p \in Operator : p # o => ProcessOK(p)',
         Whole(Crt) => Key' = Key /\ Crt' = Crt,
         Whole(Crt') => Whole(Key') /\ Key'.key = Crt'.key,
         Whole(file'["server_cert"]) => Whole(Crt') /\ file'["server_cert"].by = Key'.key
  PROVE  CaOK'
<1>1. op'[o] = next /\ \A p \in Operator : p # o => op'[p] = op[p]
  BY GoesTo DEF IInv
<1>2. OneCreates'
  BY <1>1 DEF IInv, CaOK, OneCreates, Creating
<1> QED
  BY <1>2 DEF IInv, CaOK

(* While the CA is not yet there every other process is free, or has only  *)
(* read the key.                                                           *)
LEMMA OthersWhileCreated ==
  ASSUME CaOK, NEW o \in Operator, Creating(o), NEW p \in Operator, p # o
  PROVE  ~Creating(p) /\ (op[p] = Free \/ (op[p].at = "loaded" /\ Crt # Absent))
<1>1. ~Creating(p) /\ ProcessOK(p)
  BY DEF CaOK, OneCreates
<1>2. ~Whole(Crt)
  BY CreatedOnce DEF CaOK
<1> QED
  BY <1>1, <1>2 DEF ProcessOK, Creating

LEMMA TruncateInv ==
  ASSUME IInv, NEW o \in Operator, truncate(o)
  PROVE  IInv'
<1> PICK f \in File : f = Head(op[o].todo).file
  <2>1. op[o].todo \in Seq(FileWrite) /\ op[o].todo # None
    BY TodoIsSeq DEF IInv, truncate, None
  <2> QED
    BY <2>1, FirstOfAny
<1> DEFINE next == [op[o] EXCEPT !.open = f]
<1>1. Goes(o, next) /\ file' = [file EXCEPT ![f] = Torn] /\ UNCHANGED <<keys, issued, replaced, server>>
  BY DEF truncate
<1>2. /\ next \in Process /\ next.at = op[o].at /\ next.todo = op[o].todo
      /\ next.open = f /\ next.by = op[o].by
  BY DEF IInv, Shape, Process
<1>3. op[o].todo # None /\ op[o].open = "none" /\ f # "none"
  BY DEF truncate, None, File
<1> HIDE DEF next
<1>4. /\ op' \in [Operator -> Process] /\ op'[o] = next
      /\ \A p \in Operator : p # o => op'[p] = op[p]
  BY <1>1, <1>2, GoesTo DEF IInv
<1>5. /\ file' \in [File -> AnyContent] /\ file'[f] = Torn
      /\ \A g \in File : g # f => file'[g] = file[g]
  BY <1>1, FileStep, AbsentAndTorn DEF IInv
<1>6. Shape'
  BY <1>1, <1>2, <1>3, <1>4, <1>5 DEF IInv, Shape
<1>7. ASSUME replaced = {} PROVE CaOK'
  <2>1. CaOK /\ ProcessOK(o)
    BY <1>7 DEF IInv, CaOK
  <2>2. ASSUME NEW k \in Nat \ {0}, op[o].at = "init", CreatesKey(o, k)
        PROVE  CaOK'
    <3>1. f = "ca_key" /\ Crt = Absent
      BY <2>2, FirstOfTwo, AbsentAndTorn DEF CreatesKey, File
    <3>2. Key' = Torn /\ Crt' = Absent /\ file'["server_cert"] = file["server_cert"]
      BY <1>5, <3>1 DEF Key, Crt, File
    <3>3. ProcessOK(o)'
      BY <1>2, <1>3, <1>4, <2>2, <3>2 DEF ProcessOK, CreatesKey
    <3>4. \A p \in Operator : p # o => ProcessOK(p)'
      BY <1>4, <2>1, <2>2, <3>1, OthersWhileCreated DEF Creating, ProcessOK
    <3>5. ~Whole(Crt) /\ ~Whole(Crt') /\ ~Whole(file'["server_cert"])
      BY <2>1, <3>1, <3>2, AbsentAndTorn DEF CaOK
    <3> QED
      BY <1>1, <1>2, <1>7, <3>3, <3>4, <3>5, WriteStep
  <2>3. ASSUME NEW k \in Nat \ {0}, op[o].at = "init", CreatesCert(o, k)
        PROVE  CaOK'
    <3>1. f = "ca_cert" /\ Crt = Absent /\ Key = Cert(k, k)
      <4>1. Cert(k, k) \in AnyContent /\ "ca_cert" \in File
        BY AbsentAndTorn DEF File
      <4>2. Head(op[o].todo).file = "ca_cert"
        BY <2>3, <4>1, FirstOfTwo DEF CreatesCert
      <4> QED
        BY <1>3, <2>3, <4>2 DEF CreatesCert
    <3>2. Key' = Key /\ Crt' = Torn /\ file'["server_cert"] = file["server_cert"]
      BY <1>5, <3>1 DEF Key, Crt, File
    <3>3. ProcessOK(o)'
      BY <1>2, <1>3, <1>4, <2>3, <3>1, <3>2 DEF ProcessOK, CreatesCert
    <3>4. \A p \in Operator : p # o => ProcessOK(p)'
      BY <1>4, <2>1, <2>3, <3>1, OthersWhileCreated DEF Creating, ProcessOK
    <3>5. ~Whole(Crt) /\ ~Whole(Crt') /\ ~Whole(file'["server_cert"])
      BY <2>1, <3>1, <3>2, AbsentAndTorn DEF CaOK
    <3> QED
      BY <1>1, <1>2, <1>7, <3>3, <3>4, <3>5, WriteStep
  <2>4. ASSUME NEW k \in Nat \ {0}, op[o].at = "write", Whole(Crt), WritesKey(o, k) \/ WritesCert(o, k)
        PROVE  CaOK'
    <3>1. f \in {"server_key", "server_cert"}
      <4>1. Key.key \in Nat
        BY DEF IInv, Shape, Key, File, AnyContent
      <4>2. /\ Cert(k, k) \in AnyContent /\ Cert(k, Key.key) \in AnyContent
            /\ "server_key" \in File /\ "server_cert" \in File
        BY <4>1, AbsentAndTorn DEF File
      <4>3. CASE WritesKey(o, k)
        BY <4>2, <4>3, FirstOfTwo DEF WritesKey
      <4>4. CASE WritesCert(o, k)
        BY <4>2, <4>4, FirstOfTwo DEF WritesCert
      <4> QED
        BY <2>4, <4>3, <4>4
    <3>2. Key' = Key /\ Crt' = Crt
      BY <1>5, <3>1 DEF Key, Crt, File
    <3>3. ProcessOK(o)'
      BY <1>2, <1>4, <2>4, <3>2 DEF ProcessOK, WritesKey, WritesCert
    <3>4. \A p \in Operator : p # o => ProcessOK(p)'
      BY <1>4, <2>1, <3>2, OthersGoOn DEF CaOK
    <3>5. Whole(file'["server_cert"]) => file'["server_cert"] = file["server_cert"]
      BY <1>5, AbsentAndTorn DEF File
    <3> QED
      BY <1>1, <1>2, <1>7, <2>1, <3>2, <3>3, <3>4, <3>5, WriteStep DEF CaOK
  <2> QED
    BY <1>3, <2>1, <2>2, <2>3, <2>4, Writers
<1> QED
  BY <1>1, <1>6, <1>7 DEF IInv

LEMMA FillInv ==
  ASSUME IInv, NEW o \in Operator, fill(o)
  PROVE  IInv'
<1> DEFINE todo == op[o].todo
           rest == [op[o] EXCEPT !.todo = Tail(todo), !.open = "none"]
<1>1. /\ todo \in Seq(FileWrite) /\ todo # None /\ op[o].open # "none"
      /\ op[o] \in Process
  BY TodoIsSeq DEF IInv, Shape, fill
<1> PICK f \in File : f = Head(todo).file
  BY <1>1, FirstOfAny
<1> PICK c \in AnyContent : c = Head(todo).content
  BY <1>1, FirstOfAny
<1>2. /\ rest \in Process /\ rest.at = op[o].at /\ rest.todo = Tail(todo)
      /\ rest.open = "none" /\ rest.by = op[o].by
  <2>1. Tail(todo) \in Seq([file: File, content: AnyContent])
    BY <1>1, FirstOfAny DEF FileWrite
  <2> QED
    BY <1>1, <2>1 DEF Process
<1> PICK next \in Process : next = IF Tail(todo) = None THEN Free ELSE rest
  BY <1>2, FreeIsProcess
<1>3. Goes(o, next) /\ file' = [file EXCEPT ![f] = c] /\ UNCHANGED <<keys, issued, replaced, server>>
  BY DEF fill, None
<1>4. next.open = "none" /\ next.at \in {op[o].at, "idle"}
  BY <1>2, FreeIsProcess
<1> HIDE DEF rest
<1>5. /\ op' \in [Operator -> Process] /\ op'[o] = next
      /\ \A p \in Operator : p # o => op'[p] = op[p]
  BY <1>3, GoesTo DEF IInv
<1>6. /\ file' \in [File -> AnyContent] /\ file'[f] = c
      /\ \A g \in File : g # f => file'[g] = file[g]
  BY <1>3, FileStep DEF IInv
<1>7. Shape'
  BY <1>3, <1>4, <1>5, <1>6 DEF IInv, Shape
<1>8. ASSUME replaced = {} PROVE CaOK'
  <2>1. CaOK /\ ProcessOK(o)
    BY <1>8 DEF IInv, CaOK
  <2>2. ASSUME NEW k \in Nat \ {0}, op[o].at = "init", CreatesKey(o, k)
        PROVE  CaOK'
    <3>1. Cert(k, k) \in AnyContent /\ "ca_key" \in File
      BY AbsentAndTorn DEF File
    <3>2. f = "ca_key" /\ c = Cert(k, k) /\ Tail(todo) = One(Write("ca_cert", Cert(k, k))) /\ Crt = Absent
      BY <2>2, <3>1, FirstOfTwo DEF CreatesKey
    <3>3. next = rest
      BY <3>1, <3>2, FirstOfTwo
    <3>4. Key' = Cert(k, k) /\ Crt' = Absent /\ file'["server_cert"] = file["server_cert"]
      BY <1>6, <3>2 DEF Key, Crt, File
    <3>5. CreatesCert(o, k)'
      BY <1>2, <1>5, <3>2, <3>3, <3>4 DEF CreatesCert
    <3>6. ProcessOK(o)'
      BY <1>2, <1>5, <2>2, <3>3, <3>5 DEF ProcessOK
    <3>7. \A p \in Operator : p # o => ProcessOK(p)'
      BY <1>5, <2>1, <2>2, <3>2, OthersWhileCreated DEF Creating, ProcessOK
    <3>8. ~Whole(Crt) /\ ~Whole(Crt') /\ ~Whole(file'["server_cert"])
      BY <2>1, <3>2, <3>4, AbsentAndTorn DEF CaOK
    <3> QED
      BY <1>3, <1>4, <1>8, <3>6, <3>7, <3>8, WriteStep
  <2>3. ASSUME NEW k \in Nat \ {0}, op[o].at = "init", CreatesCert(o, k)
        PROVE  CaOK'
    <3>1. Cert(k, k) \in AnyContent /\ "ca_cert" \in File
      BY AbsentAndTorn DEF File
    <3>2. f = "ca_cert" /\ c = Cert(k, k) /\ Tail(todo) = None
      BY <2>3, <3>1, FirstOfTwo DEF CreatesCert
    <3>3. Key = Cert(k, k) /\ Crt = Torn
      BY <1>1, <2>3 DEF CreatesCert
    <3>4. Key' = Cert(k, k) /\ Crt' = Cert(k, k) /\ file'["server_cert"] = file["server_cert"]
      BY <1>6, <3>2, <3>3 DEF Key, Crt, File
    <3>5. ProcessOK(o)'
      BY <1>5, <3>2 DEF ProcessOK
    <3>6. \A p \in Operator : p # o => ProcessOK(p)'
      <4> SUFFICES ASSUME NEW p \in Operator, p # o PROVE ProcessOK(p)'
        OBVIOUS
      <4>1. op'[p] = op[p] /\ (op[p] = Free \/ op[p].at = "loaded") /\ ProcessOK(p)
        BY <1>5, <2>1, <2>3, OthersWhileCreated DEF Creating, CaOK
      <4>2. Crt' # Absent /\ Key' = Key
        <5>1. Cert(k, k) # Absent
          BY AbsentAndTorn
        <5> QED
          BY <3>3, <3>4, <5>1
      <4>3. CASE op[p] = Free
        BY <4>1, <4>3 DEF ProcessOK
      <4>4. CASE op[p].at = "loaded"
        BY <4>1, <4>2, <4>4, FreeIsProcess DEF ProcessOK
      <4> QED
        BY <4>1, <4>3, <4>4
    <3>7. ~Whole(Crt) /\ ~Whole(file'["server_cert"]) /\ Whole(Key')
      BY <2>1, <3>3, <3>4, AbsentAndTorn DEF CaOK
    <3> QED
      BY <1>3, <1>4, <1>8, <3>4, <3>5, <3>6, <3>7, WriteStep
  <2>4. ASSUME NEW k \in Nat \ {0}, op[o].at = "write", Whole(Crt), WritesKey(o, k) \/ WritesCert(o, k)
        PROVE  CaOK'
    <3> PICK g \in Nat : g = Key.key
      BY DEF IInv, Shape, Key, File, AnyContent
    <3>1. /\ Cert(k, k) \in AnyContent /\ Cert(k, g) \in AnyContent
          /\ "server_key" \in File /\ "server_cert" \in File
      BY AbsentAndTorn DEF File
    <3>2. \/ f = "server_key" /\ next.todo = One(Write("server_cert", Cert(k, g))) /\ next.at = "write"
          \/ f = "server_cert" /\ c = Cert(k, g) /\ next = Free
      <4>1. CASE WritesKey(o, k)
        <5>1. f = "server_key" /\ Tail(todo) = One(Write("server_cert", Cert(k, g)))
          BY <3>1, <4>1, FirstOfTwo DEF WritesKey
        <5>2. next = rest
          BY <3>1, <5>1, FirstOfTwo
        <5> QED
          BY <1>2, <2>4, <5>1, <5>2
      <4>2. CASE WritesCert(o, k)
        BY <3>1, <4>2, FirstOfTwo DEF WritesCert
      <4> QED
        BY <2>4, <4>1, <4>2
    <3>3. Key' = Key /\ Crt' = Crt
      BY <1>6, <3>2 DEF Key, Crt, File
    <3>4. ProcessOK(o)'
      BY <1>5, <2>4, <3>2, <3>3 DEF ProcessOK, WritesCert
    <3>5. \A p \in Operator : p # o => ProcessOK(p)'
      BY <1>5, <2>1, <3>3, OthersGoOn DEF CaOK
    <3>6. Whole(file'["server_cert"]) => file'["server_cert"].by = Key.key
      <4>1. CASE f = "server_key"
        BY <1>6, <2>1, <3>1, <4>1 DEF CaOK
      <4>2. CASE f = "server_cert" /\ c = Cert(k, g)
        BY <1>6, <4>2, AbsentAndTorn
      <4> QED
        BY <3>2, <4>1, <4>2
    <3> QED
      BY <1>3, <1>4, <1>8, <2>1, <2>4, <3>3, <3>4, <3>5, <3>6, WriteStep DEF CaOK
  <2> QED
    BY <1>1, <2>1, <2>2, <2>3, <2>4, Writers
<1> QED
  BY <1>3, <1>7, <1>8 DEF IInv

(* The server starts, or stops.                                            *)
LEMMA ServerInv ==
  ASSUME IInv, start \/ stop
  PROVE  IInv'
<1>1. UNCHANGED <<file, keys, op, issued, replaced>>
  BY DEF start, stop
<1>2. Key' = Key /\ Crt' = Crt
  BY <1>1 DEF Key, Crt
<1>3. Shape'
  BY <1>1 DEF IInv, Shape
<1>4. ASSUME replaced = {} PROVE CaOK'
  <2>1. \A p \in Operator : ProcessOK(p)'
    BY <1>1, <1>2, <1>4, OthersGoOn DEF IInv, CaOK
  <2>2. server'.up => Whole(Crt) /\ server'.trusts = Crt.key /\ server'.by = Key.key
    BY <1>4 DEF start, stop, Down, IInv, CaOK, Crt
  <2>3. OneCreates'
    BY <1>1, <1>4 DEF IInv, CaOK, OneCreates, Creating
  <2> QED
    BY <1>1, <1>2, <1>4, <2>1, <2>2, <2>3 DEF IInv, CaOK
<1> QED
  BY <1>1, <1>3, <1>4 DEF IInv

LEMMA CaUntouched ==
  ASSUME IInv, UNCHANGED <<file, keys, op, issued, replaced, server>>
  PROVE  IInv'
<1>1. Key' = Key /\ Crt' = Crt /\ Shape'
  BY DEF Key, Crt, IInv, Shape
<1>2. ASSUME replaced = {} PROVE CaOK'
  <2>1. \A p \in Operator : ProcessOK(p)'
    BY <1>1, <1>2, OthersGoOn DEF IInv, CaOK
  <2>2. OneCreates'
    BY <1>2 DEF IInv, CaOK, OneCreates, Creating
  <2> QED
    BY <1>1, <1>2, <2>1, <2>2 DEF IInv, CaOK
<1> QED
  BY <1>1, <1>2 DEF IInv

LEMMA NextInv == IInv /\ [Next]_vars => IInv'
<1> SUFFICES ASSUME IInv, [Next]_vars PROVE IInv'
  OBVIOUS
<1>1. ASSUME NEW o \in Operator, OperatorStep(o) PROVE IInv'
  BY <1>1, BuildInv, LoadInv, SignServerInv, SignNodeInv, HandOverInv, DiesInv, TruncateInv, FillInv
     DEF OperatorStep
<1>2. CASE start \/ stop
  BY <1>2, ServerInv
<1>3. ASSUME NEW c \in Cli, ledger_step(c) PROVE IInv'
  BY <1>3, CaUntouched DEF ledger_step
<1>4. CASE UNCHANGED vars
  BY <1>4, CaUntouched DEF vars
<1> QED
  BY <1>1, <1>2, <1>3, <1>4 DEF Next

(* The CA's files are written by one process, and stay while no CA is      *)
(* overwritten.                                                            *)
THEOREM EnrollmentInvariance == Spec => []IInv
BY InitInv, NextInv, PTL DEF Spec

(* Only --force, or two creations at once, orphans a certificate: for any  *)
(* number of commands, killed anywhere.                                    *)
THEOREM NothingIsOrphaned == Spec => []NoCertificateIsOrphaned
<1>1. IInv => NoCertificateIsOrphaned
  BY DEF IInv, CaOK, NoCertificateIsOrphaned, Key, Crt
<1> QED
  BY <1>1, EnrollmentInvariance, PTL
-----------------------------------------------------------------------------
(* What is written digit by digit from the right: the digits above those   *)
(* of n are those of up[n].                                                *)
Rule(b, up, leaf, tail) ==
  /\ \A n \in Nat : leaf[n] \in Seq(Nat) /\ tail[n] \in Seq(Nat)
  /\ \A n \in Nat : n >= b => up[n] \in Nat /\ up[n] < n

Value(g, n, b, up, leaf, tail) == IF n < b THEN leaf[n] ELSE g[up[n]] \o tail[n]

Written(g, m, b, up, leaf, tail) ==
  /\ g \in [0..m -> Seq(Nat)]
  /\ \A n \in 0..m : g[n] = Value(g, n, b, up, leaf, tail)

LEMMA WrittenOnce ==
  ASSUME NEW b \in Nat, NEW up, NEW leaf, NEW tail, Rule(b, up, leaf, tail),
         NEW f, NEW g, NEW m \in Nat, NEW k \in Nat, m =< k,
         Written(f, m, b, up, leaf, tail), Written(g, k, b, up, leaf, tail)
  PROVE  \A n \in 0..m : f[n] = g[n]
<1> DEFINE Differ == {n \in 0..m : f[n] # g[n]}
<1> SUFFICES ASSUME Differ # {} PROVE FALSE
  OBVIOUS
<1>1. PICK n \in Differ : \A i \in Differ : n =< i
  <2>1. Differ \subseteq Nat
    OBVIOUS
  <2>. QED
    BY <2>1, NatHasLeast
<1>2. n \in 0..m /\ n \in 0..k /\ n \in Nat /\ f[n] # g[n]
  BY <1>1
<1>3. f[n] = Value(f, n, b, up, leaf, tail) /\ g[n] = Value(g, n, b, up, leaf, tail)
  BY <1>2 DEF Written
<1>4. ASSUME n >= b PROVE f[up[n]] = g[up[n]] /\ f[up[n]] \in Seq(Nat)
  <2>1. up[n] \in Nat /\ up[n] < n
    BY <1>2, <1>4 DEF Rule
  <2>2. up[n] \in 0..m /\ ~ (n =< up[n])
    BY <1>2, <2>1
  <2>. QED
    BY <1>1, <2>2 DEF Written
<1>5. CASE n < b
  BY <1>2, <1>3, <1>5 DEF Value
<1>6. CASE n >= b
  <2>1. f[n] = f[up[n]] \o tail[n] /\ g[n] = g[up[n]] \o tail[n]
    BY <1>2, <1>3, <1>6 DEF Value
  <2>2. f[up[n]] = g[up[n]]
    BY <1>4, <1>6
  <2>. QED
    BY <1>2, <2>1, <2>2
<1>. QED
  BY <1>2, <1>5, <1>6

LEMMA WrittenUpTo ==
  ASSUME NEW b \in Nat, NEW up, NEW leaf, NEW tail, Rule(b, up, leaf, tail), NEW m \in Nat
  PROVE  \E g : Written(g, m, b, up, leaf, tail)
<1> DEFINE S == {k \in Nat : \E g : Written(g, k, b, up, leaf, tail)}
<1>1. 0 \in S
  <2>1. 0 < b /\ leaf[0] \in Seq(Nat)
    BY DEF Rule
  <2>2. Written([n \in 0..0 |-> leaf[n]], 0, b, up, leaf, tail)
    BY <2>1 DEF Written, Value
  <2>. QED
    BY <2>2
<1>2. ASSUME NEW k \in Nat, k \in S PROVE k + 1 \in S
  <2>1. PICK f : Written(f, k, b, up, leaf, tail)
    BY <1>2
  <2> DEFINE g == [n \in 0..k+1 |-> IF n = k + 1 THEN Value(f, k + 1, b, up, leaf, tail) ELSE f[n]]
  <2>3. /\ g = [n \in 0..k+1 |-> g[n]]
         /\ \A n \in 0..k : g[n] = f[n]
         /\ g[k + 1] = Value(f, k + 1, b, up, leaf, tail)
    OBVIOUS
  <2> HIDE DEF g
  <2>2. ASSUME NEW n \in 0..k+1
        PROVE  /\ g[n] = Value(g, n, b, up, leaf, tail)
               /\ Value(g, n, b, up, leaf, tail) \in Seq(Nat)
    <3>1. n \in Nat
      OBVIOUS
    <3>2. ASSUME n >= b PROVE f[up[n]] = g[up[n]] /\ f[up[n]] \in Seq(Nat)
      <4>1. up[n] \in Nat /\ up[n] < n
        BY <3>1, <3>2 DEF Rule
      <4>2. up[n] \in 0..k /\ up[n] \in 0..k+1 /\ up[n] # k + 1
        BY <3>1, <4>1
      <4>. QED
        BY <2>1, <2>3, <4>2 DEF Written
    <3>3. /\ Value(f, n, b, up, leaf, tail) = Value(g, n, b, up, leaf, tail)
          /\ Value(f, n, b, up, leaf, tail) \in Seq(Nat)
      <4>1. leaf[n] \in Seq(Nat) /\ tail[n] \in Seq(Nat)
        BY <3>1 DEF Rule
      <4>2. CASE n < b
        BY <3>1, <4>1, <4>2 DEF Value
      <4>3. CASE n >= b
        <5>1. f[up[n]] = g[up[n]] /\ f[up[n]] \o tail[n] \in Seq(Nat)
          BY <3>2, <4>1, <4>3, ConcatProperties
        <5>2. /\ Value(f, n, b, up, leaf, tail) = f[up[n]] \o tail[n]
              /\ Value(g, n, b, up, leaf, tail) = g[up[n]] \o tail[n]
          <6>1. ~(n < b)
            BY <3>1, <4>3
          <6>. QED
            BY <6>1, Zenon DEF Value
        <5>. QED
          BY <5>1, <5>2
      <4>. QED
        BY <3>1, <4>2, <4>3
    <3>4. g[n] = Value(f, n, b, up, leaf, tail)
      <4>1. CASE n = k + 1
        BY <2>3, <4>1
      <4>2. CASE n # k + 1
        <5>1. n \in 0..k
          BY <4>2
        <5>. QED
          BY <2>1, <2>3, <5>1 DEF Written
      <4>. QED
        BY <4>1, <4>2
    <3>. QED
      BY <3>3, <3>4
  <2>4. Written(g, k + 1, b, up, leaf, tail)
    BY <2>3, <2>2 DEF Written
  <2>. QED
    BY <2>4
<1>. QED
  <2> HIDE DEF S
  <2>1. m \in S
    BY <1>1, <1>2, SetInduction
  <2>. QED
    BY <2>1 DEF S

Solvable(b, up, leaf, tail) ==
  \E g \in [Nat -> Seq(Nat)] : \A n \in Nat : g[n] = Value(g, n, b, up, leaf, tail)

LEMMA WrittenExists ==
  ASSUME NEW b \in Nat, NEW up, NEW leaf, NEW tail, Rule(b, up, leaf, tail)
  PROVE  Solvable(b, up, leaf, tail)
<1> DEFINE F(m) == CHOOSE g : Written(g, m, b, up, leaf, tail)
           g == [n \in Nat |-> F(n)[n]]
<1>1. \A m \in Nat : Written(F(m), m, b, up, leaf, tail)
  BY WrittenUpTo
<1> HIDE DEF F
<1>2. \A n \in Nat : F(n)[n] \in Seq(Nat) /\ g[n] = F(n)[n]
  BY <1>1 DEF Written
<1>3. g \in [Nat -> Seq(Nat)]
  BY <1>2
<1> HIDE DEF g
<1>4. ASSUME NEW n \in Nat PROVE g[n] = Value(g, n, b, up, leaf, tail)
  <2>1. F(n)[n] = Value(F(n), n, b, up, leaf, tail)
    <3>1. n \in 0..n
      OBVIOUS
    <3>. QED
      BY <1>1, <3>1 DEF Written
  <2>2. ASSUME n >= b PROVE F(n)[up[n]] = g[up[n]] /\ F(n)[up[n]] \in Seq(Nat)
    <3> PICK u : u = up[n]
      OBVIOUS
    <3>1. u \in Nat /\ u =< n /\ u \in 0..u
      BY <2>2 DEF Rule
    <3>2. PICK f, h : f = F(u) /\ h = F(n)
      OBVIOUS
    <3>3. Written(f, u, b, up, leaf, tail) /\ Written(h, n, b, up, leaf, tail)
      BY <1>1, <3>1, <3>2
    <3>4. \A i \in 0..u : f[i] = h[i]
      BY <3>1, <3>3, WrittenOnce
    <3>. QED
      BY <1>2, <3>1, <3>2, <3>4
  <2>3. CASE n < b
    BY <1>2, <2>1, <2>3 DEF Value
  <2>4. CASE n >= b
    <3>1. ~(n < b)
      BY <2>4
    <3>2. F(n)[n] = F(n)[up[n]] \o tail[n] /\ Value(g, n, b, up, leaf, tail) = g[up[n]] \o tail[n]
      BY <2>1, <3>1, Zenon DEF Value
    <3>3. F(n)[up[n]] = g[up[n]] /\ g[n] = F(n)[n]
      BY <1>2, <2>2, <2>4
    <3>. QED
      BY <3>2, <3>3, Zenon
  <2>. QED
    BY <2>3, <2>4
<1>. QED
  BY <1>3, <1>4 DEF Solvable

LEMMA Shorter ==
  /\ \A n \in Nat : n \div 16 \in Nat /\ n % 16 \in Nat /\ (n >= 16 => n \div 16 < n)
  /\ \A n \in Nat : n \div 256 \in Nat /\ (n >= 256 => n \div 256 < n)
BY SMTT(30)

(* The two recursions have solutions, and so are what they say.            *)
LEMMA DigitsAre ==
  /\ \A n \in Nat : Digits[n] \in Seq(Nat)
  /\ \A n \in Nat : n < 16 => Digits[n] = <<n>>
  /\ \A n \in Nat : n >= 16 => Digits[n] = Append(Digits[n \div 16], n % 16)
<1> DEFINE up == [n \in Nat |-> n \div 16]
           leaf == [n \in Nat |-> <<n>>]
           tail == [n \in Nat |-> <<n % 16>>]
<1>1. Rule(16, up, leaf, tail)
  <2>1. \A n \in Nat : leaf[n] \in Seq(Nat) /\ tail[n] \in Seq(Nat)
    OBVIOUS
  <2>2. \A n \in Nat : n >= 16 => up[n] \in Nat /\ up[n] < n
    OBVIOUS
  <2>. QED
    BY <2>1, <2>2 DEF Rule
<1>2. /\ \A n \in Nat : up[n] = n \div 16 /\ n \div 16 \in Nat
      /\ \A n \in Nat : leaf[n] = <<n>>
      /\ \A n \in Nat : tail[n] = <<n % 16>> /\ n % 16 \in Nat
  OBVIOUS
<1> HIDE DEF up, leaf, tail
<1>3. PICK g \in [Nat -> Seq(Nat)] : \A n \in Nat : g[n] = Value(g, n, 16, up, leaf, tail)
  <2>1. Solvable(16, up, leaf, tail)
    BY <1>1, WrittenExists
  <2>. QED
    BY <2>1 DEF Solvable
<1>4. ASSUME NEW n \in Nat
      PROVE  g[n] = IF n < 16 THEN <<n>> ELSE Append(g[n \div 16], n % 16)
  <2>1. CASE n < 16
    BY <1>2, <1>3, <2>1 DEF Value
  <2>2. CASE ~ (n < 16)
    <3>1. g[n] = g[up[n]] \o tail[n]
      BY <1>3, <2>2, Zenon DEF Value
    <3>2. n \div 16 \in Nat /\ n % 16 \in Nat /\ up[n] = n \div 16 /\ tail[n] = <<n % 16>>
      BY <1>2
    <3>3. g[n \div 16] \in Seq(Nat)
      BY <3>2
    <3>4. Append(g[n \div 16], n % 16) = g[n \div 16] \o <<n % 16>>
      BY <3>2, <3>3, AppendIsConcat
    <3>. QED
      BY <2>2, <3>1, <3>2, <3>4
  <2>. QED
    BY <2>1, <2>2
<1>5. g = [n \in Nat |-> IF n < 16 THEN <<n>> ELSE Append(g[n \div 16], n % 16)]
  BY <1>4
<1>6. Digits = [n \in Nat |-> IF n < 16 THEN <<n>> ELSE Append(Digits[n \div 16], n % 16)]
  BY <1>5, Zenon DEF Digits
<1>7. \A n \in Nat : Digits[n] = IF n < 16 THEN <<n>> ELSE Append(Digits[n \div 16], n % 16)
  BY <1>6, Zenon
<1>8. \A n \in Nat : Digits[n] \in Seq(Nat)
  <2> DEFINE Bad == {n \in Nat : Digits[n] \notin Seq(Nat)}
  <2> SUFFICES ASSUME Bad # {} PROVE FALSE
    OBVIOUS
  <2>1. PICK n \in Bad : \A i \in Bad : n =< i
    <3>1. Bad \subseteq Nat
      OBVIOUS
    <3>. QED
      BY <3>1, NatHasLeast
  <2>2. n \in Nat /\ Digits[n] \notin Seq(Nat)
    OBVIOUS
  <2>3. CASE n < 16
    <3>1. Digits[n] = <<n>>
      BY <1>7, <2>2, <2>3, Zenon
    <3>. QED
      BY <2>2, <3>1
  <2>4. CASE ~ (n < 16)
    <3>1. n \div 16 \in Nat /\ n \div 16 < n /\ n % 16 \in Nat
      BY <2>2, <2>4, Shorter, SMTT(30)
    <3>2. Digits[n \div 16] \in Seq(Nat)
      <4>1. PICK i \in Nat : i = n \div 16
        BY <3>1
      <4>2. i \notin Bad
        BY <2>1, <2>2, <3>1, <4>1
      <4>. QED
        BY <4>1, <4>2
    <3>3. Digits[n] = Append(Digits[n \div 16], n % 16)
      BY <1>7, <2>2, <2>4
    <3>. QED
      BY <2>2, <3>1, <3>2, <3>3
  <2>. QED
    BY <2>3, <2>4
<1>9. ASSUME NEW n \in Nat, n < 16 PROVE Digits[n] = <<n>>
  BY <1>7, <1>9
<1>10. ASSUME NEW n \in Nat, n >= 16 PROVE Digits[n] = Append(Digits[n \div 16], n % 16)
  <2>1. ~ (n < 16)
    BY <1>10
  <2>. QED
    BY <1>7, <2>1
<1>. QED
  BY <1>8, <1>9, <1>10

Byte(n) == <<(n % 256) \div 16, n % 16>>

LEMMA OctetsAre ==
  /\ \A n \in Nat : Octets[n] \in Seq(Nat)
  /\ \A n \in Nat : n < 256 => Octets[n] = Byte(n)
  /\ \A n \in Nat : n >= 256 => Octets[n] = Octets[n \div 256] \o Byte(n)
<1> DEFINE up == [n \in Nat |-> n \div 256]
           tail == [n \in Nat |-> Byte(n)]
<1>0. \A n \in Nat : Byte(n) \in Seq(Nat)
  BY DEF Byte
<1>1. Rule(256, up, tail, tail)
  <2>1. \A n \in Nat : tail[n] \in Seq(Nat)
    BY <1>0
  <2>2. \A n \in Nat : n >= 256 => up[n] \in Nat /\ up[n] < n
    OBVIOUS
  <2>. QED
    BY <2>1, <2>2 DEF Rule
<1>2. /\ \A n \in Nat : up[n] = n \div 256 /\ n \div 256 \in Nat
      /\ \A n \in Nat : tail[n] = Byte(n)
  OBVIOUS
<1> HIDE DEF up, tail
<1>3. PICK g \in [Nat -> Seq(Nat)] : \A n \in Nat : g[n] = Value(g, n, 256, up, tail, tail)
  <2>1. Solvable(256, up, tail, tail)
    BY <1>1, WrittenExists
  <2>. QED
    BY <2>1 DEF Solvable
<1>4. ASSUME NEW n \in Nat
      PROVE  g[n] = IF n < 256 THEN Byte(n) ELSE g[n \div 256] \o Byte(n)
  BY <1>2, <1>3, Zenon DEF Value
<1>5. g = [n \in Nat |-> IF n < 256 THEN Byte(n) ELSE g[n \div 256] \o Byte(n)]
  BY <1>4
<1>6. Octets = [n \in Nat |-> IF n < 256 THEN Byte(n) ELSE Octets[n \div 256] \o Byte(n)]
  BY <1>5, ZenonT(60) DEF Octets, Byte
<1>7. \A n \in Nat : Octets[n] = IF n < 256 THEN Byte(n) ELSE Octets[n \div 256] \o Byte(n)
  BY <1>6, Zenon
<1>8. \A n \in Nat : Octets[n] \in Seq(Nat)
  <2> DEFINE Bad == {n \in Nat : Octets[n] \notin Seq(Nat)}
  <2> SUFFICES ASSUME Bad # {} PROVE FALSE
    OBVIOUS
  <2>1. PICK n \in Bad : \A i \in Bad : n =< i
    <3>1. Bad \subseteq Nat
      OBVIOUS
    <3>. QED
      BY <3>1, NatHasLeast
  <2>2. n \in Nat /\ Octets[n] \notin Seq(Nat)
    OBVIOUS
  <2>3. CASE n < 256
    <3>1. Octets[n] = Byte(n)
      BY <1>7, <2>2, <2>3, Zenon
    <3>. QED
      BY <1>0, <2>2, <3>1
  <2>4. CASE ~ (n < 256)
    <3>1. n \div 256 \in Nat /\ n \div 256 < n
      BY <2>2, <2>4, Shorter, SMTT(30)
    <3>2. Octets[n \div 256] \in Seq(Nat)
      <4>1. PICK i \in Nat : i = n \div 256
        BY <3>1
      <4>2. i \notin Bad
        BY <2>1, <2>2, <3>1, <4>1
      <4>. QED
        BY <4>1, <4>2
    <3>3. Octets[n] = Octets[n \div 256] \o Byte(n)
      BY <1>7, <2>2, <2>4, Zenon
    <3>. QED
      BY <1>0, <2>2, <3>2, <3>3, ConcatProperties
  <2>. QED
    BY <2>3, <2>4
<1>9. ASSUME NEW n \in Nat, n < 256 PROVE Octets[n] = Byte(n)
  BY <1>7, <1>9, Zenon
<1>10. ASSUME NEW n \in Nat, n >= 256 PROVE Octets[n] = Octets[n \div 256] \o Byte(n)
  <2>1. ~ (n < 256)
    BY <1>10
  <2>. QED
    BY <1>7, <2>1, Zenon
<1>. QED
  BY <1>8, <1>9, <1>10

(* One digit after another.                                                *)
LEMMA TwoDigits ==
  ASSUME NEW x \in Nat, NEW y \in Nat
  PROVE  <<x>> \o <<y>> = <<x, y>>
<1>1. PICK a, b, c : a = <<x>> /\ b = <<y>> /\ c = <<x, y>>
  OBVIOUS
<1>2. /\ a \in Seq(Nat) /\ b \in Seq(Nat) /\ c \in Seq(Nat)
      /\ Len(a) = 1 /\ Len(b) = 1 /\ Len(c) = 2
      /\ a[1] = x /\ b[1] = y /\ c[1] = x /\ c[2] = y
  BY <1>1
<1>3. a \o b \in Seq(Nat) /\ Len(a \o b) = 2 /\ (a \o b)[1] = a[1] /\ (a \o b)[2] = b[1]
  <2>1. /\ a \o b \in Seq(Nat)
        /\ Len(a \o b) = Len(a) + Len(b)
        /\ \A i \in 1 .. Len(a) + Len(b) :
             (a \o b)[i] = IF i <= Len(a) THEN a[i] ELSE b[i - Len(a)]
    BY <1>2, ConcatProperties
  <2>. QED
    BY <1>2, <2>1
<1>4. \A i \in 1..2 : (a \o b)[i] = c[i]
  BY <1>2, <1>3
<1>5. a \o b = c
  BY <1>2, <1>3, <1>4, SeqEqual
<1>. QED
  BY <1>1, <1>5

LEMMA TwoMoreDigits ==
  ASSUME NEW d \in Seq(Nat), NEW x \in Nat, NEW y \in Nat
  PROVE  Append(Append(d, x), y) = d \o <<x, y>>
<1>1. Append(d, x) \in Seq(Nat) /\ <<x>> \in Seq(Nat) /\ <<y>> \in Seq(Nat)
  OBVIOUS
<1>2. Append(d, x) = d \o <<x>> /\ Append(Append(d, x), y) = Append(d, x) \o <<y>>
  BY <1>1, AppendIsConcat
<1>3. <<x>> \o <<y>> = <<x, y>>
  BY TwoDigits
<1>4. (d \o <<x>>) \o <<y>> = d \o (<<x>> \o <<y>>)
  BY <1>1, ConcatAssociative
<1>. QED
  BY <1>2, <1>3, <1>4

(* What is printed of a certificate is what its handshake presents, for    *)
(* every serial number: the digit the one pads with is the one the other   *)
(* writes of the highest byte.                                             *)
LEMMA PrintedIsPresented == \A n \in Nat : serial_number_to_hex(n) = presented(n)
<1> DEFINE Bad == {n \in Nat : serial_number_to_hex(n) # presented(n)}
<1> SUFFICES ASSUME Bad # {} PROVE FALSE
  OBVIOUS
<1>1. PICK n \in Bad : \A i \in Bad : n =< i
  <2>1. Bad \subseteq Nat
    OBVIOUS
  <2>. QED
    BY <2>1, NatHasLeast
<1>2. n \in Nat /\ serial_number_to_hex(n) # presented(n)
  OBVIOUS
<1>3. CASE n < 16
  <2>1. Digits[n] = <<n>> /\ Octets[n] = Byte(n)
    BY <1>2, <1>3, DigitsAre, OctetsAre
  <2>2. (n % 256) \div 16 = 0 /\ n % 16 = n
    BY <1>2, <1>3
  <2>3. Len(<<n>>) % 2 = 1
    BY <1>2
  <2>4. <<0>> \o <<n>> = <<0, n>>
    BY <1>2, TwoDigits
  <2>. QED
    BY <1>2, <2>1, <2>2, <2>3, <2>4 DEF serial_number_to_hex, presented, Byte
<1>4. CASE n >= 16 /\ n < 256
  <2>1. n \div 16 \in Nat /\ n \div 16 < 16 /\ n % 16 \in Nat /\ (n % 256) \div 16 = n \div 16
    BY <1>2, <1>4
  <2>2. Digits[n] = Append(<<n \div 16>>, n % 16) /\ Octets[n] = Byte(n)
    BY <1>2, <1>4, <2>1, DigitsAre, OctetsAre
  <2>3. Append(<<n \div 16>>, n % 16) = <<n \div 16, n % 16>>
    <3>1. <<n \div 16>> \in Seq(Nat)
      BY <2>1
    <3>2. Append(<<n \div 16>>, n % 16) = <<n \div 16>> \o <<n % 16>>
      BY <2>1, <3>1, AppendIsConcat
    <3>. QED
      BY <2>1, <3>2, TwoDigits
  <2>4. Len(<<n \div 16, n % 16>>) % 2 # 1
    BY <2>1
  <2>. QED
    BY <1>2, <2>1, <2>2, <2>3, <2>4 DEF serial_number_to_hex, presented, Byte
<1>5. CASE n >= 256
  <2> DEFINE u == n \div 256
             d == Digits[u]
  <2>1. /\ n \div 16 \in Nat /\ n \div 16 >= 16 /\ n % 16 \in Nat
        /\ (n \div 16) \div 16 = u /\ (n \div 16) % 16 = (n % 256) \div 16
        /\ u \in Nat /\ u < n /\ (n % 256) \div 16 \in Nat
    BY <1>2, <1>5
  <2>2. Digits[n] = Append(Append(d, (n % 256) \div 16), n % 16) /\ d \in Seq(Nat)
    <3>1. Digits[n \div 16] = Append(d, (n % 256) \div 16)
      <4>1. PICK v \in Nat : v = n \div 16
        BY <2>1
      <4>2. Digits[v] = Append(Digits[v \div 16], v % 16)
        BY <2>1, <4>1, DigitsAre
      <4>. QED
        BY <2>1, <4>1, <4>2
    <3>2. Digits[n] = Append(Digits[n \div 16], n % 16)
      <4>1. PICK v \in Nat : v = n /\ v >= 16
        BY <1>2, <1>5
      <4>2. Digits[v] = Append(Digits[v \div 16], v % 16)
        BY <4>1, DigitsAre
      <4>. QED
        BY <4>1, <4>2
    <3>. QED
      BY <2>1, <3>1, <3>2, DigitsAre
  <2>3. Octets[n] = Octets[u] \o Byte(n)
    BY <1>2, <1>5, OctetsAre
  <2>4. serial_number_to_hex(u) = Octets[u]
    BY <1>1, <2>1 DEF presented
  <2> HIDE DEF u, d
  <2>5. Byte(n) \in Seq(Nat) /\ Byte(n) = <<(n % 256) \div 16, n % 16>>
    BY <2>1 DEF Byte
  <2>6. Digits[n] = d \o Byte(n)
    <3>1. Append(Append(d, (n % 256) \div 16), n % 16) = d \o <<(n % 256) \div 16, n % 16>>
      <4>1. PICK x, y \in Nat : x = (n % 256) \div 16 /\ y = n % 16
        BY <2>1
      <4>2. Append(Append(d, x), y) = d \o <<x, y>>
        BY <2>2, TwoMoreDigits, SMTT(30)
      <4>. QED
        BY <4>1, <4>2
    <3>. QED
      BY <2>2, <2>5, <3>1
  <2>7. Len(Digits[n]) = Len(d) + 2 /\ Len(d) \in Nat
    BY <2>1, <2>2
  <2>8. (Len(Digits[n]) % 2 = 1) <=> (Len(d) % 2 = 1)
    BY <2>7
  <2>9. CASE Len(d) % 2 = 1
    <3>1. serial_number_to_hex(n) = <<0>> \o (d \o Byte(n)) /\ Octets[u] = <<0>> \o d
      BY <2>4, <2>6, <2>8, <2>9 DEF serial_number_to_hex, d
    <3>2. <<0>> \in Seq(Nat)
      OBVIOUS
    <3>3. (<<0>> \o d) \o Byte(n) = <<0>> \o (d \o Byte(n))
      BY <2>2, <2>5, <3>2, ConcatAssociative
    <3>. QED
      BY <1>2, <2>3, <3>1, <3>3 DEF presented
  <2>10. CASE Len(d) % 2 # 1
    BY <1>2, <2>3, <2>4, <2>6, <2>8, <2>10 DEF serial_number_to_hex, presented, d
  <2>. QED
    BY <2>9, <2>10
<1>. QED
  BY <1>2, <1>3, <1>4, <1>5
-----------------------------------------------------------------------------
(* The numbers of the certificates are those a certificate may be given.   *)
NumbersOK ==
  /\ \A c \in issued : c.number \in Number
  /\ \A o \in Operator : op[o].at = "sign" => op[o].number \in Number

EInv == IInv /\ NumbersOK /\ LedgerInv

LEMMA NumbersInv ==
  ASSUME Shape, NumbersOK, NEW o \in Operator, OperatorStep(o)
  PROVE  NumbersOK'
<1>1. op \in [Operator -> Process]
  BY DEF Shape
<1>2. ASSUME NEW next, Goes(o, next), next.at = "sign" => next.number \in Number,
             \A c \in issued' : c \in issued \/ c.number \in Number
      PROVE  NumbersOK'
  BY <1>1, <1>2 DEF Goes, NumbersOK
<1>3. Free.at # "sign"
  BY DEF Free, Doing
<1>4. ASSUME NEW force \in BOOLEAN, init(o, force) PROVE NumbersOK'
  BY <1>2, <1>4 DEF init, Create, Build, Doing
<1>5. CASE load_ca(o)
  BY <1>2, <1>5 DEF load_ca, Doing
<1>6. CASE sign_server(o)
  BY <1>2, <1>6 DEF sign_server, Doing
<1>7. ASSUME NEW n \in Number, sign_node(o, n) PROVE NumbersOK'
  <2> DEFINE next == [op[o] EXCEPT !.at = "sign", !.number = n]
  <2>1. next.number = n
    BY <1>1 DEF Process
  <2>2. Goes(o, next) /\ issued' = issued
    BY <1>7 DEF sign_node
  <2> HIDE DEF next
  <2>. QED
    BY <1>2, <2>1, <2>2
<1>8. CASE hand_over(o)
  BY <1>2, <1>3, <1>8 DEF hand_over, NumbersOK
<1>9. CASE truncate(o)
  <2> DEFINE next == [op[o] EXCEPT !.open = Head(op[o].todo).file]
  <2>1. next.at = op[o].at /\ next.number = op[o].number
    BY <1>1 DEF Process
  <2>2. Goes(o, next) /\ issued' = issued
    BY <1>9 DEF truncate
  <2> HIDE DEF next
  <2>. QED
    BY <1>2, <2>1, <2>2 DEF NumbersOK
<1>10. CASE fill(o)
  <2> DEFINE rest == [op[o] EXCEPT !.todo = Tail(@), !.open = "none"]
             next == IF Tail(op[o].todo) = <<>> THEN Free ELSE rest
  <2>1. rest.at = op[o].at /\ rest.number = op[o].number
    BY <1>1 DEF Process
  <2>2. Goes(o, next) /\ issued' = issued
    BY <1>10 DEF fill
  <2>3. next = Free \/ next = rest
    OBVIOUS
  <2> HIDE DEF next, rest
  <2>. QED
    BY <1>2, <1>3, <2>1, <2>2, <2>3 DEF NumbersOK
<1>11. CASE operator_dies(o)
  BY <1>2, <1>3, <1>11 DEF operator_dies
<1>. QED
  BY <1>4, <1>5, <1>6, <1>7, <1>8, <1>9, <1>10, <1>11 DEF OperatorStep

(* What an operator registers is a serial, ...                             *)
LEMMA CommandsAreCalls ==
  ASSUME NumbersOK, NEW c \in Cli, ledger_step(c)
  PROVE  CliStep(c)
<1>1. ASSUME NEW cert \in issued, NEW action \in Action,
             Command(c, action, serial_number_to_hex(cert.number))
      PROVE  CliStep(c)
  <2>1. serial_number_to_hex(cert.number) \in Serial
    BY SerialAssumption DEF NumbersOK
  <2>. QED
    BY <1>1, <2>1 DEF CliStep
<1>. QED
  BY <1>1 DEF ledger_step, CliStep

(* ... so that the ledger is what Ledger.tla says, between these commands  *)
(* too.                                                                    *)
LEMMA EnrollmentInv == Spec => []EInv
<1>1. Init => EInv
  <2>1. Init => NumbersOK
    BY DEF Init, NumbersOK, Free, Doing
  <2>. QED
    BY <2>1, InitInv, LedgerInitInv DEF Init, EInv
<1>2. EInv /\ [Next]_vars => EInv'
  <2> SUFFICES ASSUME EInv, [Next]_vars PROVE EInv'
    OBVIOUS
  <2>1. IInv'
    BY NextInv DEF EInv
  <2>2. ASSUME NEW o \in Operator, OperatorStep(o) PROVE NumbersOK' /\ LedgerInv'
    <3>1. NumbersOK'
      BY <2>2, NumbersInv DEF EInv, IInv
    <3>2. UNCHANGED ledgerVars
      BY <2>2 DEF OperatorStep, init, Create, Build, load_ca, sign_server, sign_node, hand_over,
                  truncate, fill, operator_dies
    <3>. QED
      BY <3>1, <3>2, LedgerRests DEF EInv
  <2>3. CASE start \/ stop
    BY <2>1, <2>3, LedgerRests DEF EInv, NumbersOK, start, stop
  <2>4. ASSUME NEW c \in Cli, ledger_step(c) PROVE NumbersOK' /\ LedgerInv'
    <3>1. LedgerInv'
      BY <2>4, CommandsAreCalls, CallsKeepLedger DEF EInv
    <3>2. NumbersOK'
      BY <2>4 DEF EInv, NumbersOK, ledger_step
    <3>. QED
      BY <3>1, <3>2
  <2>5. CASE UNCHANGED vars
    <3>1. UNCHANGED ledgerVars /\ issued' = issued /\ op' = op
      BY <2>5 DEF vars
    <3>2. LedgerInv'
      BY <3>1, LedgerRests DEF EInv
    <3>3. NumbersOK'
      BY <3>1 DEF EInv, NumbersOK
    <3>. QED
      BY <2>1, <3>2, <3>3 DEF EInv
  <2>. QED
    BY <2>1, <2>2, <2>3, <2>4, <2>5 DEF Next, EInv
<1>. QED
  BY <1>1, <1>2, PTL DEF Spec

(* A node is let in exactly when the last command for its printed serial   *)
(* was no revocation: its certificate verifies, what its handshake         *)
(* presents is what was printed, and the entry is its last event.          *)
THEOREM NodesAreLetInAsSaid == Spec => []RegisteredIsRecognised
<1>1. EInv => RegisteredIsRecognised
  <2> SUFFICES ASSUME EInv, server.up, replaced = {}, NEW cert \in issued
               PROVE  LetIn(cert) <=> Commanded(cert)
    BY DEF RegisteredIsRecognised
  <2> PICK s : s = serial_number_to_hex(cert.number)
    OBVIOUS
  <2>1. s \in Serial /\ presented(cert.number) = s
    BY PrintedIsPresented, SerialAssumption, EnrollmentAssumption DEF EInv, NumbersOK
  <2>2. server.trusts = cert.by
    BY DEF EInv, IInv, CaOK
  <2> DEFINE events == {i \in 1..Len(log) : log[i].serial = s}
  <2>3. Get(s) = IF events = {} THEN "none"
                 ELSE IF log[Max(events)].action = "revoke" THEN "revoked" ELSE "active"
    BY <2>1 DEF EInv, LedgerInv, EntryIsLastEvent
  <2>4. LetIn(cert) <=> Get(s) = "active"
    BY <2>1, <2>2 DEF LetIn
  <2>5. Commanded(cert) <=> events # {} /\ log[Max(events)].action # "revoke"
    BY DEF Commanded
  <2> HIDE DEF events
  <2>. QED
    BY <2>3, <2>4, <2>5
<1>. QED
  BY <1>1, EnrollmentInv, PTL
=============================================================================
