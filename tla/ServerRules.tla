----------------------------- MODULE ServerRules -----------------------------
(***************************************************************************)
(* The settings of a server as Steam server rules                          *)
(* (crate-transport/src/server_data.rs): encode_rules compresses them and  *)
(* cuts the bytes into chunks, one rule each, next to a rule with their    *)
(* number; decode_rules puts them together again.                          *)
(*                                                                         *)
(* The rules are set one by one (SetKeyValue, server_data.rs 87-88), in    *)
(* the order of a HashMap, and never taken back: a shorter publication     *)
(* leaves the last chunks of a longer one.  Whoever asks for the rules     *)
(* gets them one by one too, while the server publishes, and may not get   *)
(* them all.  Both are outside of this repository.                         *)
(***************************************************************************)
EXTENDS Integers, Sequences

CONSTANTS
    Contents,         \* server data
    Image,            \* what `compress` makes of each: its bytes
    PrefixLength,     \* bytes of an image before the gzip stream; 4
    ChunkSize,        \* RULE_CHUNK_SIZE; 93
    SizeKey,          \* RULE_KEY; chunk i has the key i
    MaxPublications,  \* bound
    None

Byte == 0..255

\* encode_rules

NumChunks(d) == (Len(Image[d]) + ChunkSize - 1) \div ChunkSize

Smaller(a, b) == IF a < b THEN a ELSE b

\* Slips of encode_rules, for mutation runs: a chunk holds its end; the last,
\* shorter chunk is forgotten.
ChunkWithEnd(d, i) ==
    SubSeq(Image[d], i * ChunkSize + 1, Smaller((i + 1) * ChunkSize + 1, Len(Image[d])))

\* compressed[start..end]
Chunk(d, i) == SubSeq(Image[d], i * ChunkSize + 1, Smaller((i + 1) * ChunkSize, Len(Image[d])))

WholeKeys(d) == {SizeKey} \cup 0..(Len(Image[d]) \div ChunkSize - 1)

Keys(d) == {SizeKey} \cup 0..(NumChunks(d) - 1)

EncodeRules(d) == [k \in Keys(d) |-> IF k = SizeKey THEN Len(Image[d]) ELSE Chunk(d, k)]

ByteOf(d, p) == IF p <= Len(Image[d]) THEN Image[d][p] ELSE 0

\* The chunk i of f would do for that of d; the prefix of an image is not
\* looked at.
Agrees(d, f, i) ==
    \A p \in 1..Len(Image[d]) :
        p > PrefixLength /\ (p - 1) \div ChunkSize = i => ByteOf(f, p) = Image[d][p]

ASSUME ConstantsAssumption ==
    /\ PrefixLength \in Nat /\ ChunkSize \in Nat \ {0} /\ MaxPublications \in Nat
    /\ None \notin Contents /\ SizeKey \notin Int
    /\ {"missing_size", "missing_chunk", "panic", "undecodable"} \cap (Contents \cup {None}) = {}
    /\ \A d \in Contents : Image[d] \in Seq(Byte) /\ Len(Image[d]) > PrefixLength

\* A gzip stream says where it ends and carries a checksum of its contents:
\* none is put together from chunks of other ones.
ASSUME ChecksumAssumption ==
    \A d \in Contents : \A S \in SUBSET (Contents \ {d}) :
        \E i \in 0..(NumChunks(d) - 1) : \A f \in S : ~Agrees(d, f, i)

----------------------------------------------------------------------------
(* decode_rules *)

\* copy_from_slice of the chunk goes past the end of the buffer.
Overruns(answer, i) == i * ChunkSize + Len(answer[i]) > answer[SizeKey]

\* The buffer, zero where no chunk reaches.
Compressed(answer) ==
    [p \in 1..answer[SizeKey] |->
        LET i == (p - 1) \div ChunkSize
        IN  IF p - i * ChunkSize <= Len(answer[i]) THEN answer[i][p - i * ChunkSize] ELSE 0]

\* `decompress` and `decode` take the bytes for d: its gzip stream follows the
\* prefix. What follows the stream is not read.
IsImage(bytes, d) ==
    /\ Len(Image[d]) <= Len(bytes)
    /\ \A p \in 1..Len(Image[d]) : p > PrefixLength => bytes[p] = Image[d][p]

DecodeRules(answer) ==
    LET n == (answer[SizeKey] + ChunkSize - 1) \div ChunkSize
        Missing(i) == i \notin DOMAIN answer
    IN  IF SizeKey \notin DOMAIN answer
        THEN "missing_size"
        ELSE IF \E i \in 0..(n - 1) : /\ \A j \in 0..i : ~Missing(j)
                                      /\ Overruns(answer, i)
        THEN "panic"
        ELSE IF \E i \in 0..(n - 1) : Missing(i)
        THEN "missing_chunk"
        ELSE IF \E d \in Contents : IsImage(Compressed(answer), d)
        THEN CHOOSE d \in Contents : IsImage(Compressed(answer), d)
        ELSE "undecodable"

----------------------------------------------------------------------------
VARIABLES
    rules,      \* the rules of the server
    current,    \* what it is publishing
    todo,       \* the rules still to set for it
    latest,     \* what it published last
    begun,      \* all it ever began to publish
    published,  \* how many publications
    phase,      \* of the query: idle, asking or answered
    answer,     \* the rules it got
    first,      \* what was published when it began
    recent,     \* first, and what was being published since
    quiet,      \* was nothing being published meanwhile?
    result      \* what decode_rules made of the answer

server == <<rules, current, todo, latest, begun, published>>
query == <<phase, answer, first, recent, quiet, result>>
vars == <<server, query>>

Init ==
    /\ rules = <<>>
    /\ current = None /\ todo = {} /\ latest = None
    /\ begun = {} /\ published = 0
    /\ phase = "idle"
    /\ answer = <<>>
    /\ first = None /\ recent = {} /\ quiet = FALSE
    /\ result = None

Put(r, k, v) == [x \in {k} \cup DOMAIN r |-> IF x = k THEN v ELSE r[x]]

\* encode_rules(d): its rules are to be set.
Publish(d) ==
    /\ current = None /\ published < MaxPublications
    /\ current' = d
    /\ todo' = Keys(d)
    /\ begun' = begun \cup {d}
    /\ published' = published + 1
    /\ IF phase = "asking"
       THEN recent' = recent \cup {d} /\ quiet' = FALSE
       ELSE UNCHANGED <<recent, quiet>>
    /\ UNCHANGED <<rules, latest, phase, answer, first, result>>

SetKeyValue(k) ==
    /\ k \in todo
    /\ rules' = Put(rules, k, EncodeRules(current)[k])
    /\ todo' = todo \ {k}
    /\ UNCHANGED <<current, latest, begun, published, query>>

Published ==
    /\ current # None /\ todo = {}
    /\ latest' = current
    /\ current' = None
    /\ UNCHANGED <<rules, todo, begun, published, query>>

\* A slip for a mutation run: the answer to the query before is kept.
AskMore ==
    /\ phase # "asking"
    /\ phase' = "asking"
    /\ first' = latest
    /\ recent' = {latest, current} \ {None}
    /\ quiet' = (current = None)
    /\ result' = None
    /\ UNCHANGED <<server, answer>>

Ask ==
    /\ phase # "asking"
    /\ phase' = "asking"
    /\ answer' = <<>>
    /\ first' = latest
    /\ recent' = {latest, current} \ {None}
    /\ quiet' = (current = None)
    /\ result' = None
    /\ UNCHANGED server

GetRule(k) ==
    /\ phase = "asking"
    /\ k \in DOMAIN rules \ DOMAIN answer
    /\ answer' = Put(answer, k, rules[k])
    /\ UNCHANGED <<server, phase, first, recent, quiet, result>>

\* Also before all rules are there.
Decode ==
    /\ phase = "asking"
    /\ phase' = "answered"
    /\ result' = DecodeRules(answer)
    /\ UNCHANGED <<server, answer, first, recent, quiet>>

Next ==
    \/ \E d \in Contents : Publish(d)
    \/ \E k \in todo : SetKeyValue(k)
    \/ Published
    \/ Ask
    \/ \E k \in DOMAIN rules : GetRule(k)
    \/ Decode

Spec == Init /\ [][Next]_vars

----------------------------------------------------------------------------
(* Properties *)

KeysEver == {SizeKey} \cup Nat

Rules(r) ==
    /\ DOMAIN r \subseteq KeysEver
    /\ \A k \in DOMAIN r :
          IF k = SizeKey THEN r[k] \in Nat
          ELSE r[k] \in Seq(Byte) /\ Len(r[k]) <= ChunkSize

TypeOK ==
    /\ Rules(rules)
    /\ current \in Contents \cup {None}
    /\ todo \subseteq IF current = None THEN {} ELSE Keys(current)
    /\ latest \in Contents \cup {None}
    /\ begun \subseteq Contents /\ published \in 0..MaxPublications
    /\ phase \in {"idle", "asking", "answered"}
    /\ Rules(answer)
    /\ first \in Contents \cup {None} /\ recent \subseteq Contents /\ quiet \in BOOLEAN
    /\ result \in Contents \cup {None, "missing_size", "missing_chunk", "panic", "undecodable"}

\* A query during which nothing is published yields what was published last,
\* whatever is left of longer publications before; one that did not get all of
\* its rules fails for want of a rule and in no other way.
QuietQueryDecodes ==
    phase = "answered" /\ quiet =>
        /\ first # None /\ Keys(first) \subseteq DOMAIN answer => result = first
        /\ result \in ({first} \ {None}) \cup {"missing_size", "missing_chunk"}

\* A query never mixes publications into one that was not made, and what it
\* yields was published last or being published at some time of the query:
\* an older one can only come back from chunks that are past the end of the
\* one published last.
DecodedIsRecent ==
    result \in Contents =>
        \/ result \in recent
        \/ result \in begun /\ (first # None => NumChunks(first) < NumChunks(result))
=============================================================================
