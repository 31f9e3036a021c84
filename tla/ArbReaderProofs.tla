-------------------------- MODULE ArbReaderProofs ---------------------------
(***************************************************************************)
(* For every file: what the reader accepts is well-formed and is what the  *)
(* writer makes of it, and no file leads it out of its bounds.  For every  *)
(* storable module: its file, undamaged, is read back as that module.      *)
(*                                                                         *)
(* The invariants of the reader are the cursor (Cursor), the counts that   *)
(* are open (Room), the form of the module so far (Shape), its tables      *)
(* (Tables) and ids (Refs), and that the file up to the cursor is what the *)
(* writer would have written of the module so far, but for the entries due *)
(* (Laid).  Of an undamaged file also the rest is known: what lies after   *)
(* the cursor is what the writer wrote of the entries due (Comes).  What a *)
(* step reads is known from ArbReadFacts.                                  *)
(***************************************************************************)
EXTENDS ArbReadFacts

-----------------------------------------------------------------------------
(* The cursor: type correctness                                            *)

Cursor ==
    /\ bytes \in Seq(Byte)
    /\ pos \in Nat /\ end \in Nat /\ pos <= end /\ end <= Len(bytes)
    /\ section \in 1..5
    /\ status \in {"reading", "ok", "rejected"}

LEMMA CursorFile == Cursor => FileOK /\ pos \in Nat /\ pos <= end /\ section \in 1..5
  BY DEF Cursor, FileOK

\* A read stays within the section.
Moves(q) == q \in Nat /\ pos <= q /\ q <= end
LEMMA EntriesMove ==
    ASSUME Cursor
    PROVE  /\ \A r \in HeaderEntry : r.pos \in Nat /\ r.pos <= end
           /\ \A r \in SectionEntry : Moves(r.pos) /\ r.val \in Nat /\ r.pos <= r.val /\ r.val <= end
           /\ \A r \in ModuleEntry : Moves(r.pos)
           /\ section \in 2..5 => \A r \in CountEntry : Moves(r.pos)
           /\ \A r \in SymbolEntry : Moves(r.pos)
           /\ \A r \in TypeEntry : Moves(r.pos)
           /\ \A r \in ConstantEntry : Moves(r.pos)
           /\ \A r \in FunctionEntry : Moves(r.pos)
           /\ \A r \in ValueEntry : Moves(r.pos)
           /\ \A r \in Count(pos, MIN_BLOCK_LEN) : Moves(r.pos)
           /\ \A r \in BlockEntry : Moves(r.pos)
           /\ \A r \in InstEntry : Moves(r.pos)
           /\ \A r \in TermEntry : Moves(r.pos)
  <1>1. FileOK /\ pos \in Nat /\ pos <= end /\ section \in 1..5
    BY CursorFile
  <1>2. \A b, q : Ends(pos, b, q) => Moves(q)
    BY <1>1, EndsFacts DEF Moves
  <1>3. \A s, v, b : Result(s, pos, v, b) => Moves(s.pos)
    BY <1>2, ResultIs, Zenon
  <1>4. ASSUME NEW r \in HeaderEntry PROVE r.pos \in Nat /\ r.pos <= end
    <2>1. Ends(0, HeaderBytes(r.val.minor), r.pos)
      BY <1>1, HeaderRead
    <2> DEFINE q == r.pos
    <2> HIDE DEF q
    <2>2. Ends(0, HeaderBytes(r.val.minor), q)
      BY <2>1 DEF q
    <2>3. q \in Nat /\ q <= end
      BY <1>1, <2>2, EndsFacts
    <2> QED BY <2>3 DEF q
  <1>5. ASSUME NEW r \in SectionEntry PROVE Moves(r.pos) /\ r.val \in Nat /\ r.pos <= r.val /\ r.val <= end
    <2>1. PICK n : IsSection(r, n)
      BY <1>1, SectionRead
    <2> DEFINE q == r.pos
    <2>2. FitsIn(n, W64) /\ Ends(pos, SectionHead(section, n), q) /\ n <= end - q /\ r = Res(q + n, q)
      BY <2>1, Zenon DEF IsSection
    <2> HIDE DEF q
    <2>3. Moves(q) /\ r.val = q + n /\ n \in Nat
      BY <1>2, <2>2, ResFacts DEF FitsIn
    <2>4. q + n \in Nat /\ q <= q + n /\ q + n <= end
      BY <2>2, <2>3 DEF Moves, Cursor
    <2> QED BY <2>3, <2>4 DEF q
  <1>6. ASSUME NEW r \in ModuleEntry PROVE Moves(r.pos)
    BY <1>1, <1>2, ModuleRead
  <1>7. ASSUME section \in 2..5, NEW r \in CountEntry PROVE Moves(r.pos)
    BY <1>1, <1>3, <1>7, CountRead, Zenon
  <1>8. ASSUME NEW r \in SymbolEntry PROVE Moves(r.pos)
    BY <1>1, <1>3, SymbolRead, Zenon
  <1>9. ASSUME NEW r \in TypeEntry PROVE Moves(r.pos)
    BY <1>1, <1>3, TypeRead, Zenon
  <1>10. ASSUME NEW r \in ConstantEntry PROVE Moves(r.pos)
    BY <1>1, <1>3, ConstantRead, Zenon
  <1>11. ASSUME NEW r \in FunctionEntry PROVE Moves(r.pos)
    BY <1>1, <1>2, FunctionRead, Zenon DEF IsHead
  <1>12. ASSUME NEW r \in ValueEntry PROVE Moves(r.pos)
    BY <1>1, <1>2, ValueRead, Zenon DEF IsValue
  <1>13. ASSUME NEW r \in Count(pos, MIN_BLOCK_LEN) PROVE Moves(r.pos)
    <2>1. MIN_BLOCK_LEN \in Nat
      BY DEF MIN_BLOCK_LEN, W32
    <2> QED BY <1>1, <1>3, <2>1, CountReads
  <1>14. ASSUME NEW r \in BlockEntry PROVE Moves(r.pos)
    BY <1>1, <1>2, BlockRead, Zenon DEF IsBlock
  <1>15. ASSUME NEW r \in InstEntry PROVE Moves(r.pos)
    BY <1>1, <1>2, InstRead, Zenon DEF IsInst
  <1>16. ASSUME NEW r \in TermEntry PROVE Moves(r.pos)
    BY <1>1, <1>3, TermRead, Zenon
  <1> QED BY <1>4, <1>5, <1>6, <1>7, <1>8, <1>9, <1>10, <1>11, <1>12, <1>13, <1>14, <1>15, <1>16

LEMMA DamagedTyped ==
    ASSUME NEW b \in Seq(Byte), NEW d \in Damaged(b)
    PROVE  d \in Seq(Byte)
  <1>1. DamageTo \subseteq Byte
    BY ArbAssumption DEF Byte
  <1>2. CASE \E i \in DOMAIN b, v \in DamageTo : d = [b EXCEPT ![i] = v]
    BY <1>1, <1>2
  <1>3. CASE \E n \in 0..Len(b) - 1 : d = SubSeq(b, 1, n)
    BY <1>3
  <1>4. CASE \E v \in DamageTo : d = Append(b, v)
    BY <1>1, <1>4
  <1>5. CASE \E i \in DOMAIN b : d = RemoveAt(b, i)
    <2>1. PICK i \in DOMAIN b : d = RemoveAt(b, i)
      BY <1>5
    <2>2. i \in 1..Len(b) /\ Len(b) \in Nat
      OBVIOUS
    <2>3. SubSeq(b, 1, i - 1) \in Seq(Byte) /\ SubSeq(b, i + 1, Len(b)) \in Seq(Byte)
      BY <2>2
    <2> QED BY <2>1, <2>3, ConcatTyped, Zenon DEF RemoveAt
  <1>6. \/ \E i \in DOMAIN b, v \in DamageTo : d = [b EXCEPT ![i] = v]
        \/ \E n \in 0..Len(b) - 1 : d = SubSeq(b, 1, n)
        \/ \E v \in DamageTo : d = Append(b, v)
        \/ \E i \in DOMAIN b : d = RemoveAt(b, i)
    <2> DEFINE Changed(i, v) == [b EXCEPT ![i] = v]
               Cut(n) == SubSeq(b, 1, n)
               More(v) == Append(b, v)
               Lost(i) == RemoveAt(b, i)
    <2>1. d \in {Changed(i, v) : i \in DOMAIN b, v \in DamageTo} \cup {Cut(n) : n \in 0..Len(b) - 1}
               \cup {More(v) : v \in DamageTo} \cup {Lost(i) : i \in DOMAIN b}
      BY DEF Damaged
    <2> HIDE DEF Changed, Cut, More, Lost
    <2>2. \/ \E i \in DOMAIN b, v \in DamageTo : d = Changed(i, v)
          \/ \E n \in 0..Len(b) - 1 : d = Cut(n)
          \/ \E v \in DamageTo : d = More(v)
          \/ \E i \in DOMAIN b : d = Lost(i)
      BY <2>1
    <2> QED BY <2>2 DEF Changed, Cut, More, Lost
  <1> QED BY <1>2, <1>3, <1>4, <1>5, <1>6

LEMMA CursorInit == Init => Cursor
  <1> SUFFICES ASSUME Init PROVE Cursor
    OBVIOUS
  <1>1. Write(source) \in Seq(Byte)
    BY FilesAreBytes, ArbAssumption DEF Init, Byte
  <1> DEFINE b == Write(source)
  <1> HIDE DEF b
  <1>2. bytes = b \/ bytes \in Damaged(b)
    BY DEF Init, b
  <1>3. bytes \in Seq(Byte)
    BY <1>1, <1>2, DamagedTyped DEF b
  <1>4. pos = 0 /\ end = Len(bytes) /\ section = 1 /\ status = "reading"
    BY DEF Init
  <1> QED BY <1>3, <1>4 DEF Cursor

LEMMA CursorNext == Cursor /\ [Next]_vars => Cursor'
  <1> SUFFICES ASSUME Cursor, [Next]_vars PROVE Cursor'
    OBVIOUS
  <1>0. /\ bytes \in Seq(Byte) /\ pos \in Nat /\ end \in Nat /\ pos <= end /\ end <= Len(bytes)
        /\ section \in 1..5 /\ status \in {"reading", "ok", "rejected"} /\ Len(bytes) \in Nat
    BY DEF Cursor
  <1> DEFINE Same == UNCHANGED <<bytes, end, section, status>>
  <1>1. ASSUME NEW r, Moves(r.pos), NEW s, Advance(r, s), UNCHANGED <<end, section>> PROVE Cursor'
    BY <1>0, <1>1 DEF Moves, Advance, file, Cursor
  <1>2. CASE ReadHeader
    <2>1. PICK r \in HeaderEntry : Advance(r, "open")
      BY <1>2 DEF ReadHeader
    <2>2. r.pos \in Nat /\ r.pos <= end
      BY EntriesMove
    <2> QED BY <1>0, <1>2, <2>1, <2>2 DEF ReadHeader, Advance, file, Cursor
  <1>3. CASE OpenSection
    <2>1. PICK r \in SectionEntry : Advance(r, "start") /\ end' = r.val
      BY <1>3 DEF OpenSection
    <2>2. r.pos \in Nat /\ r.val \in Nat /\ r.pos <= r.val /\ r.val <= end
      BY EntriesMove DEF Moves
    <2> QED BY <1>0, <1>3, <2>1, <2>2 DEF OpenSection, Advance, file, Cursor
  <1>4. CASE ReadModule
    BY <1>1, <1>4, EntriesMove, Zenon DEF ReadModule
  <1>5. CASE ReadCount
    <2>1. section \in 2..5
      BY <1>0, <1>5 DEF ReadCount
    <2> QED BY <1>1, <1>5, <2>1, EntriesMove, Zenon DEF ReadCount
  <1>6. CASE CloseSection
    BY <1>0, <1>6 DEF CloseSection, file, Cursor, Closes
  <1>7. CASE Finish
    BY <1>0, <1>7 DEF Finish, file, Cursor
  <1>8. CASE ReadSymbol
    BY <1>1, <1>8, EntriesMove, Zenon DEF ReadSymbol
  <1>9. CASE ReadType
    BY <1>1, <1>9, EntriesMove, Zenon DEF ReadType
  <1>10. CASE ReadConstant
    BY <1>1, <1>10, EntriesMove, Zenon DEF ReadConstant
  <1>11. CASE ReadFunction
    BY <1>1, <1>11, EntriesMove, Zenon DEF ReadFunction
  <1>12. CASE ReadValue
    BY <1>1, <1>12, EntriesMove, Zenon DEF ReadValue
  <1>13. CASE ReadBlockCount
    BY <1>1, <1>13, EntriesMove, Zenon DEF ReadBlockCount
  <1>14. CASE ReadBlock
    BY <1>1, <1>14, EntriesMove, Zenon DEF ReadBlock
  <1>15. CASE ReadInst
    BY <1>1, <1>15, EntriesMove, Zenon DEF ReadInst
  <1>16. CASE ReadTerm
    BY <1>1, <1>16, EntriesMove, Zenon DEF ReadTerm
  <1>17. CASE EndFunction
    BY <1>0, <1>17 DEF EndFunction, file, Cursor
  <1>18. CASE Reject
    BY <1>0, <1>18 DEF Reject, file, Cursor
  <1>19. CASE UNCHANGED vars
    BY <1>0, <1>19 DEF vars, file, Cursor
  <1> QED BY <1>2, <1>3, <1>4, <1>5, <1>6, <1>7, <1>8, <1>9, <1>10, <1>11, <1>12, <1>13, <1>14,
             <1>15, <1>16, <1>17, <1>18, <1>19 DEF Next, Returned

LEMMA CursorAlways == Spec => []Cursor
  BY CursorInit, CursorNext, PTL DEF Spec

\* The cursor stays inside its section and the section inside the file, whatever the
\* bytes are: no slice of reader.rs is out of range.
THEOREM ArbTypes == Spec => []TypeOK
  <1>1. Cursor => TypeOK
    BY DEF Cursor, TypeOK
  <1> QED BY <1>1, CursorAlways, PTL


-----------------------------------------------------------------------------
(* Room for the lists                                                      *)

Lefts == [entries : Nat, values : Nat, blocks : Nat, insts : Nat]

\* The counts that are open at once, each bounded by what its shortest entries take.
Room ==
    /\ left \in Lefts
    /\ stage \in {"values", "blocks", "insts"} => section = 5
    /\ section < 5 => /\ left.entries <= Len(bytes)
                      /\ left.values = 0 /\ left.blocks = 0 /\ left.insts = 0
    /\ section = 5 => /\ left.entries * 13 <= Len(bytes) /\ left.values * 4 <= Len(bytes)
                      /\ left.blocks * 6 <= Len(bytes) /\ left.insts * 4 <= Len(bytes)

LEMMA CountsFit ==
    ASSUME Cursor
    PROVE  /\ section \in 2..5 => \A r \in CountEntry : r.val \in Nat /\ r.val * MinLen(section) <= Len(bytes)
           /\ \A r \in FunctionEntry : r.val.values \in Nat /\ r.val.values * 4 <= Len(bytes)
           /\ \A r \in Count(pos, MIN_BLOCK_LEN) : r.val \in Nat /\ r.val * 6 <= Len(bytes)
           /\ \A r \in BlockEntry : r.val.insts \in Nat /\ r.val.insts * 4 <= Len(bytes)
  <1>1. FileOK /\ pos \in Nat /\ pos <= end /\ section \in 1..5
    BY CursorFile
  <1>2. end \in Nat /\ end <= Len(bytes) /\ Len(bytes) \in Nat
    BY DEF Cursor
  <1>3. \A q, x : Moves(q) /\ x \in Int /\ x <= end - q => x <= Len(bytes)
    BY <1>2 DEF Moves
  <1>4. MIN_VALUE_LEN = 4 /\ MIN_BLOCK_LEN = 6 /\ MIN_INSTRUCTION_LEN = 4
    BY DEF MIN_VALUE_LEN, MIN_BLOCK_LEN, MIN_INSTRUCTION_LEN, W32
  <1>5. \A n : FitsIn(n, W32) => n \in Nat
    BY DEF FitsIn
  <1>6. ASSUME section \in 2..5, NEW r \in CountEntry
        PROVE  r.val \in Nat /\ r.val * MinLen(section) <= Len(bytes)
    <2> DEFINE n == r.val
               k == MinLen(section)
               q == r.pos
    <2>1. n \in Nat /\ n * k <= end - q /\ Moves(q)
      BY <1>1, <1>5, <1>6, CountRead, EntriesMove, Zenon
    <2>2. k \in Nat
      BY <1>6, MinLens
    <2> HIDE DEF n, k, q
    <2>3. n * k \in Int
      BY <2>1, <2>2
    <2> QED BY <1>3, <2>1, <2>3 DEF n, k
  <1>7. ASSUME NEW r \in FunctionEntry
        PROVE  r.val.values \in Nat /\ r.val.values * 4 <= Len(bytes)
    <2> DEFINE q == r.pos
    <2>1. PICK f, n : IsHead(r, f, n)
      BY <1>1, FunctionRead
    <2>2. FitsIn(n, W32) /\ n * 4 <= end - q /\ r = Res([function |-> f, values |-> n], q)
      BY <1>4, <2>1, Zenon DEF IsHead
    <2>3. Moves(q) /\ n \in Nat
      BY <1>5, <2>2, EntriesMove, Zenon
    <2> HIDE DEF q
    <2>4. r.val = [function |-> f, values |-> n]
      BY <2>2, ResFacts, Zenon
    <2>5. r.val.values = n
      BY <2>4
    <2>6. n * 4 \in Int
      BY <2>3
    <2> QED BY <1>3, <2>2, <2>3, <2>5, <2>6
  <1>8. ASSUME NEW r \in Count(pos, MIN_BLOCK_LEN) PROVE r.val \in Nat /\ r.val * 6 <= Len(bytes)
    <2> DEFINE n == r.val
               q == r.pos
    <2>1. \A s : s \in Count(pos, 6) <=> /\ FitsIn(s.val, W32) /\ Result(s, pos, s.val, U32(s.val))
                                         /\ s.val * 6 <= end - s.pos
      BY <1>1, CountReads
    <2>2. n \in Nat /\ n * 6 <= end - q /\ Moves(q)
      BY <1>4, <1>5, <2>1, EntriesMove, Zenon
    <2> HIDE DEF n, q
    <2>3. n * 6 \in Int
      BY <2>2
    <2> QED BY <1>3, <2>2, <2>3 DEF n
  <1>9. ASSUME NEW r \in BlockEntry
        PROVE  r.val.insts \in Nat /\ r.val.insts * 4 <= Len(bytes)
    <2> DEFINE q == r.pos
    <2>1. PICK f, n : IsBlock(r, f, n)
      BY <1>1, BlockRead
    <2>2. FitsIn(n, W32) /\ n * 4 <= end - q /\ r = Res([block |-> f, insts |-> n], q)
      BY <1>4, <2>1, Zenon DEF IsBlock
    <2>3. Moves(q) /\ n \in Nat
      BY <1>5, <2>2, EntriesMove, Zenon
    <2> HIDE DEF q
    <2>4. r.val = [block |-> f, insts |-> n]
      BY <2>2, ResFacts, Zenon
    <2>5. r.val.insts = n
      BY <2>4
    <2>6. n * 4 \in Int
      BY <2>3
    <2> QED BY <1>3, <2>2, <2>3, <2>5, <2>6
  <1> QED BY <1>6, <1>7, <1>8, <1>9

LEMMA RoomInit == Init => Room
  <1> SUFFICES ASSUME Init PROVE Room
    OBVIOUS
  <1>1. left = [entries |-> 0, values |-> 0, blocks |-> 0, insts |-> 0] /\ section = 1 /\ stage = "header"
    BY DEF Init
  <1>2. Cursor
    BY CursorInit
  <1>3. Len(bytes) \in Nat
    BY <1>2 DEF Cursor
  <1> QED BY <1>1, <1>3 DEF Room, Lefts

LEMMA RoomNext == Cursor /\ Room /\ [Next]_vars => Room'
  <1> SUFFICES ASSUME Cursor, Room, [Next]_vars PROVE Room'
    OBVIOUS
  <1> DEFINE L == Len(bytes)
  <1>0. L \in Nat /\ section \in 1..5
    BY DEF Cursor
  <1>1. /\ left \in Lefts
        /\ stage \in {"values", "blocks", "insts"} => section = 5
        /\ section < 5 => left.entries <= L /\ left.values = 0 /\ left.blocks = 0 /\ left.insts = 0
        /\ section = 5 => /\ left.entries * 13 <= L /\ left.values * 4 <= L
                          /\ left.blocks * 6 <= L /\ left.insts * 4 <= L
    BY DEF Room
  <1>2. ASSUME left' = left, L' = L, section' = section,
               stage' \in {"values", "blocks", "insts"} => section = 5
        PROVE  Room'
    BY <1>1, <1>2 DEF Room
  <1>3. \A r, s : Advance(r, s) => L' = L /\ stage' = s
    BY DEF Advance, file
  <1>4. ASSUME NEW list \in {"entries", "values", "insts"}, OneLess(list), left[list] > 0,
               L' = L, section' = section, stage' = stage
        PROVE  Room'
    <2>1. left'  = [left EXCEPT ![list] = @ - 1]
      BY <1>4 DEF OneLess
    <2> DEFINE e == left.entries
               v == left.values
               b == left.blocks
               i == left.insts
    <2>2. e \in Nat /\ v \in Nat /\ b \in Nat /\ i \in Nat
      BY <1>1 DEF Lefts
    <2>3. /\ left' \in Lefts /\ left'.blocks = b
          /\ \/ left'.entries = e - 1 /\ left'.values = v /\ left'.insts = i
             \/ left'.entries = e /\ left'.values = v - 1 /\ left'.insts = i /\ v > 0
             \/ left'.entries = e /\ left'.values = v /\ left'.insts = i - 1 /\ i > 0
      <3>1. CASE list = "entries"
        BY <1>1, <1>4, <2>1, <3>1 DEF Lefts
      <3>2. CASE list = "values"
        BY <1>1, <1>4, <2>1, <3>2 DEF Lefts
      <3>3. CASE list = "insts"
        BY <1>1, <1>4, <2>1, <3>3 DEF Lefts
      <3> QED BY <3>1, <3>2, <3>3
    <2>4. /\ section < 5 => e <= L /\ v = 0 /\ b = 0 /\ i = 0
          /\ section = 5 => e * 13 <= L /\ v * 4 <= L /\ b * 6 <= L /\ i * 4 <= L
      BY <1>1
    <2>5. L = Len(bytes)
      OBVIOUS
    <2> HIDE DEF e, v, b, i, L
    <2>6. /\ section < 5 => left'.entries <= L /\ left'.values = 0 /\ left'.blocks = 0 /\ left'.insts = 0
          /\ section = 5 => /\ left'.entries * 13 <= L /\ left'.values * 4 <= L
                            /\ left'.blocks * 6 <= L /\ left'.insts * 4 <= L
      BY <1>0, <2>2, <2>3, <2>4
    <2> QED BY <1>1, <1>4, <2>3, <2>5, <2>6 DEF Room, L
  <1>5. CASE ReadHeader
    BY <1>2, <1>3, <1>5 DEF ReadHeader
  <1>6. CASE OpenSection
    BY <1>2, <1>3, <1>6 DEF OpenSection
  <1>7. CASE ReadModule
    BY <1>2, <1>3, <1>7 DEF ReadModule
  <1>8. CASE ReadCount
    <2>1. PICK r \in CountEntry : Advance(r, "entries") /\ left' = [left EXCEPT !.entries = r.val]
      BY <1>8 DEF ReadCount
    <2>2. section \in 2..5 /\ section' = section
      BY <1>0, <1>8 DEF ReadCount
    <2> DEFINE n == r.val
    <2>3. n \in Nat /\ n * MinLen(section) <= L
      BY <2>2, CountsFit
    <2> HIDE DEF n
    <2>4. (section = 5 => n * 13 <= L) /\ (section < 5 => n <= L)
      BY <2>2, <2>3, <1>0, MinLens
    <2>5. /\ left' \in Lefts /\ left'.entries = n
          /\ left'.values = left.values /\ left'.blocks = left.blocks /\ left'.insts = left.insts
      BY <1>1, <2>1, <2>3 DEF Lefts, n
    <2>6. L' = L /\ stage' = "entries"
      BY <1>3, <2>1
    <2> HIDE DEF L
    <2> QED BY <1>1, <2>2, <2>4, <2>5, <2>6 DEF Room, L
  <1>9. CASE CloseSection
    <2>1. L' = L /\ left' = left /\ section' = section + 1 /\ stage' = "open" /\ left.entries = 0 /\ section < 5
      BY <1>9 DEF CloseSection, file
    <2> QED BY <1>0, <1>1, <2>1 DEF Room
  <1>10. CASE Finish
    BY <1>1, <1>2, <1>10 DEF Finish, file
  <1>11. CASE ReadSymbol
    <2>1. L' = L /\ section' = section /\ stage' = stage /\ left["entries"] > 0 /\ OneLess("entries")
      BY <1>3, <1>11 DEF ReadSymbol, At
    <2> QED BY <1>4, <2>1
  <1>12. CASE ReadType
    <2>1. L' = L /\ section' = section /\ stage' = stage /\ left["entries"] > 0 /\ OneLess("entries")
      BY <1>3, <1>12 DEF ReadType, At
    <2> QED BY <1>4, <2>1
  <1>13. CASE ReadConstant
    <2>1. L' = L /\ section' = section /\ stage' = stage /\ left["entries"] > 0 /\ OneLess("entries")
      BY <1>3, <1>13 DEF ReadConstant, At
    <2> QED BY <1>4, <2>1
  <1>14. CASE ReadFunction
    <2>1. PICK r \in FunctionEntry : /\ Advance(r, "values")
                                     /\ left' = [left EXCEPT !.entries = @ - 1, !.values = r.val.values]
      BY <1>14 DEF ReadFunction
    <2>2. section = 5 /\ section' = section /\ left.entries > 0
      BY <1>14 DEF ReadFunction
    <2> DEFINE n == r.val.values
    <2>3. n \in Nat /\ n * 4 <= L
      BY CountsFit
    <2> HIDE DEF n
    <2> DEFINE m == left.entries - 1
    <2>a. left' = [left EXCEPT !.entries = m, !.values = n]
      BY <2>1 DEF n
    <2>b. m \in Nat /\ left.entries \in Nat
      BY <1>1, <2>2 DEF Lefts
    <2> HIDE DEF m
    <2>c. /\ left' \in Lefts /\ left'.entries = m
          /\ left'.values = n /\ left'.blocks = left.blocks /\ left'.insts = left.insts
      BY <1>1, <2>a, <2>b, <2>3 DEF Lefts
    <2>4. /\ left' \in Lefts /\ left'.entries = left.entries - 1 /\ left.entries \in Nat
          /\ left'.values = n /\ left'.blocks = left.blocks /\ left'.insts = left.insts
      BY <2>b, <2>c DEF m
    <2>5. L' = L
      BY <1>3, <2>1
    <2> HIDE DEF L
    <2> QED BY <1>0, <1>1, <2>2, <2>3, <2>4, <2>5 DEF Room, L
  <1>15. CASE ReadValue
    <2>1. L' = L /\ section' = section /\ stage' = stage /\ left["values"] > 0 /\ OneLess("values")
      BY <1>3, <1>15 DEF ReadValue, At
    <2> QED BY <1>4, <2>1
  <1>16. CASE ReadBlockCount
    <2>1. PICK r \in Count(pos, MIN_BLOCK_LEN) : Advance(r, "blocks") /\ left' = [left EXCEPT !.blocks = r.val]
      BY <1>16 DEF ReadBlockCount
    <2>2. section' = section /\ stage = "values"
      BY <1>16 DEF ReadBlockCount, At
    <2> DEFINE n == r.val
    <2>3. n \in Nat /\ n * 6 <= L
      BY CountsFit
    <2> HIDE DEF n
    <2>4. /\ left' \in Lefts /\ left'.entries = left.entries
          /\ left'.values = left.values /\ left'.blocks = n /\ left'.insts = left.insts
      BY <1>1, <2>1, <2>3 DEF Lefts, n
    <2>5. L' = L
      BY <1>3, <2>1
    <2> HIDE DEF L
    <2> QED BY <1>0, <1>1, <2>2, <2>3, <2>4, <2>5 DEF Room, L
  <1>17. CASE ReadBlock
    <2>1. PICK r \in BlockEntry : /\ Advance(r, "insts")
                                  /\ left' = [left EXCEPT !.blocks = @ - 1, !.insts = r.val.insts]
      BY <1>17 DEF ReadBlock
    <2>2. section' = section /\ stage = "blocks" /\ left.blocks > 0
      BY <1>17 DEF ReadBlock, At
    <2> DEFINE n == r.val.insts
    <2>3. n \in Nat /\ n * 4 <= L
      BY CountsFit
    <2> HIDE DEF n
    <2> DEFINE m == left.blocks - 1
    <2>a. left' = [left EXCEPT !.blocks = m, !.insts = n]
      BY <2>1 DEF n
    <2>b. m \in Nat /\ left.blocks \in Nat
      BY <1>1, <2>2 DEF Lefts
    <2> HIDE DEF m
    <2>c. /\ left' \in Lefts /\ left'.entries = left.entries
          /\ left'.values = left.values /\ left'.blocks = m /\ left'.insts = n
      BY <1>1, <2>a, <2>b, <2>3 DEF Lefts
    <2>4. /\ left' \in Lefts /\ left'.entries = left.entries /\ left.blocks \in Nat
          /\ left'.values = left.values /\ left'.blocks = left.blocks - 1 /\ left'.insts = n
      BY <2>b, <2>c DEF m
    <2>5. L' = L
      BY <1>3, <2>1
    <2> HIDE DEF L
    <2> QED BY <1>0, <1>1, <2>2, <2>3, <2>4, <2>5 DEF Room, L
  <1>18. CASE ReadInst
    <2>1. L' = L /\ section' = section /\ stage' = stage /\ left["insts"] > 0 /\ OneLess("insts")
      BY <1>3, <1>18 DEF ReadInst, At
    <2> QED BY <1>4, <2>1
  <1>19. CASE ReadTerm
    BY <1>1, <1>2, <1>3, <1>19 DEF ReadTerm, At
  <1>20. CASE EndFunction
    BY <1>2, <1>20 DEF EndFunction, file
  <1>21. CASE Reject
    BY <1>1, <1>2, <1>21 DEF Reject, file
  <1>22. CASE UNCHANGED vars
    BY <1>1, <1>2, <1>22 DEF vars, file
  <1> QED BY <1>5, <1>6, <1>7, <1>8, <1>9, <1>10, <1>11, <1>12, <1>13, <1>14, <1>15, <1>16, <1>17,
             <1>18, <1>19, <1>20, <1>21, <1>22 DEF Next, Returned

LEMMA RoomAlways == Spec => []Room
  <1>1. Cursor /\ Room /\ [Next]_vars => Room'
    BY RoomNext
  <1> QED BY RoomInit, <1>1, CursorAlways, PTL DEF Spec

\* At every depth of nesting together, the reader never sets out to read more entries
\* than the file has bytes: a short file cannot ask for a large table.
THEOREM RoomJustified == Spec => []CapacityJustified
  <1>1. Cursor /\ Room => CapacityJustified
    <2> SUFFICES ASSUME Cursor, Room PROVE CapacityJustified
      OBVIOUS
    <2>1. Len(bytes) \in Nat /\ section \in 1..5
      BY DEF Cursor
    <2>2. left.entries \in Nat /\ left.values \in Nat /\ left.blocks \in Nat /\ left.insts \in Nat
      BY DEF Room, Lefts
    <2> DEFINE e == left.entries
               v == left.values
               b == left.blocks
               i == left.insts
               L == Len(bytes)
    <2>3. \/ e <= L /\ v = 0 /\ b = 0 /\ i = 0
          \/ e * 13 <= L /\ v * 4 <= L /\ b * 6 <= L /\ i * 4 <= L
      BY <2>1 DEF Room
    <2> HIDE DEF e, v, b, i, L
    <2>4. e \in Nat /\ v \in Nat /\ b \in Nat /\ i \in Nat /\ L \in Nat
      BY <2>1, <2>2 DEF e, v, b, i, L
    <2>5. e + v + b + i <= L
      BY <2>3, <2>4
    <2> QED BY <2>5 DEF CapacityJustified, e, v, b, i, L
  <1> QED BY <1>1, CursorAlways, RoomAlways, PTL


-----------------------------------------------------------------------------
(* What each step does to the module that is read                          *)

IsSeq(s) == \E S : s \in Seq(S)
IsRecord(r, names) == DOMAIN r = names /\ r = [x \in names |-> r[x]]
\* t is s with x at the end; t is s with x in the last place.
Grows(s, t, x) ==
    /\ IsSeq(t) /\ t = Append(s, x)
    /\ Len(t) = Len(s) + 1 /\ t[Len(s) + 1] = x /\ \A i \in 1..Len(s) : t[i] = s[i]
Changes(s, t, x) ==
    /\ IsSeq(t) /\ Len(t) = Len(s) /\ t[Len(s)] = x /\ \A i \in 1..Len(s) - 1 : t[i] = s[i]
\* t is r with another value for one name.
But(r, t, name) == IsRecord(t, DOMAIN r) /\ \A x \in DOMAIN r : x # name => t[x] = r[x]

LEMMA SeqAny ==
    \A s : IsSeq(s) => Len(s) \in Nat /\ DOMAIN s = 1..Len(s)
  BY DEF IsSeq
LEMMA AppendAny ==
    ASSUME NEW s, IsSeq(s), NEW x
    PROVE  Grows(s, Append(s, x), x)
  <1>1. PICK S : s \in Seq(S)
    BY DEF IsSeq
  <1>2. s \in Seq(S \cup {x}) /\ x \in S \cup {x}
    BY <1>1
  <1> DEFINE T == S \cup {x}
  <1> HIDE DEF T
  <1>3. /\ Append(s, x) \in Seq(T) /\ Len(Append(s, x)) = Len(s) + 1
        /\ Append(s, x)[Len(s) + 1] = x /\ \A i \in 1..Len(s) : Append(s, x)[i] = s[i]
    <2>1. s \in Seq(T) /\ x \in T
      BY <1>2 DEF T
    <2> QED BY <2>1, AppendProperties
  <1> QED BY <1>3 DEF Grows, IsSeq
LEMMA ChangeAny ==
    ASSUME NEW s, IsSeq(s), Len(s) > 0, NEW x
    PROVE  Changes(s, [s EXCEPT ![Len(s)] = x], x)
  <1>1. PICK S : s \in Seq(S)
    BY DEF IsSeq
  <1> DEFINE n == Len(s)
             t == [s EXCEPT ![n] = x]
             T == S \cup {x}
  <1>2. n \in Nat /\ n \in 1..n /\ DOMAIN s = 1..n /\ \A i \in 1..n : s[i] \in S
    BY <1>1
  <1> HIDE DEF n
  <1>3. t = [i \in 1..n |-> IF i = n THEN x ELSE s[i]]
    BY <1>2
  <1> HIDE DEF t
  <1>4. t \in Seq(T) /\ Len(t) = n
    BY <1>2, <1>3
  <1>5. t[n] = x /\ \A i \in 1..n - 1 : t[i] = s[i]
    BY <1>2, <1>3
  <1> HIDE DEF T
  <1>6. IsSeq(t)
    BY <1>4 DEF IsSeq
  <1> QED BY <1>4, <1>5, <1>6 DEF Changes, n, t
LEMMA NoneSeq == IsSeq(<<>>) /\ Len(<<>>) = 0
  <1>1. <<>> \in Seq({})
    OBVIOUS
  <1> QED BY <1>1 DEF IsSeq

\* Interning a new entry appends it.
LEMMA InternNew ==
    ASSUME NEW table, IsSeq(table), NEW x, \A i \in 1..Len(table) : table[i] # x
    PROVE  Intern(table, x) = Append(table, x)
  <1>1. IdsOf(table, x) = {}
    BY SeqAny DEF IdsOf
  <1> QED BY <1>1 DEF Intern
LEMMA InternedNew ==
    ASSUME NEW table, IsSeq(table), NEW x, InternedAt(table, x)
    PROVE  \A i \in 1..Len(table) : table[i] # x
  <1> SUFFICES ASSUME IdsOf(table, x) # {} PROVE FALSE
    BY SeqAny DEF IdsOf
  <1>1. IdOf(table, x) \in IdsOf(table, x)
    BY DEF IdOf
  <1>2. IdOf(table, x) \in 1..Len(table)
    BY <1>1, SeqAny DEF IdsOf
  <1> QED BY <1>2, SeqAny DEF InternedAt
LEMMA GrowsUnique ==
    ASSUME NEW s, IsSeq(s), NEW x, NEW t, Grows(s, t, x),
           NoDuplicates(s), \A i \in 1..Len(s) : s[i] # x
    PROVE  NoDuplicates(t)
  <1>1. /\ DOMAIN s = 1..Len(s) /\ Len(s) \in Nat /\ DOMAIN t = 1..Len(s) + 1
        /\ t[Len(s) + 1] = x /\ \A i \in 1..Len(s) : t[i] = s[i]
    BY SeqAny DEF Grows
  <1> SUFFICES ASSUME NEW i \in DOMAIN t, NEW j \in DOMAIN t, t[i] = t[j] PROVE i = j
    BY DEF NoDuplicates
  <1>2. \A k \in DOMAIN t : k \in 1..Len(s) \/ k = Len(s) + 1
    BY <1>1
  <1>3. CASE i \in 1..Len(s) /\ j \in 1..Len(s)
    BY <1>1, <1>3 DEF NoDuplicates
  <1> QED BY <1>1, <1>2, <1>3

FunctionNames == {"symbol", "linkage", "abi", "variadic", "result", "params", "values", "blocks"}
BlockNames == {"name", "params", "insts", "term"}
OutNames == {"major", "minor", "name", "symbols", "types", "constants", "functions"}

\* The head of a function and that of a block, when they are read.
LEMMA SignedRecord ==
    ASSUME NEW f, Signed(f)
    PROVE  /\ IsRecord(f, FunctionNames) /\ f.values = <<>> /\ f.blocks = <<>>
           /\ SymLegal(f.symbol) /\ InTable(LinkageTags, f.linkage) /\ AbiLegal(f.abi)
           /\ IsBool(f.variadic) /\ FitsIn(f.result, W32) /\ PairsLegal(f.params)
  <1> DEFINE D == DOMAIN EmptyFunction
             N == Names(ReadsSignature, 6)
             e(x) == IF x \in D THEN EmptyFunction[x] ELSE f[x]
  <1>1. D = {"values", "blocks"} /\ EmptyFunction.values = <<>> /\ EmptyFunction.blocks = <<>>
    BY DEF EmptyFunction
  <1>2. N = {"symbol", "linkage", "abi", "variadic", "result", "params"}
    BY SignatureForm
  <1>3. f = [x \in D \cup N |-> e(x)]
    BY Zenon DEF Signed, Fills
  <1>4. \A i \in 1..6 : Legal(ReadsSignature[i][2], f[ReadsSignature[i][1]])
    BY Zenon DEF Signed, Fills
  <1>5. /\ SymLegal(f.symbol) /\ InTable(LinkageTags, f.linkage) /\ AbiLegal(f.abi)
        /\ IsBool(f.variadic) /\ FitsIn(f.result, W32) /\ PairsLegal(f.params)
    BY <1>4, SignatureForm, Zenon
  <1>6. \A x \in D : e(x) = EmptyFunction[x]
    BY Zenon
  <1> HIDE DEF D, N, e
  <1>7. DOMAIN f = D \cup N /\ \A x \in D \cup N : f[x] = e(x)
    BY <1>3
  <1>8. D \cup N = FunctionNames
    BY <1>1, <1>2 DEF FunctionNames
  <1>9. IsRecord(f, FunctionNames)
    BY <1>3, <1>7, <1>8 DEF IsRecord
  <1>10. f["values"] = EmptyFunction["values"] /\ f["blocks"] = EmptyFunction["blocks"]
    BY <1>1, <1>6, <1>7
  <1> QED BY <1>1, <1>5, <1>9, <1>10

LEMMA BlockedRecord ==
    ASSUME NEW b, Blocked(b)
    PROVE  /\ IsRecord(b, BlockNames) /\ b.insts = <<>>
           /\ OptSymLegal(b.name) /\ PairsLegal(b.params)
  <1> DEFINE D == DOMAIN EmptyBlock
             N == Names(BlockFields, 2)
             e(x) == IF x \in D THEN EmptyBlock[x] ELSE b[x]
  <1>1. D = {"insts", "term"} /\ EmptyBlock.insts = <<>>
    BY DEF EmptyBlock
  <1>2. N = {"name", "params"}
    <2>1. 1..2 = {1, 2} /\ BlockFields[1][1] = "name" /\ BlockFields[2][1] = "params"
      BY DEF BlockFields
    <2> QED BY <2>1 DEF Names
  <1>3. b = [x \in D \cup N |-> e(x)]
    BY Zenon DEF Blocked, Fills
  <1>4. \A i \in 1..2 : Legal(BlockFields[i][2], b[BlockFields[i][1]])
    BY Zenon DEF Blocked, Fills
  <1>5. OptSymLegal(b.name) /\ PairsLegal(b.params)
    BY <1>4, BlockForm, Zenon
  <1>6. \A x \in D : e(x) = EmptyBlock[x]
    BY Zenon
  <1> HIDE DEF D, N, e
  <1>7. DOMAIN b = D \cup N /\ \A x \in D \cup N : b[x] = e(x)
    BY <1>3
  <1>8. D \cup N = BlockNames
    BY <1>1, <1>2 DEF BlockNames
  <1>9. IsRecord(b, BlockNames)
    BY <1>3, <1>7, <1>8 DEF IsRecord
  <1>10. b["insts"] = EmptyBlock["insts"]
    BY <1>1, <1>6, <1>7
  <1> QED BY <1>1, <1>5, <1>9, <1>10


InFunctionStages == {"values", "blocks", "insts"}
BlockShape(b) == IsRecord(b, BlockNames) /\ IsSeq(b.insts)
FunctionShape(f) ==
    /\ IsRecord(f, FunctionNames) /\ IsSeq(f.values) /\ IsSeq(f.blocks)
    /\ \A i \in 1..Len(f.blocks) : BlockShape(f.blocks[i])
Shape ==
    /\ IsRecord(out, OutNames)
    /\ IsSeq(out.symbols) /\ IsSeq(out.types) /\ IsSeq(out.constants) /\ IsSeq(out.functions)
    /\ \A g \in 1..Len(out.functions) : FunctionShape(out.functions[g])
    /\ stage \in InFunctionStages => Len(out.functions) > 0
    /\ stage = "insts" => Len(out.functions[Len(out.functions)].blocks) > 0

\* The function and the block that are read.
Fn == out.functions[Len(out.functions)]
Blk == Fn.blocks[Len(Fn.blocks)]

LEMMA ButIs ==
    ASSUME NEW r, NEW names, IsRecord(r, names), NEW name \in names, NEW v
    PROVE  LET t == [r EXCEPT ![name] = v]
           IN  But(r, t, name) /\ t[name] = v /\ IsRecord(t, names)
  <1> DEFINE t == [r EXCEPT ![name] = v]
  <1>1. DOMAIN r = names /\ r = [x \in names |-> r[x]]
    BY DEF IsRecord
  <1>2. t = [x \in names |-> IF x = name THEN v ELSE r[x]]
    BY <1>1
  <1> HIDE DEF t
  <1>3. DOMAIN t = names /\ t[name] = v /\ \A x \in names : x # name => t[x] = r[x]
    BY <1>2
  <1>4. t = [x \in names |-> t[x]]
    BY <1>2
  <1> QED BY <1>1, <1>3, <1>4, Zenon DEF But, IsRecord, t

\* The steps that read an entry, by what becomes of the module.
ListGrew(name, v) == But(out, out', name) /\ Grows(out[name], out'[name], v)
FnChanged(name) ==
    /\ But(out, out', "functions") /\ Changes(out.functions, out.functions', Fn')
    /\ But(Fn, Fn', name)
BlkChanged(name) ==
    /\ FnChanged("blocks") /\ Changes(Fn.blocks, Fn.blocks', Blk') /\ But(Blk, Blk', name)

LEMMA FnStep ==
    ASSUME Shape, Len(out.functions) > 0, NEW name \in FunctionNames, NEW v,
           out' = [out EXCEPT !.functions = [out.functions EXCEPT ![Len(out.functions)] = [Fn EXCEPT ![name] = v]]]
    PROVE  FnChanged(name) /\ Fn'[name] = v
  <1> DEFINE F == out.functions
             g == Len(F)
             h == [Fn EXCEPT ![name] = v]
             G == [F EXCEPT ![g] = h]
  <1>1. IsSeq(F) /\ g > 0 /\ g \in Nat /\ IsRecord(out, OutNames)
    BY SeqAny DEF Shape
  <1>2. IsRecord(Fn, FunctionNames)
    <2>1. g \in 1..g
      BY <1>1
    <2> QED BY <2>1 DEF Shape, FunctionShape, Fn
  <1>3. But(Fn, h, name) /\ h[name] = v
    BY <1>2, ButIs
  <1>4. out' = [out EXCEPT !["functions"] = G]
    OBVIOUS
  <1> HIDE DEF h
  <1>5. Changes(F, G, h)
    BY <1>1, ChangeAny
  <1>6. F = out["functions"]
    OBVIOUS
  <1> HIDE DEF G, F
  <1>7. But(out, [out EXCEPT !["functions"] = G], "functions") /\ [out EXCEPT !["functions"] = G]["functions"] = G
    <2>1. "functions" \in OutNames
      BY DEF OutNames
    <2> QED BY <1>1, <2>1, ButIs
  <1>8. But(out, out', "functions") /\ out'["functions"] = G
    BY <1>4, <1>7
  <1>9. out.functions' = G
    BY <1>8
  <1>10. Len(G) = g /\ G[g] = h
    BY <1>5 DEF Changes, g
  <1>11. Fn' = h
    BY <1>9, <1>10 DEF Fn
  <1> QED BY <1>3, <1>5, <1>8, <1>9, <1>11 DEF FnChanged, F

LEMMA BlkStep ==
    ASSUME Shape, Len(out.functions) > 0, Len(Fn.blocks) > 0, NEW name \in BlockNames, NEW v,
           out' = [out EXCEPT !.functions =
                     [out.functions EXCEPT ![Len(out.functions)] =
                        [Fn EXCEPT !.blocks = [Fn.blocks EXCEPT ![Len(Fn.blocks)] = [Blk EXCEPT ![name] = v]]]]]
    PROVE  BlkChanged(name) /\ Blk'[name] = v
  <1> DEFINE B == Fn.blocks
             k == Len(B)
             h == [Blk EXCEPT ![name] = v]
             C == [B EXCEPT ![k] = h]
  <1>1. IsSeq(B) /\ IsRecord(Blk, BlockNames)
    <2>1. Len(out.functions) \in 1..Len(out.functions)
      BY SeqAny DEF Shape
    <2>2. FunctionShape(Fn)
      BY <2>1 DEF Shape, Fn
    <2>3. k \in 1..k
      BY <2>2, SeqAny DEF FunctionShape
    <2> QED BY <2>2, <2>3 DEF FunctionShape, BlockShape, Blk
  <1>2. But(Blk, h, name) /\ h[name] = v
    BY <1>1, ButIs
  <1> HIDE DEF h
  <1>3. Changes(B, C, h)
    BY <1>1, ChangeAny
  <1>4. out' = [out EXCEPT !.functions = [out.functions EXCEPT ![Len(out.functions)] = [Fn EXCEPT !["blocks"] = C]]]
    BY DEF h
  <1> HIDE DEF C
  <1>5. "blocks" \in FunctionNames
    BY DEF FunctionNames
  <1>6. FnChanged("blocks") /\ Fn'["blocks"] = C
    BY <1>4, <1>5, FnStep
  <1>7. Fn.blocks' = C
    BY <1>6
  <1>8. Len(C) = k /\ C[k] = h
    BY <1>3 DEF Changes
  <1>9. Blk' = h
    BY <1>7, <1>8 DEF Blk
  <1> QED BY <1>2, <1>3, <1>6, <1>7, <1>9 DEF BlkChanged


LEMMA OutStep ==
    ASSUME Shape, NEW name \in OutNames, NEW v, out' = [out EXCEPT ![name] = v]
    PROVE  But(out, out', name) /\ out'[name] = v
  BY ButIs DEF Shape

\* Lists of the module that grow by one entry.
LEMMA ReadsSymbol ==
    ASSUME Cursor, Shape, ReadSymbol
    PROVE  \E r \in SymbolEntry : Advance(r, "entries") /\ ListGrew("symbols", r.val)
  <1>1. PICK r \in SymbolEntry : /\ Advance(r, "entries")
                                 /\ out' = [out EXCEPT !["symbols"] = Intern(out["symbols"], r.val)]
    BY DEF ReadSymbol
  <1>2. InternedAt(out.symbols, r.val)
    BY CursorFile, SymbolRead, Zenon
  <1>3. IsSeq(out.symbols)
    BY DEF Shape
  <1>4. Intern(out.symbols, r.val) = Append(out.symbols, r.val)
    BY <1>2, <1>3, InternedNew, InternNew
  <1>5. Grows(out["symbols"], Append(out["symbols"], r.val), r.val)
    BY <1>3, AppendAny
  <1>6. "symbols" \in OutNames
    BY DEF OutNames
  <1>7. But(out, out', "symbols") /\ out'["symbols"] = Intern(out["symbols"], r.val)
    BY <1>1, <1>6, OutStep
  <1> QED BY <1>1, <1>4, <1>5, <1>7 DEF ListGrew

LEMMA ReadsConstant ==
    ASSUME Cursor, Shape, ReadConstant
    PROVE  \E r \in ConstantEntry : Advance(r, "entries") /\ ListGrew("constants", r.val)
  <1>1. PICK r \in ConstantEntry : /\ Advance(r, "entries")
                                   /\ out' = [out EXCEPT !["constants"] = Intern(out["constants"], r.val)]
    BY DEF ReadConstant
  <1>2. InternedAt(out.constants, r.val)
    BY CursorFile, ConstantRead, Zenon DEF ConstOk
  <1>3. IsSeq(out.constants)
    BY DEF Shape
  <1>4. Intern(out.constants, r.val) = Append(out.constants, r.val)
    BY <1>2, <1>3, InternedNew, InternNew
  <1>5. Grows(out["constants"], Append(out["constants"], r.val), r.val)
    BY <1>3, AppendAny
  <1>6. "constants" \in OutNames
    BY DEF OutNames
  <1>7. But(out, out', "constants") /\ out'["constants"] = Intern(out["constants"], r.val)
    BY <1>1, <1>6, OutStep
  <1> QED BY <1>1, <1>4, <1>5, <1>7 DEF ListGrew

LEMMA ReadsFunction ==
    ASSUME Shape, ReadFunction
    PROVE  \E r \in FunctionEntry :
             /\ Advance(r, "values") /\ ListGrew("functions", r.val.function)
             /\ left' = [left EXCEPT !.entries = @ - 1, !.values = r.val.values]
  <1>1. PICK r \in FunctionEntry : /\ Advance(r, "values")
                                   /\ left' = [left EXCEPT !.entries = @ - 1, !.values = r.val.values]
                                   /\ out' = [out EXCEPT !["functions"] = Append(out["functions"], r.val.function)]
    BY DEF ReadFunction
  <1>2. IsSeq(out.functions)
    BY DEF Shape
  <1>3. Grows(out["functions"], Append(out["functions"], r.val.function), r.val.function)
    BY <1>2, AppendAny
  <1>4. "functions" \in OutNames
    BY DEF OutNames
  <1>5. But(out, out', "functions") /\ out'["functions"] = Append(out["functions"], r.val.function)
    BY <1>1, <1>4, OutStep
  <1> QED BY <1>1, <1>3, <1>5 DEF ListGrew

\* Lists of the current function and block that grow by one entry.
FnGrew(name, v) == FnChanged(name) /\ Grows(Fn[name], Fn'[name], v)
BlkGrew(name, v) == BlkChanged(name) /\ Grows(Blk[name], Blk'[name], v)

LEMMA FnShape ==
    ASSUME Shape, Len(out.functions) > 0
    PROVE  /\ Len(out.functions) \in Nat /\ FunctionShape(Fn)
           /\ Len(Fn.blocks) > 0 => BlockShape(Blk)
  <1>1. Len(out.functions) \in Nat /\ Len(out.functions) \in 1..Len(out.functions)
    BY SeqAny DEF Shape
  <1>2. FunctionShape(Fn)
    BY <1>1 DEF Shape, Fn
  <1>3. Len(Fn.blocks) > 0 => Len(Fn.blocks) \in 1..Len(Fn.blocks)
    BY <1>2, SeqAny DEF FunctionShape
  <1> QED BY <1>1, <1>2, <1>3 DEF FunctionShape, Blk

LEMMA ReadsValue ==
    ASSUME Shape, ReadValue
    PROVE  \E r \in ValueEntry : Advance(r, "values") /\ FnGrew("values", r.val)
  <1> DEFINE new(r) == [out EXCEPT !.functions =
                           [out.functions EXCEPT ![Len(out.functions)] =
                              [Fn EXCEPT !["values"] = Append(Fn["values"], r.val)]]]
  <1>1. PICK r \in ValueEntry : Advance(r, "values") /\ out' = new(r)
    BY DEF ReadValue, InFunction, Fn
  <1>2. Len(out.functions) > 0
    BY DEF Shape, InFunctionStages, ReadValue, At
  <1>3. "values" \in FunctionNames
    BY DEF FunctionNames
  <1>4. FnChanged("values") /\ Fn'["values"] = Append(Fn["values"], r.val)
    BY <1>1, <1>2, <1>3, FnStep
  <1>5. IsSeq(Fn.values)
    BY <1>2, FnShape DEF FunctionShape
  <1>6. Grows(Fn["values"], Append(Fn["values"], r.val), r.val)
    BY <1>5, AppendAny
  <1> QED BY <1>1, <1>4, <1>6 DEF FnGrew

LEMMA ReadsBlock ==
    ASSUME Shape, ReadBlock
    PROVE  \E r \in BlockEntry :
             /\ Advance(r, "insts") /\ FnGrew("blocks", r.val.block)
             /\ left' = [left EXCEPT !.blocks = @ - 1, !.insts = r.val.insts]
  <1> DEFINE new(r) == [out EXCEPT !.functions =
                           [out.functions EXCEPT ![Len(out.functions)] =
                              [Fn EXCEPT !["blocks"] = Append(Fn["blocks"], r.val.block)]]]
  <1>1. PICK r \in BlockEntry : /\ Advance(r, "insts") /\ out' = new(r)
                                /\ left' = [left EXCEPT !.blocks = @ - 1, !.insts = r.val.insts]
    BY DEF ReadBlock, InFunction, Fn
  <1>2. Len(out.functions) > 0
    BY DEF Shape, InFunctionStages, ReadBlock, At
  <1>3. "blocks" \in FunctionNames
    BY DEF FunctionNames
  <1>4. FnChanged("blocks") /\ Fn'["blocks"] = Append(Fn["blocks"], r.val.block)
    BY <1>1, <1>2, <1>3, FnStep
  <1>5. IsSeq(Fn.blocks)
    BY <1>2, FnShape DEF FunctionShape
  <1>6. Grows(Fn["blocks"], Append(Fn["blocks"], r.val.block), r.val.block)
    BY <1>5, AppendAny
  <1> QED BY <1>1, <1>4, <1>6 DEF FnGrew

LEMMA ReadsAnInst ==
    ASSUME Shape, ReadInst
    PROVE  \E r \in InstEntry : Advance(r, "insts") /\ BlkGrew("insts", r.val)
  <1> DEFINE new(r) == [out EXCEPT !.functions =
                          [out.functions EXCEPT ![Len(out.functions)] =
                            [Fn EXCEPT !.blocks = [Fn.blocks EXCEPT ![Len(Fn.blocks)] =
                               [Blk EXCEPT !["insts"] = Append(Blk["insts"], r.val)]]]]]
  <1>1. PICK r \in InstEntry : Advance(r, "insts") /\ out' = new(r)
    BY DEF ReadInst, InFunction, InBlock, Fn, Blk
  <1>2. Len(out.functions) > 0 /\ Len(Fn.blocks) > 0
    BY DEF Shape, InFunctionStages, ReadInst, At, Fn
  <1>3. "insts" \in BlockNames
    BY DEF BlockNames
  <1>4. BlkChanged("insts") /\ Blk'["insts"] = Append(Blk["insts"], r.val)
    BY <1>1, <1>2, <1>3, BlkStep
  <1>5. IsSeq(Blk.insts)
    BY <1>2, FnShape DEF BlockShape
  <1>6. Grows(Blk["insts"], Append(Blk["insts"], r.val), r.val)
    BY <1>5, AppendAny
  <1> QED BY <1>1, <1>4, <1>6 DEF BlkGrew

LEMMA ReadsATerm ==
    ASSUME Shape, ReadTerm
    PROVE  \E r \in TermEntry : Advance(r, "blocks") /\ BlkChanged("term") /\ Blk.term' = r.val
  <1> DEFINE new(r) == [out EXCEPT !.functions =
                          [out.functions EXCEPT ![Len(out.functions)] =
                            [Fn EXCEPT !.blocks = [Fn.blocks EXCEPT ![Len(Fn.blocks)] =
                               [Blk EXCEPT !["term"] = r.val]]]]]
  <1>1. PICK r \in TermEntry : Advance(r, "blocks") /\ out' = new(r)
    BY DEF ReadTerm, InFunction, InBlock, Fn, Blk
  <1>2. Len(out.functions) > 0 /\ Len(Fn.blocks) > 0
    BY DEF Shape, InFunctionStages, ReadTerm, At, Fn
  <1>3. "term" \in BlockNames
    BY DEF BlockNames
  <1>4. BlkChanged("term") /\ Blk'["term"] = r.val
    BY <1>1, <1>2, <1>3, BlkStep
  <1> QED BY <1>1, <1>4


LEMMA OutRest ==
    ASSUME IsRecord(out, OutNames), NEW name, But(out, out', name)
    PROVE  /\ IsRecord(out', OutNames)
           /\ name # "major" => out.major' = out.major
           /\ name # "minor" => out.minor' = out.minor
           /\ name # "name" => out.name' = out.name
           /\ name # "symbols" => out.symbols' = out.symbols
           /\ name # "types" => out.types' = out.types
           /\ name # "constants" => out.constants' = out.constants
           /\ name # "functions" => out.functions' = out.functions
  <1>1. DOMAIN out = OutNames
    BY DEF IsRecord
  <1>2. IsRecord(out', OutNames) /\ \A x \in OutNames : x # name => out'[x] = out[x]
    BY <1>1 DEF But
  <1>3. /\ "major" \in OutNames /\ "minor" \in OutNames /\ "name" \in OutNames /\ "symbols" \in OutNames
        /\ "types" \in OutNames /\ "constants" \in OutNames /\ "functions" \in OutNames
    BY DEF OutNames
  <1>4. name # "major" => out.major' = out.major
    BY <1>2, <1>3
  <1>5. name # "minor" => out.minor' = out.minor
    BY <1>2, <1>3
  <1>6. name # "name" => out.name' = out.name
    BY <1>2, <1>3
  <1>7. name # "symbols" => out.symbols' = out.symbols
    BY <1>2, <1>3
  <1>8. name # "types" => out.types' = out.types
    BY <1>2, <1>3
  <1>9. name # "constants" => out.constants' = out.constants
    BY <1>2, <1>3
  <1>10. name # "functions" => out.functions' = out.functions
    BY <1>2, <1>3
  <1> QED BY <1>2, <1>4, <1>5, <1>6, <1>7, <1>8, <1>9, <1>10

LEMMA FnRest ==
    ASSUME NEW r, IsRecord(r, FunctionNames), NEW t, NEW name, But(r, t, name)
    PROVE  /\ IsRecord(t, FunctionNames)
           /\ name # "symbol" => t.symbol = r.symbol
           /\ name # "linkage" => t.linkage = r.linkage
           /\ name # "abi" => t.abi = r.abi
           /\ name # "variadic" => t.variadic = r.variadic
           /\ name # "result" => t.result = r.result
           /\ name # "params" => t.params = r.params
           /\ name # "values" => t.values = r.values
           /\ name # "blocks" => t.blocks = r.blocks
  <1>1. DOMAIN r = FunctionNames
    BY DEF IsRecord
  <1>2. IsRecord(t, FunctionNames) /\ \A x \in FunctionNames : x # name => t[x] = r[x]
    BY <1>1 DEF But
  <1>3. /\ "symbol" \in FunctionNames
        /\ "linkage" \in FunctionNames
        /\ "abi" \in FunctionNames
        /\ "variadic" \in FunctionNames
        /\ "result" \in FunctionNames
        /\ "params" \in FunctionNames
        /\ "values" \in FunctionNames
        /\ "blocks" \in FunctionNames
    BY DEF FunctionNames
  <1>4. name # "symbol" => t.symbol = r.symbol
    BY <1>2, <1>3
  <1>5. name # "linkage" => t.linkage = r.linkage
    BY <1>2, <1>3
  <1>6. name # "abi" => t.abi = r.abi
    BY <1>2, <1>3
  <1>7. name # "variadic" => t.variadic = r.variadic
    BY <1>2, <1>3
  <1>8. name # "result" => t.result = r.result
    BY <1>2, <1>3
  <1>9. name # "params" => t.params = r.params
    BY <1>2, <1>3
  <1>10. name # "values" => t.values = r.values
    BY <1>2, <1>3
  <1>11. name # "blocks" => t.blocks = r.blocks
    BY <1>2, <1>3
  <1> QED BY <1>2, <1>4, <1>5, <1>6, <1>7, <1>8, <1>9, <1>10, <1>11

LEMMA BlkRest ==
    ASSUME NEW r, IsRecord(r, BlockNames), NEW t, NEW name, But(r, t, name)
    PROVE  /\ IsRecord(t, BlockNames)
           /\ name # "name" => t.name = r.name
           /\ name # "params" => t.params = r.params
           /\ name # "insts" => t.insts = r.insts
           /\ name # "term" => t.term = r.term
  <1>1. DOMAIN r = BlockNames
    BY DEF IsRecord
  <1>2. IsRecord(t, BlockNames) /\ \A x \in BlockNames : x # name => t[x] = r[x]
    BY <1>1 DEF But
  <1>3. /\ "name" \in BlockNames
        /\ "params" \in BlockNames
        /\ "insts" \in BlockNames
        /\ "term" \in BlockNames
    BY DEF BlockNames
  <1>4. name # "name" => t.name = r.name
    BY <1>2, <1>3
  <1>5. name # "params" => t.params = r.params
    BY <1>2, <1>3
  <1>6. name # "insts" => t.insts = r.insts
    BY <1>2, <1>3
  <1>7. name # "term" => t.term = r.term
    BY <1>2, <1>3
  <1> QED BY <1>2, <1>4, <1>5, <1>6, <1>7

\* The shape of the functions after a change of the last one.
LEMMA FnShapes ==
    ASSUME Shape, Len(out.functions) > 0, Changes(out.functions, out.functions', Fn'), FunctionShape(Fn')
    PROVE  /\ IsSeq(out.functions') /\ Len(out.functions') = Len(out.functions)
           /\ \A g \in 1..Len(out.functions') : FunctionShape(out.functions'[g])
  <1> DEFINE F == out.functions
             G == out.functions'
             n == Len(F)
  <1>1. IsSeq(G) /\ Len(G) = n /\ G[n] = Fn' /\ \A g \in 1..n - 1 : G[g] = F[g]
    BY DEF Changes
  <1>2. n \in Nat /\ \A g \in 1..n : FunctionShape(F[g])
    BY SeqAny DEF Shape
  <1> DEFINE h == Fn'
  <1>3. FunctionShape(h)
    OBVIOUS
  <1> HIDE DEF F, G, n, h
  <1>4. \A g \in 1..n : FunctionShape(G[g])
    <2> SUFFICES ASSUME NEW g \in 1..n PROVE FunctionShape(G[g])
      OBVIOUS
    <2>1. g = n \/ g \in 1..n - 1
      BY <1>2
    <2>2. n - 1 \in Nat /\ \A i \in 1..n - 1 : i \in 1..n
      BY <1>2
    <2> QED BY <1>1, <1>2, <1>3, <2>1, <2>2, Zenon DEF h
  <1> QED BY <1>1, <1>4 DEF F, G, n

LEMMA FnKeepsShape ==
    ASSUME Shape, Len(out.functions) > 0, NEW name, FnChanged(name), FunctionShape(Fn'),
           stage' \in InFunctionStages, stage' = "insts" => Len(Fn'.blocks) > 0
    PROVE  Shape'
  <1>1. /\ IsSeq(out.functions') /\ Len(out.functions') = Len(out.functions)
        /\ \A g \in 1..Len(out.functions') : FunctionShape(out.functions'[g])
    BY FnShapes DEF FnChanged
  <1>2. IsRecord(out', OutNames) /\ out.symbols' = out.symbols /\ out.types' = out.types /\ out.constants' = out.constants
    BY OutRest DEF Shape, FnChanged
  <1>3. Len(out.functions') > 0
    BY <1>1
  <1>4. stage' = "insts" => Len(out.functions'[Len(out.functions')].blocks) > 0
    BY DEF Fn
  <1>5. /\ IsSeq(out'.symbols) /\ IsSeq(out'.types) /\ IsSeq(out'.constants) /\ IsSeq(out'.functions)
    BY <1>1, <1>2 DEF Shape
  <1> QED BY <1>1, <1>2, <1>3, <1>4, <1>5, Zenon DEF Shape

LEMMA BlkKeepsShape ==
    ASSUME Shape, Len(out.functions) > 0, Len(Fn.blocks) > 0, NEW name, BlkChanged(name), BlockShape(Blk')
    PROVE  FunctionShape(Fn') /\ Len(Fn'.blocks) = Len(Fn.blocks)
  <1> DEFINE f == Fn
             t == Fn'
             B == f.blocks
             C == t.blocks
             n == Len(B)
             h == Blk'
  <1>1. /\ IsRecord(f, FunctionNames) /\ IsSeq(f.values) /\ IsSeq(B)
        /\ \A i \in 1..n : BlockShape(B[i])
    BY FnShape DEF FunctionShape
  <1>2. But(f, t, "blocks") /\ Changes(B, C, h) /\ BlockShape(h)
    BY DEF BlkChanged, FnChanged
  <1> HIDE DEF f, t, B, h
  <1>3. IsRecord(t, FunctionNames) /\ t.values = f.values
    BY <1>1, <1>2, FnRest
  <1> HIDE DEF C, n
  <1>4. IsSeq(C) /\ Len(C) = n /\ C[n] = h /\ \A i \in 1..n - 1 : C[i] = B[i]
    BY <1>2 DEF Changes, n
  <1>5. n \in Nat
    BY <1>1, SeqAny DEF n
  <1>6. \A i \in 1..n : BlockShape(C[i])
    <2> SUFFICES ASSUME NEW i \in 1..n PROVE BlockShape(C[i])
      OBVIOUS
    <2>1. i = n \/ i \in 1..n - 1
      BY <1>5
    <2> QED BY <1>1, <1>2, <1>4, <2>1, Zenon
  <1>7. FunctionShape(t)
    BY <1>1, <1>3, <1>4, <1>6 DEF FunctionShape, C
  <1> QED BY <1>4, <1>7 DEF t, f, B, C, n


\* A new list of entries keeps the shape.
LEMMA ListKeepsShape ==
    ASSUME Shape, NEW name \in {"symbols", "types", "constants"}, But(out, out', name),
           IsSeq(out'[name]), stage' = "entries"
    PROVE  Shape'
  <1>1. /\ IsRecord(out', OutNames) /\ out.functions' = out.functions
        /\ name # "symbols" => out.symbols' = out.symbols
        /\ name # "types" => out.types' = out.types
        /\ name # "constants" => out.constants' = out.constants
    BY OutRest DEF Shape
  <1>2. IsSeq(out'.symbols) /\ IsSeq(out'.types) /\ IsSeq(out'.constants)
    <2>1. CASE name = "symbols"
      BY <1>1, <2>1 DEF Shape
    <2>2. CASE name = "types"
      BY <1>1, <2>2 DEF Shape
    <2>3. CASE name = "constants"
      BY <1>1, <2>3 DEF Shape
    <2> QED BY <2>1, <2>2, <2>3
  <1>3. stage' \notin InFunctionStages /\ stage' # "insts"
    BY DEF InFunctionStages
  <1> QED BY <1>1, <1>2, <1>3 DEF Shape

LEMMA ShapeInit == Init => Shape
  <1> SUFFICES ASSUME Init PROVE Shape
    OBVIOUS
  <1>1. /\ out = [major |-> 0, minor |-> 0, name |-> None, symbols |-> <<>>, types |-> <<>>,
                  constants |-> <<>>, functions |-> <<>>]
        /\ stage = "header"
    BY DEF Init
  <1>2. IsRecord(out, OutNames)
    BY <1>1 DEF IsRecord, OutNames
  <1>3. out.symbols = <<>> /\ out.types = <<>> /\ out.constants = <<>> /\ out.functions = <<>>
    BY <1>1
  <1> QED BY <1>1, <1>2, <1>3, NoneSeq DEF Shape, InFunctionStages

LEMMA ShapeNext == Cursor /\ Shape /\ [Next]_vars => Shape'
  <1> SUFFICES ASSUME Cursor, Shape, [Next]_vars PROVE Shape'
    OBVIOUS
  <1>1. ASSUME out' = out, stage' \notin InFunctionStages PROVE Shape'
    BY <1>1 DEF Shape, InFunctionStages
  <1>2. ASSUME out' = out, stage' = stage PROVE Shape'
    BY <1>2 DEF Shape
  <1>3. \A r, s : Advance(r, s) => stage' = s
    BY DEF Advance
  <1>4. {"header", "open", "start", "entries"} \cap InFunctionStages = {} /\ InFunctionStages = {"values", "blocks", "insts"}
    BY DEF InFunctionStages
  <1>5. CASE ReadHeader
    BY <1>1, <1>3, <1>4, <1>5 DEF ReadHeader
  <1>6. CASE OpenSection
    BY <1>1, <1>3, <1>4, <1>6 DEF OpenSection
  <1>7. CASE ReadModule
    <2>1. PICK r \in ModuleEntry :
             /\ Advance(r, "entries")
             /\ out' = [out EXCEPT !.major = r.val.major, !.minor = r.val.minor, !.name = r.val.name]
      BY <1>7 DEF ReadModule
    <2>2. stage' = "entries" /\ DOMAIN out = OutNames
      BY <1>3, <2>1 DEF Shape, IsRecord
    <2>3. /\ IsRecord(out', OutNames) /\ out'.symbols = out.symbols /\ out'.types = out.types
          /\ out'.constants = out.constants /\ out'.functions = out.functions
      <3>1. "symbols" \in OutNames /\ "types" \in OutNames /\ "constants" \in OutNames /\ "functions" \in OutNames
        BY DEF OutNames
      <3>2. DOMAIN out' = OutNames /\ out' = [x \in OutNames |-> out'[x]]
        BY <2>1, <2>2
      <3> QED BY <2>1, <2>2, <3>1, <3>2 DEF IsRecord
    <2> QED BY <1>4, <2>2, <2>3 DEF Shape
  <1>8. CASE ReadCount
    BY <1>1, <1>3, <1>4, <1>8 DEF ReadCount
  <1>9. CASE CloseSection
    BY <1>1, <1>4, <1>9 DEF CloseSection
  <1>10. CASE Finish
    BY <1>2, <1>10 DEF Finish
  <1>11. CASE ReadSymbol
    <2>1. PICK r \in SymbolEntry : Advance(r, "entries") /\ ListGrew("symbols", r.val)
      BY <1>11, ReadsSymbol
    <2>2. stage' = "entries"
      BY <1>3, <2>1
    <2> QED BY <2>1, <2>2, ListKeepsShape DEF ListGrew, Grows
  <1>12. CASE ReadType
    <2>1. PICK r \in TypeEntry : /\ Advance(r, "entries")
                                 /\ out' = [out EXCEPT !["types"] = Intern(out["types"], r.val)]
      BY <1>12 DEF ReadType
    <2>2. "types" \in OutNames /\ stage' = "entries"
      BY <1>3, <2>1 DEF OutNames
    <2>3. But(out, out', "types") /\ out'["types"] = Intern(out["types"], r.val)
      BY <2>1, <2>2, OutStep
    <2>4. IsSeq(out["types"])
      BY DEF Shape
    <2>5. IsSeq(Intern(out["types"], r.val))
      BY <2>4, AppendAny DEF Intern, Grows
    <2> QED BY <2>2, <2>3, <2>5, ListKeepsShape
  <1>13. CASE ReadConstant
    <2>1. PICK r \in ConstantEntry : Advance(r, "entries") /\ ListGrew("constants", r.val)
      BY <1>13, ReadsConstant
    <2>2. stage' = "entries"
      BY <1>3, <2>1
    <2> QED BY <2>1, <2>2, ListKeepsShape DEF ListGrew, Grows
  <1>14. CASE ReadFunction
    <2>1. PICK r \in FunctionEntry : Advance(r, "values") /\ ListGrew("functions", r.val.function)
      BY <1>14, ReadsFunction
    <2> DEFINE f == r.val.function
               F == out.functions
               G == out.functions'
    <2>2. IsRecord(out', OutNames) /\ out.symbols' = out.symbols /\ out.types' = out.types /\ out.constants' = out.constants
      BY <2>1, OutRest DEF Shape, ListGrew
    <2>3. Grows(F, G, f)
      BY <2>1 DEF ListGrew
    <2>4. Signed(f)
      <3>1. PICK h, n : IsHead(r, h, n)
        BY CursorFile, FunctionRead
      <3> DEFINE V == [function |-> h, values |-> n]
      <3>2. Signed(h) /\ r = Res(V, r.pos) /\ V.function = h
        BY <3>1 DEF IsHead
      <3>3. Signed(V.function)
        BY <3>2
      <3> HIDE DEF V
      <3> QED BY <3>2, <3>3 DEF Res
    <2>5. FunctionShape(f)
      <3> HIDE DEF f
      <3>1. IsRecord(f, FunctionNames) /\ f.values = <<>> /\ f.blocks = <<>>
        BY <2>4, SignedRecord
      <3> QED BY <3>1, NoneSeq DEF FunctionShape
    <2> HIDE DEF f, F
    <2>6. \A g \in 1..Len(F) : FunctionShape(F[g])
      BY DEF Shape, F
    <2>7. Len(F) \in Nat
      BY SeqAny DEF Shape, F
    <2> HIDE DEF G
    <2>8. IsSeq(G) /\ Len(G) = Len(F) + 1 /\ G[Len(F) + 1] = f /\ \A g \in 1..Len(F) : G[g] = F[g]
      BY <2>3 DEF Grows
    <2>9. \A g \in 1..Len(G) : FunctionShape(G[g])
      <3> SUFFICES ASSUME NEW g \in 1..Len(G) PROVE FunctionShape(G[g])
        OBVIOUS
      <3>1. g \in 1..Len(F) \/ g = Len(F) + 1
        BY <2>7, <2>8
      <3> QED BY <2>5, <2>6, <2>8, <3>1, Zenon
    <2>10. IsSeq(out'.functions) /\ Len(out'.functions) > 0 /\ \A g \in 1..Len(out'.functions) : FunctionShape(out'.functions[g])
      BY <2>7, <2>8, <2>9 DEF G
    <2>11. stage' = "values"
      BY <1>3, <2>1
    <2>12. IsSeq(out'.symbols) /\ IsSeq(out'.types) /\ IsSeq(out'.constants)
      BY <2>2 DEF Shape
    <2> QED BY <2>2, <2>10, <2>11, <2>12 DEF Shape
  <1>15. CASE ReadValue
    <2>1. PICK r \in ValueEntry : Advance(r, "values") /\ FnGrew("values", r.val)
      BY <1>15, ReadsValue
    <2>2. Len(out.functions) > 0 /\ stage' = "values"
      BY <1>3, <1>15, <2>1 DEF Shape, InFunctionStages, ReadValue, At
    <2>3. FunctionShape(Fn)
      BY <2>2, FnShape
    <2> DEFINE f == Fn
               t == Fn'
    <2>4. But(f, t, "values") /\ IsSeq(t.values) /\ FunctionShape(f)
      BY <2>1, <2>3 DEF FnGrew, FnChanged, Grows
    <2> HIDE DEF f, t
    <2>5. IsRecord(t, FunctionNames) /\ t.blocks = f.blocks
      BY <2>4, FnRest DEF FunctionShape
    <2>6. FunctionShape(t)
      BY <2>4, <2>5 DEF FunctionShape
    <2>7. FunctionShape(Fn') /\ FnChanged("values")
      BY <2>1, <2>6 DEF t, FnGrew
    <2> QED BY <1>4, <2>2, <2>7, FnKeepsShape
  <1>16. CASE ReadBlockCount
    <2>1. stage' = "blocks" /\ out' = out /\ stage = "values"
      BY <1>3, <1>16 DEF ReadBlockCount, At
    <2> QED BY <2>1 DEF Shape, InFunctionStages
  <1>17. CASE ReadBlock
    <2>1. PICK r \in BlockEntry : Advance(r, "insts") /\ FnGrew("blocks", r.val.block)
      BY <1>17, ReadsBlock
    <2>2. Len(out.functions) > 0 /\ stage' = "insts"
      BY <1>3, <1>17, <2>1 DEF Shape, InFunctionStages, ReadBlock, At
    <2>3. FunctionShape(Fn)
      BY <2>2, FnShape
    <2> DEFINE f == Fn
               t == Fn'
               b == r.val.block
    <2>4. But(f, t, "blocks") /\ Grows(f.blocks, t.blocks, b) /\ FunctionShape(f)
      BY <2>1, <2>3 DEF FnGrew, FnChanged
    <2>5. BlockShape(b)
      <3>1. PICK h, n : IsBlock(r, h, n)
        BY CursorFile, BlockRead
      <3> DEFINE V == [block |-> h, insts |-> n]
      <3>2. Blocked(h) /\ r = Res(V, r.pos) /\ V.block = h
        BY <3>1 DEF IsBlock
      <3>4. Blocked(V.block)
        BY <3>2
      <3> HIDE DEF V
      <3>3. Blocked(b)
        BY <3>2, <3>4 DEF Res
      <3> HIDE DEF b
      <3> QED BY <3>3, BlockedRecord, NoneSeq DEF BlockShape
    <2> HIDE DEF f, t, b
    <2>6. IsRecord(t, FunctionNames) /\ t.values = f.values
      BY <2>4, FnRest DEF FunctionShape
    <2> DEFINE B == f.blocks
               C == t.blocks
    <2>7. IsSeq(B) /\ IsSeq(f.values) /\ (\A i \in 1..Len(B) : BlockShape(B[i])) /\ Grows(B, C, b)
      BY <2>4 DEF FunctionShape
    <2> HIDE DEF B, C
    <2>8. /\ Len(B) \in Nat /\ IsSeq(C) /\ Len(C) = Len(B) + 1 /\ C[Len(B) + 1] = b
          /\ \A i \in 1..Len(B) : C[i] = B[i]
      BY <2>7, SeqAny DEF Grows
    <2>9. \A i \in 1..Len(C) : BlockShape(C[i])
      <3> SUFFICES ASSUME NEW i \in 1..Len(C) PROVE BlockShape(C[i])
        OBVIOUS
      <3>1. i \in 1..Len(B) \/ i = Len(B) + 1
        BY <2>8
      <3> QED BY <2>5, <2>7, <2>8, <3>1, Zenon
    <2>10. FunctionShape(t) /\ Len(t.blocks) > 0
      BY <2>6, <2>7, <2>8, <2>9 DEF FunctionShape, C
    <2>11. FunctionShape(Fn') /\ FnChanged("blocks") /\ Len(Fn'.blocks) > 0
      BY <2>1, <2>10 DEF t, FnGrew
    <2> QED BY <1>4, <2>2, <2>11, FnKeepsShape
  <1>18. CASE ReadInst
    <2>1. PICK r \in InstEntry : Advance(r, "insts") /\ BlkGrew("insts", r.val)
      BY <1>18, ReadsAnInst
    <2>2. Len(out.functions) > 0 /\ Len(Fn.blocks) > 0 /\ stage' = "insts"
      BY <1>3, <1>18, <2>1 DEF Shape, InFunctionStages, ReadInst, At, Fn
    <2>3. BlkChanged("insts") /\ IsSeq(Blk'.insts) /\ But(Blk, Blk', "insts")
      BY <2>1 DEF BlkGrew, BlkChanged, Grows
    <2>4. BlockShape(Blk')
      BY <2>2, <2>3, FnShape, BlkRest DEF BlockShape
    <2>5. FunctionShape(Fn') /\ Len(Fn'.blocks) > 0 /\ FnChanged("blocks")
      BY <2>2, <2>3, <2>4, BlkKeepsShape DEF BlkChanged
    <2> QED BY <1>4, <2>2, <2>5, FnKeepsShape
  <1>19. CASE ReadTerm
    <2>1. PICK r \in TermEntry : Advance(r, "blocks") /\ BlkChanged("term")
      BY <1>19, ReadsATerm
    <2>2. Len(out.functions) > 0 /\ Len(Fn.blocks) > 0 /\ stage' = "blocks"
      BY <1>3, <1>19, <2>1 DEF Shape, InFunctionStages, ReadTerm, At, Fn
    <2>3. BlkChanged("term") /\ But(Blk, Blk', "term")
      BY <2>1 DEF BlkChanged
    <2>4. BlockShape(Blk')
      BY <2>2, <2>3, FnShape, BlkRest DEF BlockShape
    <2>5. FunctionShape(Fn') /\ Len(Fn'.blocks) > 0 /\ FnChanged("blocks")
      BY <2>2, <2>3, <2>4, BlkKeepsShape DEF BlkChanged
    <2> QED BY <1>4, <2>2, <2>5, FnKeepsShape
  <1>20. CASE EndFunction
    BY <1>1, <1>4, <1>20 DEF EndFunction
  <1>21. CASE Reject
    BY <1>2, <1>21 DEF Reject
  <1>22. CASE UNCHANGED vars
    BY <1>2, <1>22 DEF vars
  <1> QED BY <1>5, <1>6, <1>7, <1>8, <1>9, <1>10, <1>11, <1>12, <1>13, <1>14, <1>15, <1>16, <1>17,
             <1>18, <1>19, <1>20, <1>21, <1>22 DEF Next, Returned

LEMMA ShapeAlways == Spec => []Shape
  <1>1. Cursor /\ Shape /\ [Next]_vars => Shape'
    BY ShapeNext
  <1> QED BY ShapeInit, <1>1, CursorAlways, PTL DEF Spec

-----------------------------------------------------------------------------
(* The tables that are accepted                                            *)

LEMMA ScalarsApart ==
    /\ Len(Scalars) = 14 /\ Scalars = [i \in 1..14 |-> Scalars[i]]
    /\ \A i, j \in 1..14 : Scalars[i] = Scalars[j] => i = j
  <1>1. Len(Scalars) = 14 /\ Scalars = [i \in 1..14 |-> Scalars[i]]
    BY DEF Scalars
  <1>2. /\ Scalars[1] = VoidData /\ Scalars[2] = IntData(1, FALSE)
        /\ Scalars[3] = IntData(8, TRUE) /\ Scalars[4] = IntData(16, TRUE)
        /\ Scalars[5] = IntData(32, TRUE) /\ Scalars[6] = IntData(64, TRUE)
        /\ Scalars[7] = IntData(128, TRUE)
        /\ Scalars[8] = IntData(8, FALSE) /\ Scalars[9] = IntData(16, FALSE)
        /\ Scalars[10] = IntData(32, FALSE) /\ Scalars[11] = IntData(64, FALSE)
        /\ Scalars[12] = IntData(128, FALSE)
        /\ Scalars[13] = FloatData(32) /\ Scalars[14] = FloatData(64)
    BY DEF Scalars
  <1>3. \A t \in 1..14 : t \in {1, 2, 3, 4, 5, 6, 7, 8, 9, 10, 11, 12, 13, 14}
    OBVIOUS
  <1>4. ASSUME NEW i \in 1..14, NEW j \in 1..14, Scalars[i] = Scalars[j] PROVE i = j
    <2>1. Scalars[i].tag = Scalars[j].tag
      BY <1>4
    <2>2. CASE Scalars[i].tag = "Int"
      <3>1. i \in 2..12 /\ j \in 2..12 /\ Scalars[i].bits = Scalars[j].bits /\ Scalars[i].signed = Scalars[j].signed
        BY <1>2, <1>3, <1>4, <2>1, <2>2 DEF VoidData, FloatData
      <3> QED BY <1>2, <1>3, <3>1 DEF IntData
    <2>3. CASE Scalars[i].tag # "Int"
      <3>1. i \in {1, 13, 14} /\ j \in {1, 13, 14}
        BY <1>2, <1>3, <1>4, <2>1, <2>3 DEF IntData
      <3>2. Scalars[i].tag = Scalars[j].tag /\ (Scalars[i].tag = "Float" => Scalars[i].bits = Scalars[j].bits)
        BY <1>4
      <3> QED BY <1>2, <3>1, <3>2 DEF VoidData, FloatData
    <2> QED BY <2>2, <2>3
  <1> QED BY <1>1, <1>4

LEMMA ScalarsPrefix ==
    ASSUME NEW l, IsSeq(l)
    PROVE  IsPrefix(Scalars, l) <=> Len(l) >= 14 /\ \A i \in 1..14 : l[i] = Scalars[i]
  <1>1. Len(l) \in Nat /\ Len(Scalars) = 14
    BY SeqAny, ScalarsApart
  <1>2. ASSUME NEW s, IsSeq(s), Len(s) >= 14 PROVE SubSeq(s, 1, 14) = [i \in 1..14 |-> s[i]]
    <2>1. PICK S : s \in Seq(S)
      BY <1>2 DEF IsSeq
    <2> DEFINE c == SubSeq(s, 1, 14)
    <2>2. c \in Seq(S) /\ Len(c) = 14 /\ \A i \in 1..14 : c[i] = s[i]
      BY <1>2, <2>1, SubSeqProperties
    <2> HIDE DEF c
    <2>3. c = [i \in 1..14 |-> s[i]]
      BY <2>2
    <2> QED BY <2>3 DEF c
  <1> DEFINE C == Scalars
  <1>3. IsSeq(C)
    <2>1. C \in Seq({C[i] : i \in 1..14})
      <3>1. C = [i \in 1..14 |-> C[i]]
        BY ScalarsApart
      <3> HIDE DEF C
      <3> DEFINE V == {C[i] : i \in 1..14}
      <3>2. \A i \in 1..14 : C[i] \in V
        OBVIOUS
      <3> HIDE DEF V
      <3>3. C \in [1..14 -> V]
        BY <3>1, <3>2
      <3> DEFINE n == 14
      <3>4. n \in Nat /\ C \in [1..n -> V]
        BY <3>3
      <3> HIDE DEF n
      <3>5. C \in Seq(V)
        BY <3>4, SeqDef
      <3> QED BY <3>5 DEF V
    <2> HIDE DEF C
    <2> QED BY <2>1 DEF IsSeq
  <1> HIDE DEF C
  <1>4. SubSeq(C, 1, 14) = [i \in 1..14 |-> C[i]]
    BY <1>1, <1>2, <1>3 DEF C
  <1>5. ASSUME Len(l) >= 14
        PROVE  SubSeq(C, 1, 14) = SubSeq(l, 1, 14) <=> \A i \in 1..14 : l[i] = C[i]
    <2>1. SubSeq(l, 1, 14) = [i \in 1..14 |-> l[i]]
      BY <1>2, <1>5
    <2> QED BY <1>4, <2>1
  <1>6. IsPrefix(C, l) <=> 14 <= Len(l) /\ SubSeq(C, 1, 14) = SubSeq(l, 1, 14)
    BY <1>1 DEF IsPrefix, C
  <1> QED BY <1>1, <1>5, <1>6 DEF C

\* The types start with the scalars, and each refers to earlier ones only.
ScalarsFirst == \A i \in 1..Len(out.types) : i <= 14 => out.types[i] = Scalars[i]
TypesOrdered == \A t \in 1..Len(out.types) : References(out.types[t]) \subseteq 0..t - 2
ConstantsMasked == \A c \in 1..Len(out.constants) : out.constants[c].tag = "Int" => Masked(out.constants[c])
Tables ==
    /\ NoDuplicates(out.symbols) /\ NoDuplicates(out.types) /\ NoDuplicates(out.constants)
    /\ ScalarsFirst /\ TypesOrdered /\ ConstantsMasked

\* A type that is read is appended: a scalar differs from those before it, any other
\* type is refused when it is there already.
LEMMA ReadsAType ==
    ASSUME Cursor, Shape, ScalarsFirst, ReadType
    PROVE  \E r \in TypeEntry : /\ Advance(r, "entries") /\ ListGrew("types", r.val)
                                /\ TypeOk(r.val, Len(out.types))
                                /\ \A i \in 1..Len(out.types) : out.types[i] # r.val
                                /\ Len(out.types) < 14 => r.val = Scalars[Len(out.types) + 1]
  <1>1. PICK r \in TypeEntry : /\ Advance(r, "entries")
                               /\ out' = [out EXCEPT !["types"] = Intern(out["types"], r.val)]
    BY DEF ReadType
  <1> DEFINE T == out.types
             d == r.val
             n == Len(T)
  <1>2. TypeOk(d, n)
    BY CursorFile, TypeRead
  <1>3. IsSeq(T) /\ n \in Nat
    BY SeqAny DEF Shape
  <1>4. n < 14 => d = Scalars[n + 1]
    BY <1>2, ScalarsApart DEF TypeOk, SCALAR_TYPES
  <1>5. n >= 14 => InternedAt(T, d)
    BY <1>2, <1>3, ScalarsApart DEF TypeOk, SCALAR_TYPES
  <1>6. \A i \in 1..n : i <= 14 => T[i] = Scalars[i]
    BY DEF ScalarsFirst
  <1>7. "types" \in OutNames /\ out["types"] = out.types
    BY DEF OutNames
  <1>8. But(out, out', "types") /\ out'["types"] = Intern(T, d)
    BY <1>1, <1>7, OutStep
  <1> HIDE DEF T, d, n
  <1>9. \A i \in 1..n : T[i] # d
    <2>1. CASE n < 14
      <3>1. n + 1 \in 1..14 /\ \A i \in 1..n : i \in 1..14 /\ i # n + 1
        BY <1>3, <2>1
      <3> SUFFICES ASSUME NEW i \in 1..n, T[i] = d PROVE FALSE
        OBVIOUS
      <3>2. i \in 1..14 /\ i # n + 1 /\ T[i] = Scalars[i] /\ d = Scalars[n + 1]
        BY <1>4, <1>6, <2>1, <3>1
      <3> QED BY <3>1, <3>2, ScalarsApart
    <2>2. CASE n >= 14
      <3>1. n = Len(T)
        BY DEF n
      <3> QED BY <1>3, <1>5, <2>2, <3>1, InternedNew
    <2> QED BY <1>3, <2>1, <2>2
  <1>10. Intern(T, d) = Append(T, d)
    <2>1. n = Len(T)
      BY DEF n
    <2> QED BY <1>3, <1>9, <2>1, InternNew
  <1>11. Grows(T, out'["types"], d)
    BY <1>3, <1>8, <1>10, AppendAny
  <1>12. ListGrew("types", r.val)
    BY <1>8, <1>11 DEF ListGrew, T, d
  <1> QED BY <1>1, <1>2, <1>4, <1>9, <1>12 DEF T, d, n

\* What the steps that read no entry of these tables do to them.
SameTables == out.symbols' = out.symbols /\ out.types' = out.types /\ out.constants' = out.constants
LEMMA TablesSame ==
    ASSUME Cursor, Shape, [Next]_vars, ~ReadSymbol, ~ReadType, ~ReadConstant
    PROVE  SameTables
  <1>1. ASSUME out' = out PROVE SameTables
    BY <1>1 DEF SameTables
  <1>2. ASSUME But(out, out', "functions") PROVE SameTables
    <2>1. IsRecord(out, OutNames)
      BY DEF Shape
    <2> QED BY <1>2, <2>1, OutRest DEF SameTables
  <1>3. CASE ReadModule
    <2>1. PICK r \in ModuleEntry :
             out' = [out EXCEPT !.major = r.val.major, !.minor = r.val.minor, !.name = r.val.name]
      BY <1>3 DEF ReadModule
    <2> QED BY <2>1 DEF SameTables
  <1>4. CASE ReadFunction
    BY <1>2, <1>4, ReadsFunction DEF ListGrew
  <1>5. CASE ReadValue
    BY <1>2, <1>5, ReadsValue DEF FnGrew, FnChanged
  <1>6. CASE ReadBlock
    BY <1>2, <1>6, ReadsBlock DEF FnGrew, FnChanged
  <1>7. CASE ReadInst
    BY <1>2, <1>7, ReadsAnInst DEF BlkGrew, BlkChanged, FnChanged
  <1>8. CASE ReadTerm
    BY <1>2, <1>8, ReadsATerm DEF BlkChanged, FnChanged
  <1>9. ReadHeader \/ OpenSection \/ ReadCount \/ CloseSection \/ Finish \/ ReadBlockCount
        \/ EndFunction \/ Reject \/ Returned \/ UNCHANGED vars => out' = out
    BY DEF ReadHeader, OpenSection, ReadCount, CloseSection, Finish, ReadBlockCount, EndFunction,
           Reject, Returned, vars
  <1> QED BY <1>1, <1>3, <1>4, <1>5, <1>6, <1>7, <1>8, <1>9 DEF Next

LEMMA TablesInit == Init => Tables
  <1> SUFFICES ASSUME Init PROVE Tables
    OBVIOUS
  <1>1. out.symbols = <<>> /\ out.types = <<>> /\ out.constants = <<>>
    BY DEF Init
  <1>2. Len(<<>>) = 0 /\ NoDuplicates(<<>>)
    BY DEF NoDuplicates
  <1> QED BY <1>1, <1>2 DEF Tables, ScalarsFirst, TypesOrdered, ConstantsMasked

LEMMA TablesNext == Cursor /\ Shape /\ Tables /\ [Next]_vars => Tables'
  <1> SUFFICES ASSUME Cursor, Shape, Tables, [Next]_vars PROVE Tables'
    OBVIOUS
  <1>1. IsSeq(out.symbols) /\ IsSeq(out.types) /\ IsSeq(out.constants)
    BY DEF Shape
  <1>2. CASE ReadSymbol
    <2>1. PICK r \in SymbolEntry : ListGrew("symbols", r.val)
      BY <1>2, ReadsSymbol
    <2>2. InternedAt(out.symbols, r.val)
      BY CursorFile, SymbolRead
    <2>3. out.types' = out.types /\ out.constants' = out.constants
      BY <2>1, OutRest DEF ListGrew, Shape
    <2>4. NoDuplicates(out'.symbols)
      <3>1. Grows(out.symbols, out'.symbols, r.val)
        BY <2>1 DEF ListGrew
      <3> QED BY <1>1, <2>2, <3>1, InternedNew, GrowsUnique DEF Tables
    <2> QED BY <2>3, <2>4 DEF Tables, ScalarsFirst, TypesOrdered, ConstantsMasked
  <1>3. CASE ReadType
    <2>1. PICK r \in TypeEntry : /\ ListGrew("types", r.val) /\ TypeOk(r.val, Len(out.types))
                                 /\ \A i \in 1..Len(out.types) : out.types[i] # r.val
                                 /\ Len(out.types) < 14 => r.val = Scalars[Len(out.types) + 1]
      BY <1>3, ReadsAType DEF Tables
    <2> DEFINE T == out.types
               U == out'.types
               d == r.val
               n == Len(T)
    <2>2. out'.symbols = out.symbols /\ out'.constants = out.constants
      BY <2>1, OutRest DEF ListGrew, Shape
    <2>3. Grows(T, U, d) /\ IsSeq(T) /\ n \in Nat
      BY <1>1, <2>1, SeqAny DEF ListGrew
    <2>4. NoDuplicates(U)
      <3>1. NoDuplicates(T) /\ \A i \in 1..Len(T) : T[i] # d
        BY <2>1 DEF Tables
      <3> HIDE DEF T, U, d
      <3> QED BY <2>3, <3>1, GrowsUnique
    <2>5. Len(U) = n + 1 /\ U[n + 1] = d /\ \A i \in 1..n : U[i] = T[i]
      BY <2>3 DEF Grows
    <2>6. \A i \in 1..n : i <= 14 => T[i] = Scalars[i]
      BY DEF Tables, ScalarsFirst
    <2>7. \A t \in 1..n : References(T[t]) \subseteq 0..t - 2
      BY DEF Tables, TypesOrdered
    <2>8. References(d) \subseteq 0..n - 1 /\ (n < 14 => d = Scalars[n + 1])
      BY <2>1 DEF TypeOk, EarlierOnly
    <2> HIDE DEF T, U, d, n
    <2>9. \A i \in 1..n + 1 : i \in 1..n \/ i = n + 1
      BY <2>3
    <2>10. \A i \in 1..Len(U) : i <= 14 => U[i] = Scalars[i]
      BY <2>3, <2>5, <2>6, <2>8, <2>9
    <2>11. \A t \in 1..Len(U) : References(U[t]) \subseteq 0..t - 2
      <3> SUFFICES ASSUME NEW t \in 1..n + 1 PROVE References(U[t]) \subseteq 0..t - 2
        BY <2>5
      <3>1. CASE t \in 1..n
        BY <2>5, <2>7, <3>1
      <3>2. CASE t = n + 1
        <4>1. t - 2 = n - 1
          BY <2>3, <3>2
        <4> QED BY <2>5, <2>8, <3>2, <4>1
      <3> QED BY <2>9, <3>1, <3>2
    <2> QED BY <2>2, <2>4, <2>10, <2>11 DEF Tables, ScalarsFirst, TypesOrdered, ConstantsMasked, U
  <1>4. CASE ReadConstant
    <2>1. PICK r \in ConstantEntry : ListGrew("constants", r.val)
      BY <1>4, ReadsConstant
    <2> DEFINE T == out.constants
               U == out'.constants
               d == r.val
               n == Len(T)
    <2>2. ConstOk(d)
      BY CursorFile, ConstantRead
    <2>3. out'.symbols = out.symbols /\ out'.types = out.types
      BY <2>1, OutRest DEF ListGrew, Shape
    <2>4. Grows(T, U, d) /\ IsSeq(T) /\ n \in Nat
      BY <1>1, <2>1, SeqAny DEF ListGrew
    <2>5. InternedAt(T, d) /\ (d.tag = "Int" => Masked(d)) /\ NoDuplicates(T)
      BY <2>2 DEF ConstOk, Tables
    <2>6. \A c \in 1..n : T[c].tag = "Int" => Masked(T[c])
      BY DEF Tables, ConstantsMasked
    <2> HIDE DEF T, U, d
    <2>7. NoDuplicates(U)
      BY <2>4, <2>5, InternedNew, GrowsUnique
    <2>8. Len(U) = n + 1 /\ U[n + 1] = d /\ \A i \in 1..n : U[i] = T[i]
      BY <2>4 DEF Grows
    <2> HIDE DEF n
    <2>9. \A c \in 1..Len(U) : c \in 1..n \/ c = n + 1
      BY <2>4, <2>8
    <2>10. \A c \in 1..Len(U) : U[c].tag = "Int" => Masked(U[c])
      <3> SUFFICES ASSUME NEW c \in 1..Len(U), U[c].tag = "Int" PROVE Masked(U[c])
        OBVIOUS
      <3> QED BY <2>5, <2>6, <2>8, <2>9, Zenon
    <2> QED BY <2>3, <2>7, <2>10 DEF Tables, ScalarsFirst, TypesOrdered, ConstantsMasked, U
  <1>5. CASE ~ReadSymbol /\ ~ReadType /\ ~ReadConstant
    BY <1>5, TablesSame DEF SameTables, Tables, ScalarsFirst, TypesOrdered, ConstantsMasked
  <1> QED BY <1>2, <1>3, <1>4, <1>5

LEMMA TablesAlways == Spec => []Tables
  <1>1. Cursor /\ Shape /\ Tables /\ [Next]_vars => Tables'
    BY TablesNext
  <1> QED BY TablesInit, <1>1, CursorAlways, ShapeAlways, PTL DEF Spec

\* When the types are read the scalars are.
TypesDue ==
    /\ section < 3 => Len(out.types) = 0
    /\ section = 3 => IF stage = "entries" THEN left.entries + Len(out.types) >= 14
                      ELSE Len(out.types) = 0
    /\ section > 3 => Len(out.types) >= 14
LEMMA TypesDueInit == Init => TypesDue
  BY DEF Init, TypesDue
LEMMA TypesDueNext == Cursor /\ Shape /\ Room /\ Tables /\ TypesDue /\ [Next]_vars => TypesDue'
  <1> SUFFICES ASSUME Cursor, Shape, Room, Tables, TypesDue, [Next]_vars PROVE TypesDue'
    OBVIOUS
  <1>1. /\ section \in 1..5 /\ Len(out.types) \in Nat /\ left.entries \in Nat
        /\ left \in Lefts /\ DOMAIN left = {"entries", "values", "blocks", "insts"}
    BY SeqAny DEF Cursor, Shape, Room, Lefts
  <1>2. CASE ReadType
    <2>1. PICK r \in TypeEntry : Advance(r, "entries") /\ ListGrew("types", r.val)
      BY <1>2, ReadsAType DEF Tables
    <2>2. /\ Len(out.types') = Len(out.types) + 1 /\ stage' = "entries" /\ stage = "entries" /\ section = 3
          /\ section' = section /\ left.entries' = left.entries - 1
      BY <1>1, <1>2, <2>1 DEF ListGrew, Grows, Advance, ReadType, At, OneLess, Lefts
    <2> QED BY <1>1, <2>2 DEF TypesDue
  <1>3. CASE ~ReadType
    <2>1. out.types' = out.types
      <3>1. ASSUME NEW name, name # "types", But(out, out', name) PROVE out.types' = out.types
        BY <3>1, OutRest DEF Shape
      <3> QED BY <1>3, <3>1, ReadsSymbol, ReadsConstant, TablesSame DEF ListGrew, SameTables
    <2>2. section' = section /\ section # 3 => TypesDue'
      BY <1>1, <2>1 DEF TypesDue
    <2>3. section' = section /\ stage' # "entries" /\ stage # "entries" => TypesDue'
      BY <1>1, <2>1 DEF TypesDue
    <2>4. section' = section /\ stage' = stage /\ left' = left => TypesDue'
      BY <1>1, <2>1 DEF TypesDue
    <2>5. CASE ReadHeader \/ OpenSection
      BY <2>3, <2>5 DEF ReadHeader, OpenSection, Advance, At
    <2>6. CASE ReadModule \/ ReadSymbol \/ ReadConstant \/ ReadFunction
      <3>1. ReadModule => section' = section /\ section = 1
        BY DEF ReadModule
      <3>2. ReadSymbol => section' = section /\ section = 2
        BY DEF ReadSymbol
      <3>3. ReadConstant => section' = section /\ section = 4
        BY DEF ReadConstant
      <3>4. ReadFunction => section' = section /\ section = 5
        BY DEF ReadFunction
      <3> QED BY <2>2, <2>6, <3>1, <3>2, <3>3, <3>4
    <2>7. CASE ReadCount
      <3>1. PICK r \in CountEntry : Advance(r, "entries") /\ left' = [left EXCEPT !.entries = r.val]
        BY <2>7 DEF ReadCount
      <3>2. section \in 2..5 /\ section' = section /\ stage = "start"
        BY <1>1, <2>7 DEF ReadCount, At
      <3>3. section = 3 => r.val >= SCALAR_TYPES
        BY <3>2, CursorFile, CountRead
      <3>4. left.entries' = r.val /\ stage' = "entries" /\ SCALAR_TYPES = 14
        BY <1>1, <3>1, ScalarsApart DEF Advance, SCALAR_TYPES
      <3>5. section = 3 => r.val \in Nat
        BY <3>2, CountsFit
      <3> QED BY <1>1, <2>1, <3>2, <3>3, <3>4, <3>5 DEF TypesDue
    <2>8. CASE CloseSection
      <3>1. section' = section + 1 /\ stage' = "open" /\ stage = "entries" /\ left.entries = 0 /\ section < 5
        BY <2>8 DEF CloseSection, At
      <3> QED BY <1>1, <2>1, <3>1 DEF TypesDue
    <2>9. CASE ReadValue \/ ReadBlockCount \/ ReadBlock \/ ReadInst \/ ReadTerm \/ EndFunction
      <3>1. section' = section /\ stage \in {"values", "blocks", "insts"}
        BY <2>9 DEF ReadValue, ReadBlockCount, ReadBlock, ReadInst, ReadTerm, EndFunction, At
      <3> QED BY <2>2, <3>1 DEF Room
    <2>10. CASE Finish \/ Reject \/ Returned \/ UNCHANGED vars
      BY <2>4, <2>10 DEF Finish, Reject, Returned, vars
    <2> QED BY <1>3, <2>5, <2>6, <2>7, <2>8, <2>9, <2>10 DEF Next
  <1> QED BY <1>2, <1>3

LEMMA TypesDueAlways == Spec => []TypesDue
  <1>1. Cursor /\ Shape /\ Room /\ Tables /\ TypesDue /\ [Next]_vars => TypesDue'
    BY TypesDueNext
  <1> QED BY TypesDueInit, <1>1, CursorAlways, ShapeAlways, RoomAlways, TablesAlways, PTL DEF Spec

\* The symbols a function names are in a table of n symbols.
Ref(n, s) == s = None \/ s \in 0..n - 1
FnRefs(n, f) ==
    /\ Ref(n, f.symbol) /\ (f.abi.tag = "Custom" => Ref(n, f.abi.symbol))
    /\ \A i \in 1..Len(f.values) : Ref(n, f.values[i].name)
    /\ \A i \in 1..Len(f.blocks) : Ref(n, f.blocks[i].name)
AllRefs(n, functions) == \A g \in 1..Len(functions) : FnRefs(n, functions[g])
Refs ==
    /\ OptLegal(out.name) /\ (section >= 3 => Ref(Len(out.symbols), out.name))
    /\ AllRefs(Len(out.symbols), out.functions)
    /\ section < 5 => Len(out.functions) = 0

LEMMA LegalRefs ==
    ASSUME Shape
    PROVE  /\ \A s : SymLegal(s) => Ref(Len(out.symbols), s)
           /\ \A s : OptSymLegal(s) => Ref(Len(out.symbols), s)
           /\ \A s : OptLegal(s) /\ SymbolExists(s) => Ref(Len(out.symbols), s)
           /\ \A a : AbiLegal(a) /\ a.tag = "Custom" => Ref(Len(out.symbols), a.symbol)
  <1>1. Len(out.symbols) \in Nat
    BY SeqAny DEF Shape
  <1>2. ASSUME NEW s, OptLegal(s), SymbolExists(s) PROVE Ref(Len(out.symbols), s)
    BY <1>1, <1>2 DEF OptLegal, SymbolExists, Ref, FitsIn
  <1>3. ASSUME NEW a, AbiLegal(a), a.tag = "Custom" PROVE Ref(Len(out.symbols), a.symbol)
    <2>1. ASSUME NEW t, t # "Custom", a = [tag |-> t] PROVE FALSE
      BY <1>3, <2>1
    <2>2. PICK y : SymLegal(y) /\ a = [tag |-> "Custom", symbol |-> y]
      BY <1>3, <2>1 DEF AbiLegal
    <2>3. a.symbol = y
      BY <2>2
    <2> QED BY <1>2, <2>2, <2>3 DEF SymLegal, OptLegal
  <1> QED BY <1>2, <1>3 DEF SymLegal, OptSymLegal, OptLegal

\* The last function changes, or a block or a value is added to it.
LEMMA FnKeepsRefs ==
    ASSUME Shape, Len(out.functions) > 0, NEW n, AllRefs(n, out.functions),
           NEW name, FnChanged(name), FnRefs(n, Fn')
    PROVE  AllRefs(n, out.functions')
  <1> DEFINE F == out.functions
             G == out.functions'
             m == Len(F)
  <1>1. Len(G) = m /\ G[m] = Fn' /\ \A g \in 1..m - 1 : G[g] = F[g]
    BY DEF FnChanged, Changes
  <1>2. m \in Nat /\ \A g \in 1..m : FnRefs(n, F[g])
    BY FnShape DEF AllRefs
  <1> HIDE DEF F, G, m
  <1>3. \A g \in 1..m : g \in 1..m - 1 \/ g = m
    BY <1>2
  <1>4. \A g \in 1..Len(G) : FnRefs(n, G[g])
    <2> SUFFICES ASSUME NEW g \in 1..m PROVE FnRefs(n, G[g])
      BY <1>1
    <2>1. CASE g = m
      BY <1>1, <2>1
    <2>2. CASE g \in 1..m - 1
      BY <1>1, <1>2, <2>2
    <2> QED BY <1>3, <2>1, <2>2
  <1> QED BY <1>4 DEF AllRefs, G
LEMMA GrowsAll ==
    ASSUME NEW s, NEW t, NEW x, IsSeq(s), Grows(s, t, x), NEW n,
           \A i \in 1..Len(s) : Ref(n, s[i].name), Ref(n, x.name)
    PROVE  \A i \in 1..Len(t) : Ref(n, t[i].name)
  <1>1. Len(s) \in Nat /\ Len(t) = Len(s) + 1 /\ t[Len(s) + 1] = x /\ \A i \in 1..Len(s) : t[i] = s[i]
    BY SeqAny DEF Grows
  <1>2. \A i \in 1..Len(t) : i \in 1..Len(s) \/ i = Len(s) + 1
    BY <1>1
  <1> QED BY <1>1, <1>2

LEMMA RefsInit == Init => Refs
  <1> SUFFICES ASSUME Init PROVE Refs
    OBVIOUS
  <1>1. out.functions = <<>> /\ out.name = None /\ section = 1
    BY DEF Init
  <1>2. Len(<<>>) = 0
    OBVIOUS
  <1> QED BY <1>1, <1>2 DEF Refs, AllRefs, OptLegal

LEMMA RefsNext == Cursor /\ Shape /\ Room /\ Refs /\ [Next]_vars => Refs'
  <1> SUFFICES ASSUME Cursor, Shape, Room, Refs, [Next]_vars PROVE Refs'
    OBVIOUS
  <1> DEFINE n == Len(out.symbols)
             F == out.functions
             G == out.functions'
  <1>1. section \in 1..5 /\ IsSeq(F) /\ Len(F) \in Nat /\ IsRecord(out, OutNames)
    BY SeqAny DEF Cursor, Shape
  <1>2. ASSUME section' = section, out' = out PROVE Refs'
    BY <1>2 DEF Refs
  <1>3. ASSUME NEW name \in {"types", "constants"}, But(out, out', name), section' = section PROVE Refs'
    <2>1. out.symbols' = out.symbols /\ out.functions' = out.functions /\ out.name' = out.name
      BY <1>1, <1>3, OutRest
    <2> QED BY <1>3, <2>1 DEF Refs
  \* in a function: the symbols stay, the functions still name symbols
  <1>4. ASSUME But(out, out', "functions"), section' = section, section = 5, AllRefs(n, G) PROVE Refs'
    <2>1. out.symbols' = out.symbols /\ out.name' = out.name
      BY <1>1, <1>4, OutRest
    <2> QED BY <1>4, <2>1 DEF Refs
  <1>5. ASSUME NEW name, FnChanged(name), section' = section, section = 5, Len(F) > 0, FnRefs(n, Fn') PROVE Refs'
    <2>1. AllRefs(n, F)
      BY DEF Refs
    <2>2. AllRefs(n, G)
      BY <1>5, <2>1, FnKeepsRefs
    <2> QED BY <1>4, <1>5, <2>2 DEF FnChanged
  <1>6. ASSUME Len(F) > 0 PROVE FnRefs(n, Fn)
    <2>1. Len(F) \in 1..Len(F)
      BY <1>1, <1>6
    <2> QED BY <2>1 DEF Refs, AllRefs, Fn
  <1>7. CASE ReadHeader \/ OpenSection \/ ReadCount \/ ReadBlockCount \/ EndFunction \/ Finish \/ Reject
             \/ Returned \/ UNCHANGED vars
    BY <1>2, <1>7 DEF ReadHeader, OpenSection, ReadCount, ReadBlockCount, EndFunction, Finish, Reject,
                      Returned, vars
  <1>8. CASE ReadModule
    <2>1. PICK r \in ModuleEntry :
             out' = [out EXCEPT !.major = r.val.major, !.minor = r.val.minor, !.name = r.val.name]
      BY <1>8 DEF ReadModule
    <2>2. section = 1 /\ section' = section
      BY <1>8 DEF ReadModule
    <2>3. OptLegal(r.val.name)
      BY CursorFile, ModuleRead DEF ModuleLegal
    <2>4. "name" \in DOMAIN out /\ out.functions' = out.functions /\ out.symbols' = out.symbols
      BY <1>1, <2>1 DEF IsRecord, OutNames
    <2>5. out.name' = r.val.name
      BY <2>1, <2>4
    <2> QED BY <2>2, <2>3, <2>4, <2>5 DEF Refs
  <1>9. CASE CloseSection
    <2>1. out' = out /\ section' = section + 1 /\ section < 5 /\ Closes
      BY <1>9 DEF CloseSection
    <2>2. section = 2 => Ref(n, out.name)
      BY <2>1, LegalRefs DEF Closes, Refs
    <2> QED BY <1>1, <2>1, <2>2 DEF Refs
  <1>10. CASE ReadSymbol
    <2>1. section = 2 /\ section' = section /\ But(out, out', "symbols")
      BY <1>10, ReadsSymbol DEF ReadSymbol, ListGrew
    <2>2. out.functions' = out.functions /\ out.name' = out.name
      BY <1>1, <2>1, OutRest
    <2> QED BY <1>1, <2>1, <2>2 DEF Refs, AllRefs
  <1>11. CASE ReadType
    <2>1. PICK r \in TypeEntry : out' = [out EXCEPT !["types"] = Intern(out["types"], r.val)]
      BY <1>11 DEF ReadType
    <2>2. "types" \in OutNames
      BY DEF OutNames
    <2>3. But(out, out', "types") /\ section' = section
      BY <1>11, <2>1, <2>2, OutStep DEF ReadType
    <2> QED BY <1>3, <2>3
  <1>12. CASE ReadConstant
    BY <1>3, <1>12, ReadsConstant DEF ReadConstant, ListGrew
  <1>13. CASE ReadFunction
    <2>1. PICK r \in FunctionEntry : ListGrew("functions", r.val.function)
      BY <1>13, ReadsFunction
    <2>2. section = 5 /\ section' = section /\ But(out, out', "functions")
      BY <1>13, <2>1 DEF ReadFunction, ListGrew
    <2> DEFINE f == r.val.function
    <2>3. Signed(f)
      <3>1. PICK h, k : IsHead(r, h, k)
        BY CursorFile, FunctionRead
      <3> DEFINE V == [function |-> h, values |-> k]
      <3>2. Signed(h) /\ r = Res(V, r.pos) /\ V.function = h
        BY <3>1 DEF IsHead
      <3>3. Signed(V.function)
        BY <3>2
      <3> HIDE DEF V
      <3> QED BY <3>2, <3>3 DEF Res
    <2> HIDE DEF f
    <2>4. FnRefs(n, f)
      <3>1. f.values = <<>> /\ f.blocks = <<>> /\ SymLegal(f.symbol) /\ AbiLegal(f.abi)
        BY <2>3, SignedRecord
      <3>2. Ref(n, f.symbol) /\ (f.abi.tag = "Custom" => Ref(n, f.abi.symbol))
        BY <3>1, LegalRefs
      <3> QED BY <3>1, <3>2, NoneSeq DEF FnRefs
    <2>5. Grows(F, G, f)
      BY <2>1 DEF ListGrew, f
    <2>6. \A g \in 1..Len(F) : FnRefs(n, F[g])
      BY DEF Refs, AllRefs
    <2> HIDE DEF F, G, n
    <2>7. \A g \in 1..Len(G) : FnRefs(n, G[g])
      <3>1. Len(G) = Len(F) + 1 /\ G[Len(F) + 1] = f /\ \A g \in 1..Len(F) : G[g] = F[g]
        BY <2>5 DEF Grows
      <3>2. \A g \in 1..Len(G) : g \in 1..Len(F) \/ g = Len(F) + 1
        BY <1>1, <3>1
      <3> QED BY <2>4, <2>6, <3>1, <3>2, Zenon
    <2> QED BY <1>4, <2>2, <2>7 DEF AllRefs
  <1>14. CASE ReadValue
    <2>1. PICK r \in ValueEntry : FnGrew("values", r.val)
      BY <1>14, ReadsValue
    <2>2. Len(F) > 0 /\ section = 5 /\ section' = section
      BY <1>14 DEF ReadValue, At, Shape, InFunctionStages, Room
    <2> DEFINE f == Fn
               t == Fn'
               v == r.val
    <2>3. But(f, t, "values") /\ Grows(f.values, t.values, v) /\ FunctionShape(f)
      BY <2>1, <2>2, FnShape DEF FnGrew, FnChanged
    <2>4. FnRefs(n, f)
      BY <1>6, <2>2
    <2>5. Ref(n, v.name)
      <3>1. PICK ty, k, m : IsValue(r, ty, k, m)
        BY CursorFile, ValueRead
      <3> DEFINE V == [ty |-> ty, kind |-> k, name |-> m]
      <3>2. OptSymLegal(m) /\ r = Res(V, r.pos) /\ V.name = m
        BY <3>1 DEF IsValue
      <3>3. Ref(n, V.name)
        BY <3>2, LegalRefs
      <3> HIDE DEF V, n
      <3> QED BY <3>2, <3>3 DEF Res
    <2> HIDE DEF f, t, v, n
    <2>6. t.symbol = f.symbol /\ t.abi = f.abi /\ t.blocks = f.blocks
      BY <2>3, FnRest DEF FunctionShape
    <2>7. \A i \in 1..Len(t.values) : Ref(n, t.values[i].name)
      BY <2>3, <2>4, <2>5, GrowsAll DEF FnRefs, FunctionShape
    <2>8. FnRefs(n, t)
      BY <2>4, <2>6, <2>7 DEF FnRefs
    <2> QED BY <1>5, <2>1, <2>2, <2>8 DEF t, FnGrew
  <1>15. CASE ReadBlock
    <2>1. PICK r \in BlockEntry : FnGrew("blocks", r.val.block)
      BY <1>15, ReadsBlock
    <2>2. Len(F) > 0 /\ section = 5 /\ section' = section
      BY <1>15 DEF ReadBlock, At, Shape, InFunctionStages, Room
    <2> DEFINE f == Fn
               t == Fn'
               v == r.val.block
    <2>3. But(f, t, "blocks") /\ Grows(f.blocks, t.blocks, v) /\ FunctionShape(f)
      BY <2>1, <2>2, FnShape DEF FnGrew, FnChanged
    <2>4. FnRefs(n, f)
      BY <1>6, <2>2
    <2>5. Ref(n, v.name)
      <3>1. PICK h, k : IsBlock(r, h, k)
        BY CursorFile, BlockRead
      <3> DEFINE V == [block |-> h, insts |-> k]
      <3>2. Blocked(h) /\ r = Res(V, r.pos) /\ V.block = h
        BY <3>1 DEF IsBlock
      <3>3. Ref(n, V.block.name)
        BY <3>2, BlockedRecord, LegalRefs
      <3> HIDE DEF V, n
      <3> QED BY <3>2, <3>3 DEF Res
    <2> HIDE DEF f, t, v, n
    <2>6. t.symbol = f.symbol /\ t.abi = f.abi /\ t.values = f.values
      BY <2>3, FnRest DEF FunctionShape
    <2>7. \A i \in 1..Len(t.blocks) : Ref(n, t.blocks[i].name)
      BY <2>3, <2>4, <2>5, GrowsAll DEF FnRefs, FunctionShape
    <2>8. FnRefs(n, t)
      BY <2>4, <2>6, <2>7 DEF FnRefs
    <2> QED BY <1>5, <2>1, <2>2, <2>8 DEF t, FnGrew
  <1>16. CASE ReadInst \/ ReadTerm
    <2>1. PICK name : name \in {"insts", "term"} /\ BlkChanged(name)
      BY <1>16, ReadsAnInst, ReadsATerm DEF BlkGrew
    <2>2. /\ Len(F) > 0 /\ section = 5 /\ section' = section /\ Len(Fn.blocks) > 0
      BY <1>16 DEF ReadInst, ReadTerm, At, Shape, InFunctionStages, Room, Fn
    <2> DEFINE f == Fn
               t == Fn'
               B == f.blocks
               C == t.blocks
               k == Len(B)
    <2>3. But(f, t, "blocks") /\ Changes(B, C, Blk') /\ FunctionShape(f) /\ BlockShape(Blk)
      BY <2>1, <2>2, FnShape DEF BlkChanged, FnChanged
    <2>4. FnRefs(n, f)
      BY <1>6, <2>2
    <2>5. Blk'.name = Blk.name /\ Blk = B[k]
      BY <2>1, <2>3, BlkRest DEF BlkChanged, BlockShape, Blk
    <2>6. k \in Nat /\ k > 0
      BY <2>2, <2>3, SeqAny DEF FunctionShape
    <2>7. t.symbol = f.symbol /\ t.abi = f.abi /\ t.values = f.values
      BY <2>3, FnRest DEF FunctionShape
    <2>8. Len(C) = k /\ C[k] = Blk' /\ \A i \in 1..k - 1 : C[i] = B[i]
      BY <2>3 DEF Changes
    <2>9. \A i \in 1..k : Ref(n, B[i].name)
      BY <2>4 DEF FnRefs
    <2> HIDE DEF B, C, k, n
    <2>10. \A i \in 1..Len(C) : Ref(n, C[i].name)
      <3> SUFFICES ASSUME NEW i \in 1..k PROVE Ref(n, C[i].name)
        BY <2>8
      <3>1. CASE i = k
        <4>1. C[i].name = B[k].name /\ k \in 1..k
          BY <2>5, <2>6, <2>8, <3>1
        <4> QED BY <2>9, <4>1
      <3>2. CASE i \in 1..k - 1
        BY <2>8, <2>9, <3>2
      <3> QED BY <2>6, <3>1, <3>2
    <2>11. FnRefs(n, t)
      BY <2>4, <2>7, <2>10 DEF FnRefs, C
    <2> QED BY <1>5, <2>1, <2>2, <2>11 DEF BlkChanged
  <1> QED BY <1>7, <1>8, <1>9, <1>10, <1>11, <1>12, <1>13, <1>14, <1>15, <1>16 DEF Next

LEMMA RefsAlways == Spec => []Refs
  <1>1. Cursor /\ Shape /\ Room /\ Refs /\ [Next]_vars => Refs'
    BY RefsNext
  <1> QED BY RefsInit, <1>1, CursorAlways, ShapeAlways, RoomAlways, PTL DEF Spec

\* A module that is accepted is what the stores and the code behind them take for
\* granted, however the file was damaged: the scalars are where the TypeIds say, ids are
\* dense and unique, types form no cycle, constants are masked, symbols exist (reader.rs:4-8).
THEOREM AcceptedWellFormed == Spec => []AcceptedIsWellFormed
  <1> DEFINE Accepted == status = "ok" => section = 5
  <1>1. Init => Accepted
    BY DEF Init
  <1>2. Accepted /\ [Next]_vars => Accepted'
    BY DEF Accepted, Next, vars, file, ReadHeader, OpenSection, ReadModule, ReadCount, CloseSection, Finish,
           ReadSymbol, ReadType, ReadConstant, ReadFunction, ReadValue, ReadBlockCount, ReadBlock,
           ReadInst, ReadTerm, EndFunction, Reject, Returned, Advance, At
  <1>3. Spec => []Accepted
    BY <1>1, <1>2, PTL DEF Spec
  <1>4. Accepted /\ Shape /\ Tables /\ TypesDue /\ Refs => AcceptedIsWellFormed
    <2> SUFFICES ASSUME Accepted, Shape, Tables, TypesDue, Refs, status = "ok" PROVE AcceptedIsWellFormed
      BY DEF AcceptedIsWellFormed
    <2>1. section = 5
      OBVIOUS
    <2>2. /\ IsSeq(out.symbols) /\ IsSeq(out.types) /\ IsSeq(out.constants) /\ IsSeq(out.functions)
      BY DEF Shape
    <2>3. /\ DOMAIN out.types = 1..Len(out.types) /\ DOMAIN out.constants = 1..Len(out.constants)
          /\ DOMAIN out.functions = 1..Len(out.functions) /\ Len(out.types) \in Nat
      BY <2>2, SeqAny
    <2>4. Len(out.types) >= 14
      BY <2>1 DEF TypesDue
    <2>5. IsPrefix(Scalars, out.types)
      <3>1. \A i \in 1..14 : out.types[i] = Scalars[i]
        BY <2>3, <2>4 DEF Tables, ScalarsFirst
      <3> QED BY <2>2, <2>4, <3>1, ScalarsPrefix
    <2>6. /\ \A t \in DOMAIN out.types : References(out.types[t]) \subseteq 0..t - 2
          /\ \A c \in DOMAIN out.constants : out.constants[c].tag = "Int" => Masked(out.constants[c])
      BY <2>3 DEF Tables, TypesOrdered, ConstantsMasked
    <2> DEFINE n == Len(out.symbols)
               R == {None} \cup 0..n - 1
    <2>7. Ref(n, out.name) /\ AllRefs(n, out.functions)
      BY <2>1 DEF Refs
    <2> HIDE DEF n
    <2>8. \A s : Ref(n, s) => s \in R
      BY DEF Ref
    <2> HIDE DEF R
    <2>9. ASSUME NEW g \in DOMAIN out.functions PROVE SymbolsOf(out.functions[g]) \subseteq R
      <3> DEFINE f == out.functions[g]
      <3>1. FunctionShape(f) /\ FnRefs(n, f)
        BY <2>3, <2>7 DEF Shape, AllRefs
      <3> HIDE DEF f
      <3>2. DOMAIN f.values = 1..Len(f.values) /\ DOMAIN f.blocks = 1..Len(f.blocks)
        BY <3>1, SeqAny DEF FunctionShape
      <3>3. f.symbol \in R /\ (f.abi.tag = "Custom" => f.abi.symbol \in R)
            /\ (\A i \in DOMAIN f.values : f.values[i].name \in R)
            /\ (\A i \in DOMAIN f.blocks : f.blocks[i].name \in R)
        BY <2>8, <3>1, <3>2 DEF FnRefs
      <3>4. SymbolsOf(f) \subseteq R
        BY <3>3 DEF SymbolsOf
      <3> QED BY <3>4 DEF f
    <2>10. (UNION {SymbolsOf(out.functions[g]) : g \in DOMAIN out.functions}) \cup {out.name} \subseteq R
      <3> DEFINE D == DOMAIN out.functions
                 N(g) == SymbolsOf(out.functions[g])
      <3>1. out.name \in R
        BY <2>7, <2>8
      <3>2. \A g \in D : N(g) \subseteq R
        BY <2>9
      <3> HIDE DEF D, N
      <3>3. UNION {N(g) : g \in D} \subseteq R
        BY <3>2
      <3>4. (UNION {N(g) : g \in D}) \cup {out.name} \subseteq R
        BY <3>1, <3>3
      <3> QED BY <3>4 DEF D, N
    <2> QED BY <2>5, <2>6, <2>10 DEF AcceptedIsWellFormed, WellFormed, Tables, R, n
  <1> HIDE DEF Accepted
  <1> QED BY <1>3, <1>4, ShapeAlways, TablesAlways, TypesDueAlways, RefsAlways, PTL

-----------------------------------------------------------------------------
(* What was read is what a writer of the module would have written         *)

\* b is what the file f has from p to q.
Lies(f, p, b, q) ==
    f \in Seq(Byte) /\ p \in Nat /\ q \in Nat /\ p <= q /\ q <= Len(f) /\ b = SubSeq(f, p + 1, q)

LEMMA LiesTyped ==
    ASSUME NEW f, NEW p, NEW b, NEW q, Lies(f, p, b, q)
    PROVE  b \in Seq(Byte) /\ Len(b) = q - p /\ p \in Nat /\ q \in Nat
  <1>1. \A i \in p + 1..q : f[i] \in Byte
    BY DEF Lies
  <1>2. SubSeq(f, p + 1, q) \in Seq(Byte) /\ Len(SubSeq(f, p + 1, q)) = IF p + 1 <= q THEN q - (p + 1) + 1 ELSE 0
    <2>1. p + 1 \in Int /\ q \in Int
      BY DEF Lies
    <2> QED BY <1>1, <2>1, SubSeqProperties
  <1> QED BY <1>2 DEF Lies
LEMMA LiesJoin ==
    ASSUME NEW f, NEW p, NEW b, NEW m, NEW c, NEW q, Lies(f, p, b, m), Lies(f, m, c, q)
    PROVE  Lies(f, p, b \o c, q)
  <1>1. SubSeq(f, p + 1, q) = SubSeq(f, p + 1, m) \o SubSeq(f, m + 1, q)
    <2>1. f \in Seq(Byte) /\ p + 1 \in 1..Len(f) + 1 /\ m \in (p + 1) - 1..Len(f) /\ q \in m..Len(f)
      BY DEF Lies
    <2> QED BY <2>1, ConcatAdjacentSubSeq
  <1> QED BY <1>1 DEF Lies
LEMMA LiesNone ==
    ASSUME NEW f, NEW p, NEW b, NEW q, Lies(f, p, b, q)
    PROVE  Lies(f, q, <<>>, q)
  <1>1. SubSeq(f, q + 1, q) = <<>>
    BY SubSeqEmpty DEF Lies
  <1> QED BY <1>1 DEF Lies
LEMMA LiesEnds ==
    ASSUME FileOK, NEW p, NEW b, NEW q, Ends(p, b, q)
    PROVE  Lies(bytes, p, b, q)
  BY EndsFacts DEF Lies, FileOK, Span

\* A list that was started at p: its length n, and the bytes bs of the entries so far.
ListAt(f, p, n, bs, q) ==
    /\ bs \in Seq(Seq(Byte))
    /\ \E m : Lies(f, p, U32(n), m) /\ Lies(f, m, FlattenSeq(bs), q)

LEMMA ListStarts ==
    ASSUME NEW f, NEW p, NEW n, NEW q, Lies(f, p, U32(n), q)
    PROVE  ListAt(f, p, n, <<>>, q)
  <1>1. Lies(f, q, FlattenSeq(<<>>), q)
    BY LiesNone, FlattenNone
  <1> QED BY <1>1 DEF ListAt
LEMMA ListEnds ==
    ASSUME NEW f, NEW p, NEW n, NEW bs, NEW q, ListAt(f, p, n, bs, q)
    PROVE  Lies(f, p, U32(n) \o FlattenSeq(bs), q)
  BY LiesJoin DEF ListAt
LEMMA ListGoesOn ==
    ASSUME NEW f, NEW p, NEW n, NEW bs, NEW q, ListAt(f, p, n, bs, q),
           NEW b, NEW r, Lies(f, q, b, r)
    PROVE  ListAt(f, p, n, Append(bs, b), r)
  <1>1. bs \in Seq(Seq(Byte)) /\ b \in Seq(Byte)
    BY LiesTyped DEF ListAt
  <1>2. FlattenSeq(Append(bs, b)) = FlattenSeq(bs) \o b
    BY <1>1, FlattenAppend
  <1>3. Append(bs, b) \in Seq(Seq(Byte))
    BY <1>1, AppendProperties
  <1>4. PICK m : Lies(f, p, U32(n), m) /\ Lies(f, m, FlattenSeq(bs), q)
    BY DEF ListAt
  <1>5. Lies(f, m, FlattenSeq(bs) \o b, r)
    BY <1>4, LiesJoin
  <1> QED BY <1>2, <1>3, <1>4, <1>5 DEF ListAt
\* F gives the bytes of the first k entries, G of one more.
IsOn(F, k) == F = [i \in 1..k |-> F[i]]
GoesOn(F, G, k) == IsOn(F, k) /\ IsOn(G, k + 1) /\ \A i \in 1..k : G[i] = F[i]
LEMMA ListGrowsBy ==
    ASSUME NEW f, NEW p, NEW n, NEW F, NEW q, ListAt(f, p, n, F, q),
           NEW k \in Nat, NEW G, GoesOn(F, G, k), NEW r, Lies(f, q, G[k + 1], r)
    PROVE  ListAt(f, p, n, G, r)
  <1>0. F = [i \in 1..k |-> F[i]] /\ G = [i \in 1..k + 1 |-> G[i]] /\ \A i \in 1..k : G[i] = F[i]
    BY DEF GoesOn, IsOn
  <1>1. F \in Seq(Seq(Byte)) /\ G[k + 1] \in Seq(Byte)
    BY LiesTyped DEF ListAt
  <1> DEFINE x == G[k + 1]
  <1>2. DOMAIN F = 1..k /\ Len(F) = k
    <2>1. DOMAIN F = 1..k /\ DOMAIN F = 1..Len(F) /\ Len(F) \in Nat
      BY <1>0, <1>1
    <2> QED BY <2>1
  <1> HIDE DEF x
  <1>3. Append(F, x) = [i \in 1..k + 1 |-> IF i = k + 1 THEN x ELSE F[i]]
    <2>1. /\ Append(F, x) \in Seq(Seq(Byte)) /\ Len(Append(F, x)) = k + 1
          /\ Append(F, x)[k + 1] = x /\ \A i \in 1..k : Append(F, x)[i] = F[i]
      BY <1>1, <1>2, AppendProperties DEF x
    <2> DEFINE A == Append(F, x)
    <2>2. \A i \in 1..k + 1 : A[i] = IF i = k + 1 THEN x ELSE F[i]
      <3> HIDE DEF A
      <3> SUFFICES ASSUME NEW i \in 1..k + 1 PROVE A[i] = IF i = k + 1 THEN x ELSE F[i]
        OBVIOUS
      <3>1. i \in 1..k \/ i = k + 1
        OBVIOUS
      <3>2. i \in 1..k => i # k + 1
        OBVIOUS
      <3> QED BY <2>1, <3>1, <3>2, Zenon DEF A
    <2> HIDE DEF A
    <2>3. A = [i \in 1..k + 1 |-> A[i]]
      <3> DEFINE S == Seq(Byte)
      <3>1. A \in Seq(S) /\ Len(A) = k + 1
        BY <2>1 DEF A
      <3> HIDE DEF S
      <3> QED BY <3>1
    <2> QED BY <2>2, <2>3 DEF A
  <1>4. G = Append(F, x)
    <2>1. \A i \in 1..k + 1 : G[i] = IF i = k + 1 THEN x ELSE F[i]
      <3> SUFFICES ASSUME NEW i \in 1..k + 1 PROVE G[i] = IF i = k + 1 THEN x ELSE F[i]
        OBVIOUS
      <3>1. i \in 1..k \/ i = k + 1
        OBVIOUS
      <3>2. i \in 1..k => i # k + 1
        OBVIOUS
      <3>3. (\A j \in 1..k : G[j] = F[j]) /\ x = G[k + 1]
        BY <1>0 DEF x
      <3> QED BY <3>1, <3>2, <3>3, Zenon
    <2> DEFINE e(i) == IF i = k + 1 THEN x ELSE F[i]
               A == Append(F, x)
    <2>2. (\A i \in 1..k + 1 : G[i] = e(i)) /\ A = [i \in 1..k + 1 |-> e(i)]
      BY <1>3, <2>1
    <2> HIDE DEF e, A
    <2>3. G = A
      BY <1>0, <2>2
    <2> QED BY <2>3 DEF A
  <1>5. Lies(f, q, x, r)
    BY DEF x
  <1>6. ListAt(f, p, n, Append(F, x), r)
    BY <1>5, ListGoesOn
  <1> QED BY <1>4, <1>6, Zenon

\* The bytes of the entries of each list.
Values(l) == [i \in 1..Len(l) |-> ValueBytes(l[i])]
Insts(l) == [i \in 1..Len(l) |-> InstBytes(l[i])]
Blocks(l, n) == [i \in 1..n |-> BlockBytes(l[i])]
Functions(l, n) == [i \in 1..n |-> FunctionBytes(l[i])]
SymbolNames(l) == [i \in 1..Len(l) |-> List(l[i], U8)]
TypesOf(l) == [i \in 1..Len(l) |-> TypeBytes(l[i])]
ConstantsOf(l) == [i \in 1..Len(l) |-> ConstBytes(l[i])]
SymbolList(l) == List(l, LAMBDA name : List(name, U8))
LEMMA ListsAre ==
    ASSUME NEW l, IsSeq(l)
    PROVE  /\ List(l, ValueBytes) = U32(Len(l)) \o FlattenSeq(Values(l))
           /\ List(l, InstBytes) = U32(Len(l)) \o FlattenSeq(Insts(l))
           /\ List(l, BlockBytes) = U32(Len(l)) \o FlattenSeq(Blocks(l, Len(l)))
           /\ List(l, FunctionBytes) = U32(Len(l)) \o FlattenSeq(Functions(l, Len(l)))
           /\ SymbolList(l) = U32(Len(l)) \o FlattenSeq(SymbolNames(l))
           /\ List(l, TypeBytes) = U32(Len(l)) \o FlattenSeq(TypesOf(l))
           /\ List(l, ConstBytes) = U32(Len(l)) \o FlattenSeq(ConstantsOf(l))
  <1>1. DOMAIN l = 1..Len(l)
    BY SeqAny
  <1>2. /\ List(l, ValueBytes) = U32(Len(l)) \o FlattenSeq(Values(l))
        /\ List(l, InstBytes) = U32(Len(l)) \o FlattenSeq(Insts(l))
    BY <1>1, Zenon DEF List, Concat, Values, Insts
  <1>3. /\ List(l, BlockBytes) = U32(Len(l)) \o FlattenSeq(Blocks(l, Len(l)))
        /\ List(l, FunctionBytes) = U32(Len(l)) \o FlattenSeq(Functions(l, Len(l)))
    BY <1>1, Zenon DEF List, Concat, Blocks, Functions
  <1>4. /\ List(l, TypeBytes) = U32(Len(l)) \o FlattenSeq(TypesOf(l))
        /\ List(l, ConstBytes) = U32(Len(l)) \o FlattenSeq(ConstantsOf(l))
    BY <1>1, Zenon DEF List, Concat, TypesOf, ConstantsOf
  <1>5. SymbolList(l) = U32(Len(l)) \o FlattenSeq(SymbolNames(l))
    BY <1>1, Zenon DEF SymbolList, List, Concat, SymbolNames
  <1> QED BY <1>2, <1>3, <1>4, <1>5


-----------------------------------------------------------------------------
(* A function as far as it is read: fn lies from at to q, but for the      *)
(* entries that are still due                                              *)

FnHead(fn) == SignatureBytes(fn) \o List(fn.values, ValueBytes)
FnBlocks(fn) == Blocks(fn.blocks, Len(fn.blocks))
BlocksBefore(fn) == Blocks(fn.blocks, Len(fn.blocks) - 1)
LastBlock(fn) == fn.blocks[Len(fn.blocks)]
InValues(f, at, fn, n, q) ==
    /\ Len(fn.blocks) = 0
    /\ \E v : Lies(f, at, SignatureBytes(fn), v) /\ ListAt(f, v, n + Len(fn.values), Values(fn.values), q)
InBlocks(f, at, fn, n, q) ==
    \E b : Lies(f, at, FnHead(fn), b) /\ ListAt(f, b, n + Len(fn.blocks), FnBlocks(fn), q)
InInsts(f, at, fn, n, i, q) ==
    \E b, k, j : /\ Lies(f, at, FnHead(fn), b)
                 /\ ListAt(f, b, n + Len(fn.blocks), BlocksBefore(fn), k)
                 /\ Lies(f, k, BlockHead(LastBlock(fn)), j)
                 /\ ListAt(f, j, i + Len(LastBlock(fn).insts), Insts(LastBlock(fn).insts), q)

\* The signature of a function that is changed in its values or blocks.
SameHead(fn, t) ==
    /\ t.symbol = fn.symbol /\ t.linkage = fn.linkage /\ t.abi = fn.abi /\ t.variadic = fn.variadic
    /\ t.result = fn.result /\ t.params = fn.params
LEMMA SignatureSame ==
    ASSUME NEW fn, NEW t, SameHead(fn, t)
    PROVE  SignatureBytes(t) = SignatureBytes(fn)
  <1>1. DOMAIN WritesSignature = 1..6
    BY DEF WritesSignature
  <1> DEFINE b(r, i) == FieldBytes(WritesSignature[i][2], r[WritesSignature[i][1]])
  <1>2. \A i \in 1..6 : t[WritesSignature[i][1]] = fn[WritesSignature[i][1]]
    <2>1. \A i \in 1..6 : i \in {1, 2, 3, 4, 5, 6}
      OBVIOUS
    <2>2. /\ WritesSignature[1][1] = "symbol" /\ WritesSignature[2][1] = "linkage"
          /\ WritesSignature[3][1] = "abi" /\ WritesSignature[4][1] = "variadic"
          /\ WritesSignature[5][1] = "result" /\ WritesSignature[6][1] = "params"
      BY DEF WritesSignature
    <2> QED BY <2>1, <2>2 DEF SameHead
  <1>3. \A i \in 1..6 : b(t, i) = b(fn, i)
    BY <1>2, Zenon
  <1>4. FieldsBytes(WritesSignature, t) = FieldsBytes(WritesSignature, fn)
    <2> DEFINE T == [i \in 1..6 |-> b(t, i)]
               F == [i \in 1..6 |-> b(fn, i)]
    <2>1. T = F
      <3> HIDE DEF b
      <3> QED BY <1>3
    <2>2. FieldsBytes(WritesSignature, t) = FlattenSeq(T) /\ FieldsBytes(WritesSignature, fn) = FlattenSeq(F)
      BY <1>1, Zenon DEF FieldsBytes
    <2> HIDE DEF T, F
    <2> QED BY <2>1, <2>2, Zenon
  <1> QED BY <1>4 DEF SignatureBytes

LEMMA SameSignature ==
    ASSUME NEW fn, NEW t, NEW name \in {"values", "blocks"}, FunctionShape(fn), But(fn, t, name)
    PROVE  /\ SignatureBytes(t) = SignatureBytes(fn) /\ SameHead(fn, t)
           /\ name = "values" => t.blocks = fn.blocks
           /\ name = "blocks" => t.values = fn.values
  <1>1. /\ t.symbol = fn.symbol /\ t.linkage = fn.linkage /\ t.abi = fn.abi /\ t.variadic = fn.variadic
        /\ t.result = fn.result /\ t.params = fn.params
        /\ name = "values" => t.blocks = fn.blocks
        /\ name = "blocks" => t.values = fn.values
    BY FnRest DEF FunctionShape
  <1> QED BY <1>1, SignatureSame DEF SameHead

LEMMA ValuesStart ==
    ASSUME NEW f, NEW at, NEW fn, fn.values = <<>>, fn.blocks = <<>>, NEW m, Lies(f, at, SignatureBytes(fn), m),
           NEW n \in Nat, NEW q, Lies(f, m, U32(n), q)
    PROVE  InValues(f, at, fn, n, q)
  <1>1. Values(<<>>) = <<>> /\ Len(<<>>) = 0 /\ n + 0 = n
    BY DEF Values
  <1>2. ListAt(f, m, n, <<>>, q)
    BY ListStarts
  <1> QED BY <1>1, <1>2 DEF InValues

LEMMA ValuesGoOn ==
    ASSUME NEW f, NEW at, NEW fn, NEW n \in Int, NEW q, InValues(f, at, fn, n, q), FunctionShape(fn),
           NEW t, But(fn, t, "values"), NEW x, Grows(fn.values, t.values, x),
           NEW r, Lies(f, q, ValueBytes(x), r)
    PROVE  InValues(f, at, t, n - 1, r)
  <1> DEFINE V == fn.values
             W == t.values
             F == Values(V)
             G == Values(W)
             k == Len(V)
  <1>1. PICK v : Lies(f, at, SignatureBytes(fn), v) /\ ListAt(f, v, n + k, F, q)
    BY DEF InValues
  <1>2. SignatureBytes(t) = SignatureBytes(fn) /\ t.blocks = fn.blocks
    BY SameSignature
  <1>3. k \in Nat /\ IsSeq(V)
    BY SeqAny DEF FunctionShape
  <1>4. Len(W) = k + 1 /\ W[k + 1] = x /\ \A i \in 1..k : W[i] = V[i]
    BY DEF Grows
  <1>5. F = [i \in 1..k |-> F[i]] /\ \A i \in 1..k : F[i] = ValueBytes(V[i])
    BY DEF Values
  <1>6. G = [i \in 1..k + 1 |-> G[i]] /\ \A i \in 1..k + 1 : G[i] = ValueBytes(W[i])
    BY <1>4 DEF Values
  <1> HIDE DEF F, G, V, W, k
  <1>7. (\A i \in 1..k : i \in 1..k + 1) /\ k + 1 \in 1..k + 1
    BY <1>3
  <1>8. (\A i \in 1..k : G[i] = F[i]) /\ G[k + 1] = ValueBytes(x)
    BY <1>4, <1>5, <1>6, <1>7, Zenon
  <1>9. ListAt(f, v, n + k, G, r)
    <2>1. GoesOn(F, G, k)
      BY <1>5, <1>6, <1>8 DEF GoesOn, IsOn
    <2> QED BY <1>1, <1>3, <1>8, <2>1, ListGrowsBy
  <1>10. n - 1 + Len(W) = n + k
    BY <1>3, <1>4
  <1> QED BY <1>1, <1>2, <1>9, <1>10 DEF InValues, G, W

LEMMA BlocksStart ==
    ASSUME NEW f, NEW at, NEW fn, NEW q, InValues(f, at, fn, 0, q), FunctionShape(fn),
           NEW n \in Nat, NEW r, Lies(f, q, U32(n), r)
    PROVE  InBlocks(f, at, fn, n, r)
  <1>1. PICK v : Lies(f, at, SignatureBytes(fn), v) /\ ListAt(f, v, 0 + Len(fn.values), Values(fn.values), q)
    BY DEF InValues
  <1>2. IsSeq(fn.values) /\ Len(fn.values) \in Nat /\ Len(fn.blocks) = 0
    BY SeqAny DEF FunctionShape, InValues
  <1>3. 0 + Len(fn.values) = Len(fn.values) /\ n + Len(fn.blocks) = n
    BY <1>2
  <1>4. Lies(f, v, U32(Len(fn.values)) \o FlattenSeq(Values(fn.values)), q)
    BY <1>1, <1>3, ListEnds
  <1>5. Lies(f, v, List(fn.values, ValueBytes), q)
    BY <1>2, <1>4, ListsAre
  <1>6. Lies(f, at, FnHead(fn), q)
    BY <1>1, <1>5, LiesJoin DEF FnHead
  <1>7. FnBlocks(fn) = <<>>
    BY <1>2 DEF FnBlocks, Blocks
  <1> QED BY <1>3, <1>6, <1>7, ListStarts DEF InBlocks

LEMMA BlockStarts ==
    ASSUME NEW f, NEW at, NEW fn, NEW n \in Int, NEW q, InBlocks(f, at, fn, n, q), FunctionShape(fn),
           NEW t, But(fn, t, "blocks"), NEW x, Grows(fn.blocks, t.blocks, x), x.insts = <<>>,
           NEW j, Lies(f, q, BlockHead(x), j), NEW i \in Nat, NEW r, Lies(f, j, U32(i), r)
    PROVE  InInsts(f, at, t, n - 1, i, r)
  <1> DEFINE B == fn.blocks
             C == t.blocks
             k == Len(B)
  <1>1. PICK b : Lies(f, at, FnHead(fn), b) /\ ListAt(f, b, n + k, Blocks(B, k), q)
    BY DEF InBlocks, FnBlocks
  <1>2. FnHead(t) = FnHead(fn)
    BY SameSignature DEF FnHead
  <1>3. k \in Nat /\ IsSeq(B)
    BY SeqAny DEF FunctionShape
  <1>4. Len(C) = k + 1 /\ C[k + 1] = x /\ \A m \in 1..k : C[m] = B[m]
    BY DEF Grows
  <1> HIDE DEF B, C, k
  <1>5. Blocks(C, k) = Blocks(B, k)
    BY <1>4 DEF Blocks
  <1>6. Len(C) - 1 = k /\ n - 1 + Len(C) = n + k
    BY <1>3, <1>4
  <1>7. BlocksBefore(t) = Blocks(B, k) /\ LastBlock(t) = x /\ Len(t.blocks) = Len(C)
    BY <1>4, <1>5, <1>6 DEF BlocksBefore, LastBlock, C
  <1>8. Insts(<<>>) = <<>> /\ Len(<<>>) = 0 /\ i + 0 = i
    BY DEF Insts
  <1>9. ListAt(f, j, i, <<>>, r)
    BY ListStarts
  <1> QED BY <1>1, <1>2, <1>6, <1>7, <1>8, <1>9 DEF InInsts


\* What a change of the last block leaves.
LEMMA LastChanges ==
    ASSUME NEW fn, FunctionShape(fn), Len(fn.blocks) > 0,
           NEW t, But(fn, t, "blocks"), NEW c, Changes(fn.blocks, t.blocks, c)
    PROVE  /\ FnHead(t) = FnHead(fn) /\ BlocksBefore(t) = BlocksBefore(fn)
           /\ LastBlock(t) = c /\ Len(t.blocks) = Len(fn.blocks) /\ Len(fn.blocks) \in Nat
           /\ BlockShape(LastBlock(fn))
  <1> DEFINE B == fn.blocks
             C == t.blocks
             k == Len(B)
  <1>1. FnHead(t) = FnHead(fn)
    BY SameSignature DEF FnHead
  <1>2. k \in Nat /\ k > 0 /\ \A i \in 1..k : BlockShape(B[i])
    BY SeqAny DEF FunctionShape
  <1>3. Len(C) = k /\ C[k] = c /\ \A m \in 1..k - 1 : C[m] = B[m]
    BY DEF Changes
  <1>4. LastBlock(fn) = B[k] /\ LastBlock(t) = C[Len(C)]
    BY DEF LastBlock
  <1>5. BlocksBefore(fn) = Blocks(B, k - 1) /\ BlocksBefore(t) = Blocks(C, Len(C) - 1)
    BY DEF BlocksBefore
  <1> HIDE DEF B, C, k
  <1>6. Blocks(C, k - 1) = Blocks(B, k - 1)
    BY <1>3 DEF Blocks
  <1>7. BlockShape(B[k])
    BY <1>2
  <1> QED BY <1>1, <1>2, <1>3, <1>4, <1>5, <1>6, <1>7 DEF B, C, k

LEMMA InstsGoOn ==
    ASSUME NEW f, NEW at, NEW fn, NEW n, NEW i \in Int, NEW q, InInsts(f, at, fn, n, i, q),
           FunctionShape(fn), Len(fn.blocks) > 0,
           NEW t, But(fn, t, "blocks"), NEW c, Changes(fn.blocks, t.blocks, c), But(LastBlock(fn), c, "insts"),
           NEW x, Grows(LastBlock(fn).insts, c.insts, x), NEW r, Lies(f, q, InstBytes(x), r)
    PROVE  InInsts(f, at, t, n, i - 1, r)
  <1> DEFINE b == LastBlock(fn)
             V == b.insts
             W == c.insts
             F == Insts(V)
             G == Insts(W)
             k == Len(V)
  <1>1. PICK m, u, j : /\ Lies(f, at, FnHead(fn), m)
                       /\ ListAt(f, m, n + Len(fn.blocks), BlocksBefore(fn), u)
                       /\ Lies(f, u, BlockHead(b), j) /\ ListAt(f, j, i + k, F, q)
    BY DEF InInsts
  <1>2. /\ FnHead(t) = FnHead(fn) /\ BlocksBefore(t) = BlocksBefore(fn) /\ LastBlock(t) = c
        /\ Len(t.blocks) = Len(fn.blocks) /\ BlockShape(b)
    BY LastChanges
  <1>3. k \in Nat /\ IsSeq(V)
    BY <1>2, SeqAny DEF BlockShape
  <1>4. BlockHead(c) = BlockHead(b)
    <2>1. But(b, c, "insts")
      OBVIOUS
    <2> HIDE DEF b
    <2>2. c.name = b.name /\ c.params = b.params
      BY <1>2, <2>1, BlkRest DEF BlockShape
    <2> QED BY <2>2 DEF BlockHead
  <1>5. Len(W) = k + 1 /\ W[k + 1] = x /\ \A a \in 1..k : W[a] = V[a]
    BY DEF Grows
  <1>6. F = [a \in 1..k |-> F[a]] /\ \A a \in 1..k : F[a] = InstBytes(V[a])
    BY DEF Insts
  <1>7. G = [a \in 1..k + 1 |-> G[a]] /\ \A a \in 1..k + 1 : G[a] = InstBytes(W[a])
    BY <1>5 DEF Insts
  <1> HIDE DEF F, G, V, W, k, b
  <1>8. (\A a \in 1..k : a \in 1..k + 1) /\ k + 1 \in 1..k + 1
    BY <1>3
  <1>9. (\A a \in 1..k : G[a] = F[a]) /\ G[k + 1] = InstBytes(x)
    BY <1>5, <1>6, <1>7, <1>8, Zenon
  <1>10. ListAt(f, j, i + k, G, r)
    <2>1. GoesOn(F, G, k)
      BY <1>6, <1>7, <1>9 DEF GoesOn, IsOn
    <2> QED BY <1>1, <1>3, <1>9, <2>1, ListGrowsBy
  <1>11. i - 1 + Len(W) = i + k
    BY <1>3, <1>5
  <1> QED BY <1>1, <1>2, <1>4, <1>10, <1>11 DEF InInsts, G, W

LEMMA BlockEnds ==
    ASSUME NEW f, NEW at, NEW fn, NEW n, NEW q, InInsts(f, at, fn, n, 0, q),
           FunctionShape(fn), Len(fn.blocks) > 0,
           NEW t, But(fn, t, "blocks"), NEW c, Changes(fn.blocks, t.blocks, c), But(LastBlock(fn), c, "term"),
           NEW r, Lies(f, q, TermWritten(c.term), r)
    PROVE  InBlocks(f, at, t, n, r)
  <1> DEFINE b == LastBlock(fn)
             k == Len(fn.blocks)
  <1>1. PICK m, u, j : /\ Lies(f, at, FnHead(fn), m)
                       /\ ListAt(f, m, n + Len(fn.blocks), BlocksBefore(fn), u)
                       /\ Lies(f, u, BlockHead(b), j) /\ ListAt(f, j, 0 + Len(b.insts), Insts(b.insts), q)
    BY DEF InInsts
  <1>2. /\ FnHead(t) = FnHead(fn) /\ BlocksBefore(t) = BlocksBefore(fn) /\ LastBlock(t) = c
        /\ Len(t.blocks) = k /\ k \in Nat /\ BlockShape(b)
    BY LastChanges
  <1>3. BlockHead(c) = BlockHead(b) /\ c.insts = b.insts
    <2>1. But(b, c, "term")
      OBVIOUS
    <2> HIDE DEF b
    <2>2. c.name = b.name /\ c.params = b.params /\ c.insts = b.insts
      BY <1>2, <2>1, BlkRest DEF BlockShape
    <2> QED BY <2>2 DEF BlockHead
  <1>4. Lies(f, j, List(b.insts, InstBytes), q)
    <2>1. IsSeq(b.insts) /\ Len(b.insts) \in Nat
      BY <1>2, SeqAny DEF BlockShape
    <2>2. 0 + Len(b.insts) = Len(b.insts)
      BY <2>1
    <2>3. Lies(f, j, U32(Len(b.insts)) \o FlattenSeq(Insts(b.insts)), q)
      BY <1>1, <2>2, ListEnds
    <2> QED BY <2>1, <2>3, ListsAre
  <1> HIDE DEF b
  <1>5. Lies(f, u, BlockHead(b) \o List(b.insts, InstBytes), q)
    BY <1>1, <1>4, LiesJoin
  <1>6. Lies(f, u, BlockBytes(c), r)
    <2>1. Lies(f, u, (BlockHead(c) \o List(c.insts, InstBytes)) \o TermWritten(c.term), r)
      BY <1>3, <1>5, LiesJoin
    <2>2. BlockBytes(c) = (BlockHead(c) \o List(c.insts, InstBytes)) \o TermWritten(c.term)
      BY DEF BlockBytes, BlockHead, TermWritten
    <2> QED BY <2>1, <2>2
  <1> DEFINE F == BlocksBefore(t)
             G == FnBlocks(t)
             h == k - 1
  <1>7. h \in Nat /\ h + 1 = k /\ t.blocks[k] = c
    BY <1>2 DEF LastBlock
  <1>8. F = [a \in 1..h |-> F[a]] /\ \A a \in 1..h : F[a] = BlockBytes(t.blocks[a])
    BY <1>2 DEF BlocksBefore, Blocks
  <1>9. G = [a \in 1..k |-> G[a]] /\ \A a \in 1..k : G[a] = BlockBytes(t.blocks[a])
    BY <1>2 DEF FnBlocks, Blocks
  <1> HIDE DEF F, G, h, k
  <1>10. (\A a \in 1..h : a \in 1..k) /\ k \in 1..k
    BY <1>7
  <1>11. (\A a \in 1..h : G[a] = F[a]) /\ G[h + 1] = BlockBytes(c)
    BY <1>7, <1>8, <1>9, <1>10, Zenon
  <1>12. GoesOn(F, G, h)
    BY <1>7, <1>8, <1>9, <1>11 DEF GoesOn, IsOn
  <1>13. ListAt(f, m, n + Len(fn.blocks), F, u)
    BY <1>1, <1>2 DEF F
  <1>14. ListAt(f, m, n + Len(fn.blocks), G, r)
    BY <1>6, <1>7, <1>11, <1>12, <1>13, ListGrowsBy
  <1> QED BY <1>1, <1>2, <1>14 DEF InBlocks, G, k

LEMMA FunctionEnds ==
    ASSUME NEW f, NEW at, NEW fn, NEW q, InBlocks(f, at, fn, 0, q), FunctionShape(fn)
    PROVE  Lies(f, at, FunctionBytes(fn), q)
  <1>1. PICK b : Lies(f, at, FnHead(fn), b) /\ ListAt(f, b, 0 + Len(fn.blocks), FnBlocks(fn), q)
    BY DEF InBlocks
  <1>2. IsSeq(fn.blocks) /\ Len(fn.blocks) \in Nat
    BY SeqAny DEF FunctionShape
  <1>3. 0 + Len(fn.blocks) = Len(fn.blocks)
    BY <1>2
  <1>4. Lies(f, b, U32(Len(fn.blocks)) \o FlattenSeq(FnBlocks(fn)), q)
    BY <1>1, <1>3, ListEnds
  <1>5. Lies(f, b, List(fn.blocks, BlockBytes), q)
    BY <1>2, <1>4, ListsAre DEF FnBlocks
  <1>6. Lies(f, at, FnHead(fn) \o List(fn.blocks, BlockBytes), q)
    BY <1>1, <1>5, LiesJoin
  <1> QED BY <1>6 DEF FunctionBytes, FnHead, SignatureBytes


-----------------------------------------------------------------------------
(* The sections before the one that is read                                *)

Body(o, i) ==
    CASE i = 1 -> ModuleBytes(o)
      [] i = 2 -> SymbolList(o.symbols)
      [] i = 3 -> List(o.types, TypeBytes)
      [] i = 4 -> List(o.constants, ConstBytes)
      [] i = 5 -> List(o.functions, FunctionBytes)
\* The header h and the first k sections.
Upto1(h, o) == h \o Section(1, Body(o, 1))
Upto2(h, o) == Upto1(h, o) \o Section(2, Body(o, 2))
Upto3(h, o) == Upto2(h, o) \o Section(3, Body(o, 3))
Upto4(h, o) == Upto3(h, o) \o Section(4, Body(o, 4))
Upto5(h, o) == Upto4(h, o) \o Section(5, Body(o, 5))
Upto(h, o, k) ==
    CASE k = 0 -> h
      [] k = 1 -> Upto1(h, o)
      [] k = 2 -> Upto2(h, o)
      [] k = 3 -> Upto3(h, o)
      [] k = 4 -> Upto4(h, o)
      [] k = 5 -> Upto5(h, o)
LEMMA UptoStep ==
    ASSUME NEW h, NEW o, NEW k \in 1..5
    PROVE  Upto(h, o, 0) = h /\ Upto(h, o, k) = Upto(h, o, k - 1) \o Section(k, Body(o, k))
  <1>1. /\ Upto(h, o, 0) = h /\ Upto(h, o, 1) = Upto1(h, o) /\ Upto(h, o, 2) = Upto2(h, o)
        /\ Upto(h, o, 3) = Upto3(h, o) /\ Upto(h, o, 4) = Upto4(h, o) /\ Upto(h, o, 5) = Upto5(h, o)
    BY DEF Upto
  <1>2. k \in {1, 2, 3, 4, 5}
    OBVIOUS
  <1>3. /\ k = 1 => k - 1 = 0
        /\ k = 2 => k - 1 = 1
        /\ k = 3 => k - 1 = 2
        /\ k = 4 => k - 1 = 3
        /\ k = 5 => k - 1 = 4
    OBVIOUS
  <1>4. Upto(h, o, k) = Upto(h, o, k - 1) \o Section(k, Body(o, k))
    <2>1. CASE k = 1
      BY <1>1, <1>3, <2>1, Zenon DEF Upto1
    <2>2. CASE k = 2
      BY <1>1, <1>3, <2>2, Zenon DEF Upto2
    <2>3. CASE k = 3
      BY <1>1, <1>3, <2>3, Zenon DEF Upto3
    <2>4. CASE k = 4
      BY <1>1, <1>3, <2>4, Zenon DEF Upto4
    <2>5. CASE k = 5
      BY <1>1, <1>3, <2>5, Zenon DEF Upto5
    <2> QED BY <1>2, <2>1, <2>2, <2>3, <2>4, <2>5
  <1> QED BY <1>1, <1>4
SameBodies(o, t, k) == \A i \in 1..k : Body(t, i) = Body(o, i)
LEMMA UptoSame ==
    ASSUME NEW h, NEW o, NEW t, NEW k \in 0..5, SameBodies(o, t, k)
    PROVE  Upto(h, t, k) = Upto(h, o, k)
  <1> DEFINE G == {n \in 0..5 : n <= k => Upto(h, t, n) = Upto(h, o, n)}
  <1>1. 0 \in G
    BY UptoStep
  <1>2. ASSUME NEW n \in 1..5, n - 1 \in G PROVE n \in G
    <2> SUFFICES ASSUME n <= k PROVE Upto(h, t, n) = Upto(h, o, n)
      OBVIOUS
    <2>1. n - 1 <= k /\ n \in 1..k
      OBVIOUS
    <2>2. Upto(h, t, n - 1) = Upto(h, o, n - 1) /\ Body(t, n) = Body(o, n)
      BY <1>2, <2>1 DEF SameBodies
    <2>3. /\ Upto(h, o, n) = Upto(h, o, n - 1) \o Section(n, Body(o, n))
          /\ Upto(h, t, n) = Upto(h, t, n - 1) \o Section(n, Body(t, n))
      BY UptoStep
    <2> QED BY <2>2, <2>3, Zenon
  <1>3. \A n \in 0..5 : n \in G
    <2> HIDE DEF G
    <2> QED BY <1>1, <1>2, UpTo
  <1> QED BY <1>3

\* A body is what the tables of the module make it.
LEMMA BodiesAre ==
    ASSUME NEW o, NEW t
    PROVE  /\ t.major = o.major /\ t.minor = o.minor /\ t.name = o.name => Body(t, 1) = Body(o, 1)
           /\ t.symbols = o.symbols => Body(t, 2) = Body(o, 2)
           /\ t.types = o.types => Body(t, 3) = Body(o, 3)
           /\ t.constants = o.constants => Body(t, 4) = Body(o, 4)
  BY DEF Body, ModuleBytes
LEMMA BodiesStay ==
    ASSUME Cursor, Shape, Room, [Next]_vars
    PROVE  (section' = section /\ SameBodies(out, out', section - 1)) \/ CloseSection
  <1>1. section \in 1..5 /\ \A i \in 1..section - 1 : i \in {1, 2, 3, 4} /\ i < section
    BY DEF Cursor
  <1>2. out' = out => SameBodies(out, out', section - 1)
    BY DEF SameBodies
  <1>3. ASSUME NEW k \in 2..5, section = k, NEW name, But(out, out', name),
               name = CASE k = 2 -> "symbols" [] k = 3 -> "types" [] k = 4 -> "constants" [] k = 5 -> "functions"
        PROVE  SameBodies(out, out', section - 1)
    <2>1. k \in {2, 3, 4, 5} /\ name \notin {"major", "minor", "name"}
          /\ (k > 2 => name # "symbols") /\ (k > 3 => name # "types") /\ (k > 4 => name # "constants")
      BY <1>3
    <2>2. /\ out.major' = out.major /\ out.minor' = out.minor /\ out.name' = out.name
          /\ (k > 2 => out.symbols' = out.symbols) /\ (k > 3 => out.types' = out.types)
          /\ (k > 4 => out.constants' = out.constants)
      BY <1>3, <2>1, OutRest DEF Shape
    <2>3. /\ Body(out', 1) = Body(out, 1) /\ (k > 2 => Body(out', 2) = Body(out, 2))
          /\ (k > 3 => Body(out', 3) = Body(out, 3)) /\ (k > 4 => Body(out', 4) = Body(out, 4))
      BY <2>2, BodiesAre
    <2> QED BY <1>1, <1>3, <2>3 DEF SameBodies
  <1>4. CASE ReadHeader \/ OpenSection \/ ReadCount \/ ReadBlockCount \/ EndFunction \/ Finish \/ Reject
             \/ Returned \/ UNCHANGED vars
    BY <1>2, <1>4 DEF ReadHeader, OpenSection, ReadCount, ReadBlockCount, EndFunction, Finish, Reject,
                      Returned, vars
  <1>5. CASE ReadModule
    <2>1. section = 1 /\ section' = section
      BY <1>5 DEF ReadModule
    <2> QED BY <2>1 DEF SameBodies
  <1>6. CASE ReadSymbol
    <2>1. section = 2 /\ section' = section /\ But(out, out', "symbols")
      BY <1>6, ReadsSymbol DEF ReadSymbol, ListGrew
    <2> QED BY <1>3, <2>1
  <1>7. CASE ReadType
    <2>1. PICK r \in TypeEntry : out' = [out EXCEPT !["types"] = Intern(out["types"], r.val)]
      BY <1>7 DEF ReadType
    <2>2. "types" \in OutNames
      BY DEF OutNames
    <2>3. But(out, out', "types") /\ section' = section /\ section = 3
      BY <1>7, <2>1, <2>2, OutStep DEF ReadType
    <2> QED BY <1>3, <2>3
  <1>8. CASE ReadConstant
    <2>1. section = 4 /\ section' = section /\ But(out, out', "constants")
      BY <1>8, ReadsConstant DEF ReadConstant, ListGrew
    <2> QED BY <1>3, <2>1
  <1>9. CASE ReadFunction \/ ReadValue \/ ReadBlock \/ ReadInst \/ ReadTerm
    <2>1. section' = section
      BY <1>9 DEF ReadFunction, ReadValue, ReadBlock, ReadInst, ReadTerm
    <2>2. section = 5
      BY <1>9 DEF ReadFunction, ReadValue, ReadBlock, ReadInst, ReadTerm, At, Room
    <2>3. But(out, out', "functions")
      BY <1>9, ReadsFunction, ReadsValue, ReadsBlock, ReadsAnInst, ReadsATerm
         DEF ListGrew, FnGrew, BlkGrew, BlkChanged, FnChanged
    <2> QED BY <1>3, <2>1, <2>2, <2>3
  <1> QED BY <1>4, <1>5, <1>6, <1>7, <1>8, <1>9 DEF Next

\* A table is empty until its entries are read.
Early == {"header", "open", "start"}
Later(k) == section < k \/ (section = k /\ stage \in Early)
Fresh ==
    /\ Later(2) => Len(out.symbols) = 0
    /\ Later(3) => Len(out.types) = 0
    /\ Later(4) => Len(out.constants) = 0
    /\ Later(5) => Len(out.functions) = 0
LEMMA FreshInit == Init => Fresh
  <1> SUFFICES ASSUME Init PROVE Fresh
    OBVIOUS
  <1>1. out.symbols = <<>> /\ out.types = <<>> /\ out.constants = <<>> /\ out.functions = <<>>
    BY DEF Init
  <1> QED BY <1>1, NoneSeq DEF Fresh
LEMMA FreshNext == Cursor /\ Shape /\ Room /\ Fresh /\ [Next]_vars => Fresh'
  <1> SUFFICES ASSUME Cursor, Shape, Room, Fresh, [Next]_vars PROVE Fresh'
    OBVIOUS
  <1>1. section \in 1..5 /\ IsRecord(out, OutNames)
    BY DEF Cursor, Shape
  <1>2. ASSUME section' = section, stage' \in Early => stage \in Early, out' = out PROVE Fresh'
    BY <1>2 DEF Fresh, Later
  <1>3. "entries" \notin Early /\ InFunctionStages \cap Early = {} /\ InFunctionStages = {"values", "blocks", "insts"}
        /\ Early = {"header", "open", "start"}
    BY DEF Early, InFunctionStages
  <1>4. \A r, s : Advance(r, s) => stage' = s
    BY DEF Advance
  <1>5. CASE ReadHeader \/ OpenSection
    BY <1>2, <1>3, <1>4, <1>5 DEF ReadHeader, OpenSection, At
  <1>6. CASE ReadCount
    BY <1>2, <1>3, <1>4, <1>6 DEF ReadCount
  <1>7. CASE ReadBlockCount
    BY <1>2, <1>3, <1>4, <1>7 DEF ReadBlockCount
  <1>8. CASE EndFunction
    BY <1>2, <1>3, <1>8 DEF EndFunction
  <1>9. CASE Finish \/ Reject \/ Returned \/ UNCHANGED vars
    BY <1>2, <1>9 DEF Finish, Reject, Returned, vars
  <1>10. CASE CloseSection
    <2>1. section' = section + 1 /\ out' = out
      BY <1>10 DEF CloseSection
    <2>2. \A k \in 2..5 : Later(k)' => Later(k)
      BY <1>1, <2>1 DEF Later
    <2> QED BY <2>1, <2>2 DEF Fresh
  <1>11. CASE ReadModule
    <2>1. PICK r \in ModuleEntry :
             /\ Advance(r, "entries")
             /\ out' = [out EXCEPT !.major = r.val.major, !.minor = r.val.minor, !.name = r.val.name]
      BY <1>11 DEF ReadModule
    <2>2. /\ out'.symbols = out.symbols /\ out'.types = out.types
          /\ out'.constants = out.constants /\ out'.functions = out.functions
      BY <2>1
    <2>3. section = 1 /\ section' = section
      BY <1>11 DEF ReadModule
    <2> QED BY <2>2, <2>3 DEF Fresh, Later
  <1>12. ASSUME NEW k \in 2..5, section = k, section' = section, stage' \notin Early, NEW name, But(out, out', name),
                name = CASE k = 2 -> "symbols" [] k = 3 -> "types" [] k = 4 -> "constants" [] k = 5 -> "functions"
         PROVE  Fresh'
    <2>1. /\ k # 2 => out'.symbols = out.symbols
          /\ k # 3 => out'.types = out.types
          /\ k # 4 => out'.constants = out.constants
          /\ k # 5 => out'.functions = out.functions
      <3>1. /\ k # 2 => name # "symbols"
            /\ k # 3 => name # "types"
            /\ k # 4 => name # "constants"
            /\ k # 5 => name # "functions"
        BY <1>12
      <3> QED BY <1>1, <1>12, <3>1, OutRest
    <2>2. \A m \in 2..5 : Later(m)' => k < m /\ Later(m)
      BY <1>12 DEF Later
    <2> QED BY <2>1, <2>2 DEF Fresh
  <1>13. CASE ReadSymbol
    <2>1. /\ section = 2 /\ section' = section /\ But(out, out', "symbols") /\ stage' = "entries"
      BY <1>4, <1>13, ReadsSymbol DEF ReadSymbol, ListGrew
    <2> QED BY <1>3, <1>12, <2>1
  <1>14. CASE ReadType
    <2>1. PICK r \in TypeEntry : /\ Advance(r, "entries")
                                 /\ out' = [out EXCEPT !["types"] = Intern(out["types"], r.val)]
      BY <1>14 DEF ReadType
    <2>2. "types" \in OutNames /\ stage' = "entries"
      BY <1>4, <2>1 DEF OutNames
    <2>3. But(out, out', "types") /\ section' = section /\ section = 3
      BY <1>14, <2>1, <2>2, OutStep DEF ReadType
    <2> QED BY <1>3, <1>12, <2>2, <2>3
  <1>15. CASE ReadConstant
    <2>1. /\ section = 4 /\ section' = section /\ But(out, out', "constants") /\ stage' = "entries"
      BY <1>4, <1>15, ReadsConstant DEF ReadConstant, ListGrew
    <2> QED BY <1>3, <1>12, <2>1
  <1>16. CASE ReadFunction \/ ReadValue \/ ReadBlock \/ ReadInst \/ ReadTerm
    <2>1. section' = section
      BY <1>16 DEF ReadFunction, ReadValue, ReadBlock, ReadInst, ReadTerm
    <2>2. section = 5
      BY <1>16 DEF ReadFunction, ReadValue, ReadBlock, ReadInst, ReadTerm, At, Room
    <2>3. But(out, out', "functions")
      BY <1>16, ReadsFunction, ReadsValue, ReadsBlock, ReadsAnInst, ReadsATerm
         DEF ListGrew, FnGrew, BlkGrew, BlkChanged, FnChanged
    <2>4. stage' \in {"values", "insts", "blocks"}
      BY <1>4, <1>16 DEF ReadFunction, ReadValue, ReadBlock, ReadInst, ReadTerm
    <2> QED BY <1>3, <1>12, <2>1, <2>2, <2>3, <2>4
  <1> QED BY <1>5, <1>6, <1>7, <1>8, <1>9, <1>10, <1>11, <1>13, <1>14, <1>15, <1>16 DEF Next
LEMMA FreshAlways == Spec => []Fresh
  <1>1. Cursor /\ Shape /\ Room /\ Fresh /\ [Next]_vars => Fresh'
    BY FreshNext
  <1> QED BY FreshInit, <1>1, CursorAlways, ShapeAlways, RoomAlways, PTL DEF Spec


-----------------------------------------------------------------------------
(* The section that is read                                                *)

InEntries(f, i, o, n, s, q) ==
    /\ i = 1 => Lies(f, s, ModuleBytes(o), q)
    /\ i = 2 => ListAt(f, s, n + Len(o.symbols), SymbolNames(o.symbols), q)
    /\ i = 3 => ListAt(f, s, n + Len(o.types), TypesOf(o.types), q)
    /\ i = 4 => ListAt(f, s, n + Len(o.constants), ConstantsOf(o.constants), q)
    /\ i = 5 => ListAt(f, s, n + Len(o.functions), Functions(o.functions, Len(o.functions)), q)
\* The functions before the last, and that one as far as it is read.
InLast(f, at, fn, l, st, q) ==
    /\ st = "values" => InValues(f, at, fn, l.values, q)
    /\ st = "blocks" => InBlocks(f, at, fn, l.blocks, q)
    /\ st = "insts" => InInsts(f, at, fn, l.blocks, l.insts, q)
Before(f, F, n, s, at) == ListAt(f, s, n + Len(F), Functions(F, Len(F) - 1), at)
InFunctions(f, F, l, st, s, q) ==
    \E at : Before(f, F, l.entries, s, at) /\ InLast(f, at, F[Len(F)], l, st, q)
Inside(s) ==
    /\ stage = "start" => pos = s
    /\ stage = "entries" => InEntries(bytes, section, out, left.entries, s, pos)
    /\ stage \in InFunctionStages => InFunctions(bytes, out.functions, left, stage, s, pos)

LEMMA TableGoesOn ==
    ASSUME NEW f, NEW s, NEW n \in Int, NEW k \in Nat, NEW F, NEW q, ListAt(f, s, n + k, F, q),
           NEW G, GoesOn(F, G, k), NEW r, Lies(f, q, G[k + 1], r)
    PROVE  ListAt(f, s, n - 1 + (k + 1), G, r)
  <1>1. n - 1 + (k + 1) = n + k
    OBVIOUS
  <1>2. ListAt(f, s, n + k, G, r)
    BY ListGrowsBy
  <1> QED BY <1>1, <1>2

LEMMA LeftFacts ==
    ASSUME Room
    PROVE  /\ left.entries \in Nat /\ left.values \in Nat /\ left.blocks \in Nat /\ left.insts \in Nat
           /\ DOMAIN left = {"entries", "values", "blocks", "insts"}
  BY DEF Room, Lefts

LEMMA ModuleInside ==
    ASSUME Cursor, Shape, ReadModule, NEW s, Inside(s)
    PROVE  Inside(s)'
  <1>1. PICK r \in ModuleEntry :
           /\ Advance(r, "entries")
           /\ out' = [out EXCEPT !.major = r.val.major, !.minor = r.val.minor, !.name = r.val.name]
    BY DEF ReadModule
  <1>2. section = 1 /\ section' = 1 /\ stage = "start" /\ pos = s
    BY DEF ReadModule, At, Inside
  <1>3. stage' = "entries" /\ bytes' = bytes /\ pos' = r.pos
    BY <1>1 DEF Advance, file
  <1>4. Ends(pos, ModuleBytes(r.val), r.pos)
    BY CursorFile, ModuleRead
  <1>5. {"major", "minor", "name"} \subseteq DOMAIN out
    BY DEF Shape, IsRecord, OutNames
  <1>6. out.major' = r.val.major /\ out.minor' = r.val.minor /\ out.name' = r.val.name
    BY <1>1, <1>5
  <1>7. ModuleBytes(out') = ModuleBytes(r.val)
    BY <1>6 DEF ModuleBytes
  <1>8. Lies(bytes', s, ModuleBytes(out'), pos')
    BY <1>2, <1>3, <1>4, <1>7, CursorFile, LiesEnds
  <1>9. InEntries(bytes', section', out', left.entries', s, pos')
    BY <1>2, <1>8 DEF InEntries
  <1> QED BY <1>3, <1>9 DEF Inside, InFunctionStages

LEMMA CountInside ==
    ASSUME Cursor, Shape, Room, Fresh, ReadCount, NEW s, Inside(s)
    PROVE  Inside(s)'
  <1>1. PICK r \in CountEntry : Advance(r, "entries") /\ left' = [left EXCEPT !.entries = r.val]
    BY DEF ReadCount
  <1>2. section \in 2..5 /\ section' = section /\ stage = "start" /\ pos = s /\ out' = out
    BY DEF ReadCount, At, Inside, Cursor
  <1>3. stage' = "entries" /\ bytes' = bytes /\ pos' = r.pos /\ left.entries' = r.val
    BY <1>1, LeftFacts DEF Advance, file
  <1>4. FitsIn(r.val, W32) /\ Result(r, pos, r.val, U32(r.val))
    BY <1>2, CursorFile, CountRead
  <1> DEFINE n == r.val
  <1>5. Lies(bytes, s, U32(n), r.pos) /\ n \in Nat
    BY <1>2, <1>4, CursorFile, LiesEnds, ResultIs DEF FitsIn
  <1> HIDE DEF n
  <1>6. ListAt(bytes, s, n, <<>>, r.pos) /\ n + 0 = n
    BY <1>5, ListStarts
  <1>7. /\ section = 2 => Len(out.symbols) = 0
        /\ section = 3 => Len(out.types) = 0
        /\ section = 4 => Len(out.constants) = 0
        /\ section = 5 => Len(out.functions) = 0
    BY <1>2 DEF Fresh, Later, Early
  <1>8. ASSUME NEW l, Len(l) = 0
        PROVE  SymbolNames(l) = <<>> /\ TypesOf(l) = <<>> /\ ConstantsOf(l) = <<>> /\ Functions(l, Len(l)) = <<>>
    BY <1>8 DEF SymbolNames, TypesOf, ConstantsOf, Functions
  <1>9. InEntries(bytes, section, out, n, s, r.pos)
    BY <1>2, <1>6, <1>7, <1>8 DEF InEntries
  <1>10. InEntries(bytes', section', out', left.entries', s, pos')
    BY <1>2, <1>3, <1>9 DEF n
  <1> QED BY <1>3, <1>10 DEF Inside, InFunctionStages

\* The bytes of one table with one entry more.
LEMMA TablesGoOn ==
    ASSUME NEW T, IsSeq(T), NEW U, NEW d, Grows(T, U, d)
    PROVE  /\ Len(T) \in Nat /\ Len(U) = Len(T) + 1
           /\ GoesOn(SymbolNames(T), SymbolNames(U), Len(T)) /\ SymbolNames(U)[Len(T) + 1] = List(d, U8)
           /\ GoesOn(TypesOf(T), TypesOf(U), Len(T)) /\ TypesOf(U)[Len(T) + 1] = TypeBytes(d)
           /\ GoesOn(ConstantsOf(T), ConstantsOf(U), Len(T)) /\ ConstantsOf(U)[Len(T) + 1] = ConstBytes(d)
  <1> DEFINE k == Len(T)
             n == Len(U)
  <1>1. k \in Nat /\ n = k + 1 /\ U[k + 1] = d /\ \A i \in 1..k : U[i] = T[i]
    BY SeqAny DEF Grows
  <1>2. /\ SymbolNames(T) = [i \in 1..k |-> List(T[i], U8)] /\ SymbolNames(U) = [i \in 1..n |-> List(U[i], U8)]
        /\ TypesOf(T) = [i \in 1..k |-> TypeBytes(T[i])] /\ TypesOf(U) = [i \in 1..n |-> TypeBytes(U[i])]
        /\ ConstantsOf(T) = [i \in 1..k |-> ConstBytes(T[i])] /\ ConstantsOf(U) = [i \in 1..n |-> ConstBytes(U[i])]
    BY DEF SymbolNames, TypesOf, ConstantsOf
  <1> HIDE DEF k, n
  <1>3. (\A i \in 1..k : i \in 1..k + 1) /\ k + 1 \in 1..k + 1
    BY <1>1
  <1>4. GoesOn(SymbolNames(T), SymbolNames(U), k) /\ SymbolNames(U)[k + 1] = List(d, U8)
    BY <1>1, <1>2, <1>3 DEF GoesOn, IsOn
  <1>5. GoesOn(TypesOf(T), TypesOf(U), k) /\ TypesOf(U)[k + 1] = TypeBytes(d)
    BY <1>1, <1>2, <1>3 DEF GoesOn, IsOn
  <1>6. GoesOn(ConstantsOf(T), ConstantsOf(U), k) /\ ConstantsOf(U)[k + 1] = ConstBytes(d)
    BY <1>1, <1>2, <1>3 DEF GoesOn, IsOn
  <1> QED BY <1>1, <1>4, <1>5, <1>6 DEF k, n

LEMMA SymbolInside ==
    ASSUME Cursor, Shape, Room, ReadSymbol, NEW s, Inside(s)
    PROVE  Inside(s)'
  <1>1. PICK r \in SymbolEntry : Advance(r, "entries") /\ ListGrew("symbols", r.val)
    BY ReadsSymbol
  <1> DEFINE T == out.symbols
             U == out.symbols'
             d == r.val
             n == left.entries
  <1>2. section = 2 /\ section' = 2 /\ stage = "entries" /\ stage' = "entries" /\ bytes' = bytes /\ pos' = r.pos
    BY <1>1 DEF ReadSymbol, At, Advance, file
  <1>3. left.entries' = n - 1 /\ n \in Nat
    BY LeftFacts DEF ReadSymbol, OneLess
  <1>4. ListAt(bytes, s, n + Len(T), SymbolNames(T), pos)
    BY <1>2 DEF Inside, InEntries
  <1>5. Result(r, pos, d, List(d, U8))
    BY CursorFile, SymbolRead
  <1>6. Lies(bytes, pos, List(d, U8), r.pos)
    BY <1>5, CursorFile, LiesEnds, ResultIs
  <1>7. IsSeq(T) /\ Grows(T, U, d)
    BY <1>1 DEF Shape, ListGrew
  <1> HIDE DEF T, U, d, n
  <1>8. ListAt(bytes, s, n - 1 + (Len(T) + 1), SymbolNames(U), r.pos) /\ Len(U) = Len(T) + 1
    <2>1. /\ Len(T) \in Nat /\ Len(U) = Len(T) + 1
          /\ GoesOn(SymbolNames(T), SymbolNames(U), Len(T)) /\ SymbolNames(U)[Len(T) + 1] = List(d, U8)
      BY <1>7, TablesGoOn
    <2>2. Lies(bytes, pos, SymbolNames(U)[Len(T) + 1], r.pos)
      BY <1>6, <2>1
    <2> DEFINE F == SymbolNames(T)
               G == SymbolNames(U)
               k == Len(T)
    <2> HIDE DEF F, G, k
    <2>3. /\ n \in Int /\ k \in Nat /\ ListAt(bytes, s, n + k, F, pos) /\ GoesOn(F, G, k)
          /\ Lies(bytes, pos, G[k + 1], r.pos)
      BY <1>3, <1>4, <2>1, <2>2 DEF F, G, k
    <2>4. ListAt(bytes, s, n - 1 + (k + 1), G, r.pos)
      BY <2>3, TableGoesOn
    <2>5. ListAt(bytes, s, n - 1 + (Len(T) + 1), SymbolNames(U), r.pos)
      BY <2>4 DEF G, k
    <2> QED BY <2>1, <2>5
  <1>9. ListAt(bytes', s, left.entries' + Len(out'.symbols), SymbolNames(out'.symbols), pos')
    BY <1>2, <1>3, <1>8 DEF U
  <1>10. InEntries(bytes', section', out', left.entries', s, pos')
    BY <1>2, <1>9 DEF InEntries
  <1> QED BY <1>2, <1>10 DEF Inside, InFunctionStages

LEMMA TypeInside ==
    ASSUME Cursor, Shape, Room, Tables, ReadType, NEW s, Inside(s)
    PROVE  Inside(s)'
  <1>1. PICK r \in TypeEntry : Advance(r, "entries") /\ ListGrew("types", r.val)
    BY ReadsAType DEF Tables
  <1> DEFINE T == out.types
             U == out.types'
             d == r.val
             n == left.entries
  <1>2. section = 3 /\ section' = 3 /\ stage = "entries" /\ stage' = "entries" /\ bytes' = bytes /\ pos' = r.pos
    BY <1>1 DEF ReadType, At, Advance, file
  <1>3. left.entries' = n - 1 /\ n \in Nat
    BY LeftFacts DEF ReadType, OneLess
  <1>4. ListAt(bytes, s, n + Len(T), TypesOf(T), pos)
    BY <1>2 DEF Inside, InEntries
  <1>5. Result(r, pos, d, TypeBytes(d))
    BY CursorFile, TypeRead
  <1>6. Lies(bytes, pos, TypeBytes(d), r.pos)
    BY <1>5, CursorFile, LiesEnds, ResultIs
  <1>7. IsSeq(T) /\ Grows(T, U, d)
    BY <1>1 DEF Shape, ListGrew
  <1> HIDE DEF T, U, d, n
  <1>8. ListAt(bytes, s, n - 1 + (Len(T) + 1), TypesOf(U), r.pos) /\ Len(U) = Len(T) + 1
    <2>1. /\ Len(T) \in Nat /\ Len(U) = Len(T) + 1
          /\ GoesOn(TypesOf(T), TypesOf(U), Len(T)) /\ TypesOf(U)[Len(T) + 1] = TypeBytes(d)
      BY <1>7, TablesGoOn
    <2>2. Lies(bytes, pos, TypesOf(U)[Len(T) + 1], r.pos)
      BY <1>6, <2>1
    <2> DEFINE F == TypesOf(T)
               G == TypesOf(U)
               k == Len(T)
    <2> HIDE DEF F, G, k
    <2>3. /\ n \in Int /\ k \in Nat /\ ListAt(bytes, s, n + k, F, pos) /\ GoesOn(F, G, k)
          /\ Lies(bytes, pos, G[k + 1], r.pos)
      BY <1>3, <1>4, <2>1, <2>2 DEF F, G, k
    <2>4. ListAt(bytes, s, n - 1 + (k + 1), G, r.pos)
      BY <2>3, TableGoesOn
    <2>5. ListAt(bytes, s, n - 1 + (Len(T) + 1), TypesOf(U), r.pos)
      BY <2>4 DEF G, k
    <2> QED BY <2>1, <2>5
  <1>9. ListAt(bytes', s, left.entries' + Len(out'.types), TypesOf(out'.types), pos')
    BY <1>2, <1>3, <1>8 DEF U
  <1>10. InEntries(bytes', section', out', left.entries', s, pos')
    BY <1>2, <1>9 DEF InEntries
  <1> QED BY <1>2, <1>10 DEF Inside, InFunctionStages

LEMMA ConstantInside ==
    ASSUME Cursor, Shape, Room, ReadConstant, NEW s, Inside(s)
    PROVE  Inside(s)'
  <1>1. PICK r \in ConstantEntry : Advance(r, "entries") /\ ListGrew("constants", r.val)
    BY ReadsConstant
  <1> DEFINE T == out.constants
             U == out.constants'
             d == r.val
             n == left.entries
  <1>2. section = 4 /\ section' = 4 /\ stage = "entries" /\ stage' = "entries" /\ bytes' = bytes /\ pos' = r.pos
    BY <1>1 DEF ReadConstant, At, Advance, file
  <1>3. left.entries' = n - 1 /\ n \in Nat
    BY LeftFacts DEF ReadConstant, OneLess
  <1>4. ListAt(bytes, s, n + Len(T), ConstantsOf(T), pos)
    BY <1>2 DEF Inside, InEntries
  <1>5. Result(r, pos, d, ConstBytes(d))
    BY CursorFile, ConstantRead
  <1>6. Lies(bytes, pos, ConstBytes(d), r.pos)
    BY <1>5, CursorFile, LiesEnds, ResultIs
  <1>7. IsSeq(T) /\ Grows(T, U, d)
    BY <1>1 DEF Shape, ListGrew
  <1> HIDE DEF T, U, d, n
  <1>8. ListAt(bytes, s, n - 1 + (Len(T) + 1), ConstantsOf(U), r.pos) /\ Len(U) = Len(T) + 1
    <2>1. /\ Len(T) \in Nat /\ Len(U) = Len(T) + 1
          /\ GoesOn(ConstantsOf(T), ConstantsOf(U), Len(T)) /\ ConstantsOf(U)[Len(T) + 1] = ConstBytes(d)
      BY <1>7, TablesGoOn
    <2>2. Lies(bytes, pos, ConstantsOf(U)[Len(T) + 1], r.pos)
      BY <1>6, <2>1
    <2> DEFINE F == ConstantsOf(T)
               G == ConstantsOf(U)
               k == Len(T)
    <2> HIDE DEF F, G, k
    <2>3. /\ n \in Int /\ k \in Nat /\ ListAt(bytes, s, n + k, F, pos) /\ GoesOn(F, G, k)
          /\ Lies(bytes, pos, G[k + 1], r.pos)
      BY <1>3, <1>4, <2>1, <2>2 DEF F, G, k
    <2>4. ListAt(bytes, s, n - 1 + (k + 1), G, r.pos)
      BY <2>3, TableGoesOn
    <2>5. ListAt(bytes, s, n - 1 + (Len(T) + 1), ConstantsOf(U), r.pos)
      BY <2>4 DEF G, k
    <2> QED BY <2>1, <2>5
  <1>9. ListAt(bytes', s, left.entries' + Len(out'.constants), ConstantsOf(out'.constants), pos')
    BY <1>2, <1>3, <1>8 DEF U
  <1>10. InEntries(bytes', section', out', left.entries', s, pos')
    BY <1>2, <1>9 DEF InEntries
  <1> QED BY <1>2, <1>10 DEF Inside, InFunctionStages


LEMMA FunctionInside ==
    ASSUME Cursor, Shape, Room, ReadFunction, NEW s, Inside(s)
    PROVE  Inside(s)'
  <1>1. PICK r \in FunctionEntry :
           /\ Advance(r, "values") /\ ListGrew("functions", r.val.function)
           /\ left' = [left EXCEPT !.entries = @ - 1, !.values = r.val.values]
    BY ReadsFunction
  <1> DEFINE F == out.functions
             G == out.functions'
             fn == r.val.function
             n == left.entries
             k == Len(F)
             m == r.val.values
  <1>2. section = 5 /\ stage = "entries" /\ stage' = "values" /\ bytes' = bytes /\ pos' = r.pos
    BY <1>1 DEF ReadFunction, At, Advance, file
  <1>3. left.entries' = n - 1 /\ left.values' = m /\ n \in Nat
    BY <1>1, LeftFacts
  <1>4. ListAt(bytes, s, n + k, Functions(F, k), pos)
    BY <1>2 DEF Inside, InEntries
  <1>5. PICK h, u : IsHead(r, h, u)
    BY CursorFile, FunctionRead
  <1>6. fn = h /\ m = u
    <2> DEFINE V == [function |-> h, values |-> u]
    <2>1. r = Res(V, r.pos) /\ V.function = h /\ V.values = u
      BY <1>5 DEF IsHead
    <2>2. r.val = V
      <3> HIDE DEF V
      <3> QED BY <2>1 DEF Res
    <2> QED BY <2>1, <2>2
  <1>7. Grows(F, G, fn) /\ IsSeq(F)
    BY <1>1 DEF ListGrew, Shape
  <1> HIDE DEF fn, m, n, F, G
  <1>8. Signed(fn) /\ FitsIn(m, W32) /\ Ends(pos, SignatureBytes(fn) \o U32(m), r.pos)
    BY <1>5, <1>6 DEF IsHead
  <1>9. SignatureBytes(fn) \in Seq(Byte) /\ U32(m) \in Seq(Byte)
    <2>1. SignatureBytes(fn) \in Seq(Byte)
      BY <1>8, CursorFile, SignatureReads
    <2> QED BY <1>8, <2>1, NumberTyped, Sizes DEF U32
  <1>10. PICK v : Ends(pos, SignatureBytes(fn), v) /\ Ends(v, U32(m), r.pos)
    BY <1>8, <1>9, CursorFile, EndsJoins
  <1>11. Lies(bytes, pos, SignatureBytes(fn), v) /\ Lies(bytes, v, U32(m), r.pos)
    BY <1>10, CursorFile, LiesEnds
  <1>12. InValues(bytes, pos, fn, m, r.pos)
    <2>1. fn.values = <<>> /\ fn.blocks = <<>> /\ m \in Nat
      BY <1>8, SignedRecord DEF FitsIn
    <2> QED BY <1>11, <2>1, ValuesStart
  <1>13. k \in Nat /\ Len(G) = k + 1 /\ G[k + 1] = fn /\ \A i \in 1..k : G[i] = F[i]
    BY <1>7, SeqAny DEF Grows
  <1>14. Functions(G, k) = Functions(F, k)
    <2> HIDE DEF k
    <2> QED BY <1>13 DEF Functions
  <1> HIDE DEF k
  <1>15. Len(G) - 1 = k /\ n - 1 + Len(G) = n + k
    BY <1>3, <1>13
  <1>16. Before(bytes, G, n - 1, s, pos)
    BY <1>4, <1>14, <1>15 DEF Before
  <1>17. InLast(bytes, pos, G[Len(G)], left', "values", r.pos)
    BY <1>3, <1>12, <1>13 DEF InLast
  <1>18. InFunctions(bytes, G, left', "values", s, r.pos)
    BY <1>3, <1>16, <1>17 DEF InFunctions
  <1>19. InFunctions(bytes', out'.functions, left', stage', s, pos')
    BY <1>2, <1>18 DEF G
  <1> QED BY <1>2, <1>19 DEF Inside

\* The last function goes on.
LEMMA BeforeStays ==
    ASSUME NEW f, NEW F, IsSeq(F), Len(F) > 0, NEW G, NEW x, Changes(F, G, x),
           NEW n, NEW s, NEW at, Before(f, F, n, s, at)
    PROVE  Before(f, G, n, s, at) /\ G[Len(G)] = x
  <1> DEFINE k == Len(F)
  <1>1. k \in Nat /\ Len(G) = k /\ G[k] = x /\ \A i \in 1..k - 1 : G[i] = F[i]
    BY SeqAny DEF Changes
  <1> HIDE DEF k
  <1>2. Functions(G, k - 1) = Functions(F, k - 1)
    BY <1>1 DEF Functions
  <1> QED BY <1>1, <1>2 DEF Before, k
LEMMA LastGoesOn ==
    ASSUME Shape, Len(out.functions) > 0, stage \in InFunctionStages, stage' \in InFunctionStages,
           NEW name, FnChanged(name), bytes' = bytes, left'.entries = left.entries, NEW s, Inside(s),
           \A at : InLast(bytes, at, Fn, left, stage, pos) => InLast(bytes, at, Fn', left', stage', pos')
    PROVE  Inside(s)'
  <1> DEFINE F == out.functions
             G == out.functions'
             t == Fn'
  <1>1. PICK at : Before(bytes, F, left.entries, s, at) /\ InLast(bytes, at, Fn, left, stage, pos)
    BY DEF Inside, InFunctions, Fn
  <1>2. InLast(bytes, at, t, left', stage', pos')
    BY <1>1
  <1>3. IsSeq(F) /\ Len(F) > 0 /\ Changes(F, G, t)
    BY DEF Shape, FnChanged
  <1> HIDE DEF F, G, t
  <1>4. Before(bytes, G, left.entries, s, at) /\ G[Len(G)] = t
    BY <1>1, <1>3, BeforeStays
  <1>5. InFunctions(bytes, G, left', stage', s, pos')
    BY <1>2, <1>4 DEF InFunctions
  <1>6. InFunctions(bytes', out'.functions, left', stage', s, pos')
    BY <1>5 DEF G
  <1>7. stage' # "start" /\ stage' # "entries"
    BY DEF InFunctionStages
  <1> QED BY <1>6, <1>7 DEF Inside

LEMMA ValueInside ==
    ASSUME Cursor, Shape, Room, ReadValue, NEW s, Inside(s)
    PROVE  Inside(s)'
  <1>1. PICK r \in ValueEntry : Advance(r, "values") /\ FnGrew("values", r.val)
    BY ReadsValue
  <1> DEFINE n == left.values
             x == r.val
             fn == Fn
             t == Fn'
  <1>2. stage = "values" /\ stage' = "values" /\ bytes' = bytes /\ pos' = r.pos
    BY <1>1 DEF ReadValue, At, Advance, file
  <1>3. left.values' = n - 1 /\ n \in Int /\ left'.entries = left.entries
    BY LeftFacts DEF ReadValue, OneLess
  <1>4. Len(out.functions) > 0
    BY <1>2 DEF Shape, InFunctionStages
  <1>5. Lies(bytes, pos, ValueBytes(x), r.pos)
    <2>1. PICK ty, k, m : IsValue(r, ty, k, m)
      BY CursorFile, ValueRead
    <2> DEFINE V == [ty |-> ty, kind |-> k, name |-> m]
    <2>2. /\ r = Res(V, r.pos) /\ V.ty = ty /\ V.kind = k /\ V.name = m
          /\ FitsIn(ty, W32) /\ KindLegal(k) /\ OptLegal(m)
          /\ Ends(pos, U32(ty) \o (KindWritten(k) \o Opt(m)), r.pos)
      BY <2>1 DEF IsValue, OptSymLegal
    <2>3. r.val = V
      <3> HIDE DEF V
      <3> QED BY <2>2 DEF Res
    <2>4. x.ty = ty /\ x.kind = k /\ x.name = m
      BY <2>2, <2>3
    <2> HIDE DEF V, x
    <2>5. U32(ty) \in Seq(Byte) /\ KindWritten(k) \in Seq(Byte) /\ Opt(m) \in Seq(Byte)
      BY <2>2, CursorFile, NumberTyped, Sizes, KindTyped, OptTyped DEF U32
    <2>6. U32(ty) \o (KindWritten(k) \o Opt(m)) = (U32(ty) \o KindWritten(k)) \o Opt(m)
      <3> DEFINE a == U32(ty)
                 b == KindWritten(k)
                 c == Opt(m)
      <3> HIDE DEF a, b, c
      <3>1. a \in Seq(Byte) /\ b \in Seq(Byte) /\ c \in Seq(Byte)
        BY <2>5 DEF a, b, c
      <3>2. a \o (b \o c) = (a \o b) \o c
        BY <3>1, ConcatAssociative
      <3> QED BY <3>2 DEF a, b, c
    <2>7. ValueBytes(x) = (U32(ty) \o KindWritten(k)) \o Opt(m)
      BY <2>4 DEF ValueBytes, KindWritten
    <2>8. Ends(pos, ValueBytes(x), r.pos)
      BY <2>2, <2>6, <2>7
    <2> QED BY <2>8, CursorFile, LiesEnds
  <1>6. But(fn, t, "values") /\ Grows(fn.values, t.values, x) /\ FnChanged("values")
    BY <1>1 DEF FnGrew, FnChanged
  <1>7. FunctionShape(fn)
    BY <1>4, FnShape
  <1> HIDE DEF n, x, fn, t
  <1>8. ASSUME NEW at, InValues(bytes, at, fn, n, pos) PROVE InValues(bytes, at, t, n - 1, r.pos)
    BY <1>3, <1>5, <1>6, <1>7, <1>8, ValuesGoOn
  <1>9. \A at : InLast(bytes, at, fn, left, stage, pos) => InLast(bytes, at, t, left', stage', pos')
    BY <1>2, <1>3, <1>8 DEF InLast, n
  <1> QED BY <1>2, <1>3, <1>4, <1>6, <1>9, LastGoesOn DEF fn, t, InFunctionStages

LEMMA BlockCountInside ==
    ASSUME Cursor, Shape, Room, ReadBlockCount, NEW s, Inside(s)
    PROVE  Inside(s)'
  <1>1. PICK r \in Count(pos, MIN_BLOCK_LEN) : Advance(r, "blocks") /\ left' = [left EXCEPT !.blocks = r.val]
    BY DEF ReadBlockCount
  <1> DEFINE F == out.functions
             fn == Fn
             m == r.val
  <1>2. stage = "values" /\ stage' = "blocks" /\ bytes' = bytes /\ pos' = r.pos /\ out' = out /\ left.values = 0
    BY <1>1 DEF ReadBlockCount, At, Advance, file
  <1>3. left'.blocks = m /\ left'.entries = left.entries
    BY <1>1, LeftFacts
  <1>4. Len(F) > 0
    BY <1>2 DEF Shape, InFunctionStages
  <1>5. FitsIn(m, W32) /\ Result(r, pos, m, U32(m))
    <2>1. MIN_BLOCK_LEN \in Nat
      BY DEF MIN_BLOCK_LEN, W32
    <2> QED BY <2>1, CursorFile, CountReads
  <1>6. Lies(bytes, pos, U32(m), r.pos) /\ m \in Nat
    BY <1>5, CursorFile, LiesEnds, ResultIs DEF FitsIn
  <1>7. FunctionShape(fn) /\ F[Len(F)] = fn
    BY <1>4, FnShape DEF Fn
  <1>8. PICK at : Before(bytes, F, left.entries, s, at) /\ InLast(bytes, at, fn, left, stage, pos)
    BY <1>2, <1>7 DEF Inside, InFunctions, InFunctionStages
  <1> HIDE DEF F, fn, m
  <1>9. InValues(bytes, at, fn, 0, pos)
    BY <1>2, <1>8 DEF InLast
  <1>10. InBlocks(bytes, at, fn, m, r.pos)
    BY <1>6, <1>7, <1>9, BlocksStart
  <1>11. InLast(bytes, at, fn, left', "blocks", r.pos)
    BY <1>3, <1>10 DEF InLast
  <1>12. InFunctions(bytes, F, left', "blocks", s, r.pos)
    BY <1>3, <1>7, <1>8, <1>11 DEF InFunctions
  <1>13. InFunctions(bytes', out'.functions, left', stage', s, pos')
    BY <1>2, <1>12 DEF F
  <1> QED BY <1>2, <1>13 DEF Inside

LEMMA BlockInside ==
    ASSUME Cursor, Shape, Room, ReadBlock, NEW s, Inside(s)
    PROVE  Inside(s)'
  <1>1. PICK r \in BlockEntry :
           /\ Advance(r, "insts") /\ FnGrew("blocks", r.val.block)
           /\ left' = [left EXCEPT !.blocks = @ - 1, !.insts = r.val.insts]
    BY ReadsBlock
  <1> DEFINE n == left.blocks
             x == r.val.block
             m == r.val.insts
             fn == Fn
             t == Fn'
  <1>2. stage = "blocks" /\ stage' = "insts" /\ bytes' = bytes /\ pos' = r.pos
    BY <1>1 DEF ReadBlock, At, Advance, file
  <1>3. left'.blocks = n - 1 /\ left'.insts = m /\ n \in Int /\ left'.entries = left.entries
    BY <1>1, LeftFacts
  <1>4. Len(out.functions) > 0
    BY <1>2 DEF Shape, InFunctionStages
  <1>5. PICK h, u : IsBlock(r, h, u)
    BY CursorFile, BlockRead
  <1>6. x = h /\ m = u
    <2> DEFINE V == [block |-> h, insts |-> u]
    <2>1. r = Res(V, r.pos) /\ V.block = h /\ V.insts = u
      BY <1>5 DEF IsBlock
    <2>2. r.val = V
      <3> HIDE DEF V
      <3> QED BY <2>1 DEF Res
    <2> QED BY <2>1, <2>2
  <1>7. But(fn, t, "blocks") /\ Grows(fn.blocks, t.blocks, x) /\ FnChanged("blocks")
    BY <1>1 DEF FnGrew, FnChanged
  <1>8. FunctionShape(fn)
    BY <1>4, FnShape
  <1> HIDE DEF n, x, m, fn, t
  <1>9. Blocked(x) /\ FitsIn(m, W32) /\ Ends(pos, BlockHead(x) \o U32(m), r.pos)
    BY <1>5, <1>6 DEF IsBlock
  <1>10. BlockHead(x) \in Seq(Byte) /\ U32(m) \in Seq(Byte)
    <2>1. BlockHead(x) \in Seq(Byte)
      BY <1>9, CursorFile, BlockHeads
    <2> QED BY <1>9, <2>1, NumberTyped, Sizes DEF U32
  <1>11. PICK j : Ends(pos, BlockHead(x), j) /\ Ends(j, U32(m), r.pos)
    BY <1>9, <1>10, CursorFile, EndsJoins
  <1>12. Lies(bytes, pos, BlockHead(x), j) /\ Lies(bytes, j, U32(m), r.pos)
    BY <1>11, CursorFile, LiesEnds
  <1>13. x.insts = <<>> /\ m \in Nat
    BY <1>9, BlockedRecord DEF FitsIn
  <1>14. ASSUME NEW at, InBlocks(bytes, at, fn, n, pos) PROVE InInsts(bytes, at, t, n - 1, m, r.pos)
    BY <1>3, <1>7, <1>8, <1>12, <1>13, <1>14, BlockStarts
  <1>15. \A at : InLast(bytes, at, fn, left, stage, pos) => InLast(bytes, at, t, left', stage', pos')
    BY <1>2, <1>3, <1>14 DEF InLast, n
  <1> QED BY <1>2, <1>3, <1>4, <1>7, <1>15, LastGoesOn DEF fn, t, InFunctionStages

LEMMA InstInside ==
    ASSUME Cursor, Shape, Room, ReadInst, NEW s, Inside(s)
    PROVE  Inside(s)'
  <1>1. PICK r \in InstEntry : Advance(r, "insts") /\ BlkGrew("insts", r.val)
    BY ReadsAnInst
  <1> DEFINE n == left.blocks
             i == left.insts
             x == r.val
             fn == Fn
             t == Fn'
             b == Blk
             c == Blk'
  <1>2. stage = "insts" /\ stage' = "insts" /\ bytes' = bytes /\ pos' = r.pos
    BY <1>1 DEF ReadInst, At, Advance, file
  <1>3. left'.insts = i - 1 /\ left'.blocks = n /\ i \in Int /\ left'.entries = left.entries
    BY LeftFacts DEF ReadInst, OneLess
  <1>4. Len(out.functions) > 0 /\ Len(fn.blocks) > 0
    BY <1>2 DEF Shape, InFunctionStages, Fn
  <1>5. Lies(bytes, pos, InstBytes(x), r.pos)
    <2>1. PICK k, m : IsInst(r, k, m)
      BY CursorFile, InstRead
    <2> DEFINE V == [kind |-> k, result |-> m]
    <2>2. r = Res(V, r.pos) /\ V.kind = k /\ V.result = m /\ Ends(pos, InstWritten(k) \o Opt(m), r.pos)
      BY <2>1 DEF IsInst
    <2>3. r.val = V
      <3> HIDE DEF V
      <3> QED BY <2>2 DEF Res
    <2>4. x.kind = k /\ x.result = m
      BY <2>2, <2>3
    <2> HIDE DEF V, x
    <2>5. InstBytes(x) = InstWritten(k) \o Opt(m)
      BY <2>4 DEF InstBytes, InstWritten
    <2> QED BY <2>2, <2>5, CursorFile, LiesEnds
  <1>6. /\ But(fn, t, "blocks") /\ Changes(fn.blocks, t.blocks, c) /\ But(b, c, "insts")
        /\ Grows(b.insts, c.insts, x) /\ FnChanged("blocks")
    BY <1>1 DEF BlkGrew, BlkChanged, FnChanged
  <1>7. FunctionShape(fn) /\ b = LastBlock(fn)
    BY <1>4, FnShape DEF Blk, LastBlock
  <1> HIDE DEF n, i, x, fn, t, b, c
  <1>8. ASSUME NEW at, InInsts(bytes, at, fn, n, i, pos) PROVE InInsts(bytes, at, t, n, i - 1, r.pos)
    BY <1>3, <1>4, <1>5, <1>6, <1>7, <1>8, InstsGoOn
  <1>9. \A at : InLast(bytes, at, fn, left, stage, pos) => InLast(bytes, at, t, left', stage', pos')
    BY <1>2, <1>3, <1>8 DEF InLast, n, i
  <1> QED BY <1>2, <1>3, <1>4, <1>6, <1>9, LastGoesOn DEF fn, t, InFunctionStages

LEMMA TermInside ==
    ASSUME Cursor, Shape, Room, ReadTerm, NEW s, Inside(s)
    PROVE  Inside(s)'
  <1>1. PICK r \in TermEntry : Advance(r, "blocks") /\ BlkChanged("term") /\ Blk.term' = r.val
    BY ReadsATerm
  <1> DEFINE n == left.blocks
             fn == Fn
             t == Fn'
             b == Blk
             c == Blk'
  <1>2. stage = "insts" /\ stage' = "blocks" /\ bytes' = bytes /\ pos' = r.pos /\ left' = left /\ left.insts = 0
    BY <1>1 DEF ReadTerm, At, Advance, file
  <1>3. Len(out.functions) > 0 /\ Len(fn.blocks) > 0
    BY <1>2 DEF Shape, InFunctionStages, Fn
  <1>4. Lies(bytes, pos, TermWritten(c.term), r.pos)
    <2>1. Result(r, pos, r.val, TermWritten(r.val))
      BY CursorFile, TermRead
    <2> QED BY <1>1, <2>1, CursorFile, LiesEnds, ResultIs
  <1>5. /\ But(fn, t, "blocks") /\ Changes(fn.blocks, t.blocks, c) /\ But(b, c, "term") /\ FnChanged("blocks")
    BY <1>1 DEF BlkChanged, FnChanged
  <1>6. FunctionShape(fn) /\ b = LastBlock(fn)
    BY <1>3, FnShape DEF Blk, LastBlock
  <1> HIDE DEF n, fn, t, b, c
  <1>7. ASSUME NEW at, InInsts(bytes, at, fn, n, 0, pos) PROVE InBlocks(bytes, at, t, n, r.pos)
    BY <1>3, <1>4, <1>5, <1>6, <1>7, BlockEnds
  <1>8. \A at : InLast(bytes, at, fn, left, stage, pos) => InLast(bytes, at, t, left', stage', pos')
    BY <1>2, <1>7 DEF InLast, n
  <1>9. left'.entries = left.entries
    BY <1>2
  <1> QED BY <1>2, <1>3, <1>5, <1>8, <1>9, LastGoesOn DEF fn, t, InFunctionStages

LEMMA EndInside ==
    ASSUME Cursor, Shape, Room, EndFunction, NEW s, Inside(s)
    PROVE  Inside(s)'
  <1> DEFINE F == out.functions
             n == left.entries
             k == Len(F) - 1
  <1>1. /\ stage = "blocks" /\ stage' = "entries" /\ left.blocks = 0 /\ bytes' = bytes /\ pos' = pos
        /\ out' = out /\ left' = left /\ section' = section
    BY DEF EndFunction, At, file
  <1>2. section = 5 /\ Len(F) > 0 /\ n \in Nat
    BY <1>1, LeftFacts DEF Room, Shape, InFunctionStages
  <1>3. FunctionShape(Fn) /\ Len(F) \in Nat /\ F[Len(F)] = Fn
    BY <1>2, FnShape DEF Fn
  <1>4. PICK at : Before(bytes, F, n, s, at) /\ InLast(bytes, at, Fn, left, stage, pos)
    BY <1>1, <1>3 DEF Inside, InFunctions, InFunctionStages
  <1>5. InBlocks(bytes, at, Fn, 0, pos)
    BY <1>1, <1>4 DEF InLast
  <1>6. Lies(bytes, at, FunctionBytes(Fn), pos)
    BY <1>3, <1>5, FunctionEnds
  <1>7. ListAt(bytes, s, n + Len(F), Functions(F, k), at)
    BY <1>4 DEF Before
  <1>8. k \in Nat /\ k + 1 = Len(F)
    BY <1>2, <1>3
  <1> DEFINE P == Functions(F, k)
             G == Functions(F, Len(F))
  <1>9. P = [i \in 1..k |-> P[i]] /\ \A i \in 1..k : P[i] = FunctionBytes(F[i])
    BY DEF Functions
  <1>10. G = [i \in 1..Len(F) |-> G[i]] /\ \A i \in 1..Len(F) : G[i] = FunctionBytes(F[i])
    BY DEF Functions
  <1> HIDE DEF k, P, G, n, F
  <1>11. (\A i \in 1..k : i \in 1..Len(F)) /\ k + 1 \in 1..Len(F)
    BY <1>8
  <1>12. (\A i \in 1..k : G[i] = P[i]) /\ G[k + 1] = FunctionBytes(Fn)
    BY <1>3, <1>8, <1>9, <1>10, <1>11, Zenon
  <1>13. GoesOn(P, G, k)
    BY <1>8, <1>9, <1>10, <1>12 DEF GoesOn, IsOn
  <1>14. ListAt(bytes, s, n + Len(F), P, at)
    BY <1>7 DEF P
  <1>15. ListAt(bytes, s, n + Len(F), G, pos)
    BY <1>6, <1>8, <1>12, <1>13, <1>14, ListGrowsBy
  <1>16. InEntries(bytes, section, out, n, s, pos)
    BY <1>2, <1>15 DEF InEntries, G, F
  <1>17. InEntries(bytes', section', out', left'.entries, s, pos')
    BY <1>1, <1>16 DEF n
  <1> QED BY <1>1, <1>17 DEF Inside, InFunctionStages


-----------------------------------------------------------------------------
(* The whole file                                                          *)

LEMMA ConcatAt ==
    ASSUME NEW a \in Seq(Byte), NEW b \in Seq(Byte)
    PROVE  /\ a \o b \in Seq(Byte) /\ Len(a \o b) = Len(a) + Len(b)
           /\ \A i \in 1..Len(a) : (a \o b)[i] = a[i]
           /\ \A i \in 1..Len(b) : (a \o b)[Len(a) + i] = b[i]
  <1>1. /\ a \o b \in Seq(Byte) /\ Len(a \o b) = Len(a) + Len(b)
        /\ \A i \in 1..Len(a) + Len(b) : (a \o b)[i] = IF i <= Len(a) THEN a[i] ELSE b[i - Len(a)]
    BY ConcatProperties
  <1>2. Len(a) \in Nat /\ Len(b) \in Nat
    OBVIOUS
  <1>3. ASSUME NEW i \in 1..Len(b) PROVE (a \o b)[Len(a) + i] = b[i]
    <2>1. Len(a) + i \in 1..Len(a) + Len(b) /\ ~(Len(a) + i <= Len(a)) /\ Len(a) + i - Len(a) = i
      BY <1>2
    <2> QED BY <1>1, <2>1
  <1> QED BY <1>1, <1>2, <1>3
\* Of the header, only the third byte depends on the minor version.
LEMMA HeaderThird ==
    ASSUME NEW m, FitsIn(m, W16)
    PROVE  /\ HeaderBytes(m) \in Seq(Byte) /\ Len(HeaderBytes(m)) = 5
           /\ HeaderBytes(m)[3] = m /\ m \in Byte
           /\ \A i \in 1..5 : i # 3 => HeaderBytes(m)[i] = HeaderBytes(FORMAT_MINOR)[i]
  <1> DEFINE A == <<MAGIC>> \o Number(FORMAT_MAJOR, W16)
             U == U32(0)
  <1>1. m \in Nat /\ m < 256 /\ FitsIn(FORMAT_MINOR, W16)
    BY Sizes DEF FitsIn, FORMAT_MINOR
  <1>2. ASSUME NEW n, FitsIn(n, W16)
        PROVE  HeaderBytes(n) = (A \o <<n>>) \o U
    <2>1. Number(n, W16) = <<n>>
      BY <1>2, HeaderTyped
    <2>2. HeaderBytes(n) = (A \o Number(n, W16)) \o U
      BY DEF HeaderBytes
    <2> QED BY <2>1, <2>2
  <1>3. A \in Seq(Byte) /\ Len(A) = 2 /\ U \in Seq(Byte) /\ Len(U) = 2
    <2>1. /\ <<MAGIC>> \in Seq(Byte) /\ Len(<<MAGIC>>) = 1
          /\ Number(FORMAT_MAJOR, W16) \in Seq(Byte) /\ Len(Number(FORMAT_MAJOR, W16)) = 1
      BY <1>1, HeaderTyped, NumberTyped, Sizes
    <2>2. U \in Seq(Byte) /\ Len(U) = 2
      BY <1>1, HeaderTyped, NumberTyped, Sizes DEF U32
    <2> DEFINE a == <<MAGIC>>
               b == Number(FORMAT_MAJOR, W16)
    <2> HIDE DEF a, b
    <2>3. a \o b \in Seq(Byte) /\ Len(a \o b) = 2
      <3>1. a \in Seq(Byte) /\ Len(a) = 1 /\ b \in Seq(Byte) /\ Len(b) = 1
        BY <2>1 DEF a, b
      <3>2. Len(a \o b) = 1 + 1
        BY <3>1, ConcatTyped
      <3> QED BY <3>1, <3>2, ConcatTyped
    <2>4. A \in Seq(Byte) /\ Len(A) = 2
      BY <2>3 DEF a, b
    <2> QED BY <2>2, <2>4
  <1> HIDE DEF A, U
  <1>4. ASSUME NEW n \in Byte
        PROVE  LET h == (A \o <<n>>) \o U
               IN  /\ h \in Seq(Byte) /\ Len(h) = 5 /\ h[1] = A[1] /\ h[2] = A[2] /\ h[3] = n
                   /\ h[4] = U[1] /\ h[5] = U[2]
    <2> DEFINE d == <<n>>
               g == A \o d
    <2>1. d \in Seq(Byte) /\ Len(d) = 1 /\ d[1] = n
      OBVIOUS
    <2> HIDE DEF d
    <2>2. /\ g \in Seq(Byte) /\ Len(g) = 2 + 1 /\ \A i \in 1..2 : g[i] = A[i]
          /\ \A i \in 1..1 : g[2 + i] = d[i]
      BY <1>3, <2>1, ConcatAt
    <2>3. g[1] = A[1] /\ g[2] = A[2] /\ g[3] = n /\ Len(g) = 3
      BY <2>1, <2>2
    <2> HIDE DEF g
    <2> DEFINE w == g \o U
    <2>4. /\ w \in Seq(Byte) /\ Len(w) = Len(g) + Len(U) /\ \A i \in 1..Len(g) : w[i] = g[i]
          /\ \A i \in 1..Len(U) : w[Len(g) + i] = U[i]
      BY <1>3, <2>2, ConcatAt
    <2> HIDE DEF w
    <2>5. /\ w \in Seq(Byte) /\ Len(w) = 5 /\ w[1] = A[1] /\ w[2] = A[2]
          /\ w[3] = n /\ w[4] = U[1] /\ w[5] = U[2]
      <3>1. Len(w) = 5 /\ \A i \in 1..3 : w[i] = g[i]
        BY <1>3, <2>3, <2>4
      <3>2. \A i \in 1..2 : w[3 + i] = U[i]
        BY <1>3, <2>3, <2>4
      <3>3. w[3 + 1] = U[1] /\ w[3 + 2] = U[2]
        BY <3>2
      <3>4. w[1] = g[1] /\ w[2] = g[2] /\ w[3] = g[3]
        BY <3>1
      <3>5. w[4] = U[1] /\ w[5] = U[2]
        <4> 3 + 1 = 4 /\ 3 + 2 = 5
          OBVIOUS
        <4> QED BY <3>3
      <3>6. w[1] = A[1] /\ w[2] = A[2] /\ w[3] = n
        BY <2>3, <3>4
      <3> QED BY <2>4, <3>1, <3>5, <3>6
    <2> QED BY <2>5 DEF w, g, d
  <1>5. \A i \in 1..5 : i \in {1, 2, 3, 4, 5}
    OBVIOUS
  <1>6. m \in Byte /\ FORMAT_MINOR \in Byte
    BY <1>1 DEF Byte, FORMAT_MINOR
  <1>7. HeaderBytes(m) = (A \o <<m>>) \o U /\ HeaderBytes(FORMAT_MINOR) = (A \o <<FORMAT_MINOR>>) \o U
    BY <1>1, <1>2
  <1> QED BY <1>4, <1>5, <1>6, <1>7

LEMMA FileStays ==
    ASSUME [Next]_vars
    PROVE  bytes' = bytes /\ sumFits' = sumFits /\ source' = source /\ intact' = intact
  <1>0. \A r, s : Advance(r, s) => file' = file
    BY DEF Advance
  <1>1. ReadHeader \/ OpenSection \/ ReadModule \/ ReadCount \/ CloseSection \/ Finish => file' = file
    BY <1>0 DEF ReadHeader, OpenSection, ReadModule, ReadCount, CloseSection, Finish
  <1>2. ReadSymbol \/ ReadType \/ ReadConstant \/ ReadFunction \/ ReadValue => file' = file
    BY <1>0 DEF ReadSymbol, ReadType, ReadConstant, ReadFunction, ReadValue
  <1>3. ReadBlockCount \/ ReadBlock \/ ReadInst \/ ReadTerm \/ EndFunction => file' = file
    BY <1>0 DEF ReadBlockCount, ReadBlock, ReadInst, ReadTerm, EndFunction
  <1>4. Reject \/ Returned \/ UNCHANGED vars => file' = file
    BY DEF Reject, Returned, vars
  <1>5. file' = file
    BY <1>1, <1>2, <1>3, <1>4 DEF Next
  <1> QED BY <1>5 DEF file

\* A section that is read to its end.
LEMMA BodyEnds ==
    ASSUME Cursor, Shape, stage = "entries", left.entries = 0, NEW s, Inside(s)
    PROVE  Lies(bytes, s, Body(out, section), pos)
  <1>1. InEntries(bytes, section, out, 0, s, pos)
    BY DEF Inside
  <1>2. section \in {1, 2, 3, 4, 5}
    BY DEF Cursor
  <1>3. IsSeq(out.symbols) /\ IsSeq(out.types) /\ IsSeq(out.constants) /\ IsSeq(out.functions)
    BY DEF Shape
  <1>4. /\ 0 + Len(out.symbols) = Len(out.symbols) /\ 0 + Len(out.types) = Len(out.types)
        /\ 0 + Len(out.constants) = Len(out.constants) /\ 0 + Len(out.functions) = Len(out.functions)
    BY <1>3, SeqAny
  <1>5. /\ Body(out, 1) = ModuleBytes(out)
        /\ Body(out, 2) = SymbolList(out.symbols)
        /\ Body(out, 3) = List(out.types, TypeBytes)
        /\ Body(out, 4) = List(out.constants, ConstBytes)
        /\ Body(out, 5) = List(out.functions, FunctionBytes)
    BY DEF Body
  <1>6. CASE section = 1
    BY <1>1, <1>5, <1>6 DEF InEntries
  <1>7. CASE section = 2
    <2>1. ListAt(bytes, s, Len(out.symbols), SymbolNames(out.symbols), pos)
      BY <1>1, <1>4, <1>7 DEF InEntries
    <2>2. Body(out, 2) = U32(Len(out.symbols)) \o FlattenSeq(SymbolNames(out.symbols))
      BY <1>3, <1>5, ListsAre, Zenon
    <2> QED BY <1>7, <2>1, <2>2, ListEnds
  <1>8. CASE section = 3
    <2>1. ListAt(bytes, s, Len(out.types), TypesOf(out.types), pos)
      BY <1>1, <1>4, <1>8 DEF InEntries
    <2>2. Body(out, 3) = U32(Len(out.types)) \o FlattenSeq(TypesOf(out.types))
      BY <1>3, <1>5, ListsAre, Zenon
    <2> QED BY <1>8, <2>1, <2>2, ListEnds
  <1>9. CASE section = 4
    <2>1. ListAt(bytes, s, Len(out.constants), ConstantsOf(out.constants), pos)
      BY <1>1, <1>4, <1>9 DEF InEntries
    <2>2. Body(out, 4) = U32(Len(out.constants)) \o FlattenSeq(ConstantsOf(out.constants))
      BY <1>3, <1>5, ListsAre, Zenon
    <2> QED BY <1>9, <2>1, <2>2, ListEnds
  <1>10. CASE section = 5
    <2>1. ListAt(bytes, s, Len(out.functions), Functions(out.functions, Len(out.functions)), pos)
      BY <1>1, <1>4, <1>10 DEF InEntries
    <2>2. Body(out, 5) = U32(Len(out.functions)) \o FlattenSeq(Functions(out.functions, Len(out.functions)))
      BY <1>3, <1>5, ListsAre, Zenon
    <2> QED BY <1>10, <2>1, <2>2, ListEnds
  <1> QED BY <1>2, <1>6, <1>7, <1>8, <1>9, <1>10

\* Up to the k-th section, what follows the header does not depend on it.
Splits(o, k) == \E R \in Seq(Byte) : \A h \in Seq(Byte) : Upto(h, o, k) = h \o R
LEMMA SplitsNone == \A o : Splits(o, 0)
  <1> SUFFICES ASSUME NEW o PROVE Splits(o, 0)
    OBVIOUS
  <1>1. <<>> \in Seq(Byte) /\ \A h \in Seq(Byte) : h \o <<>> = h
    OBVIOUS
  <1>2. 1 \in 1..5
    OBVIOUS
  <1>3. \A h : Upto(h, o, 0) = h
    BY <1>2, UptoStep
  <1> QED BY <1>1, <1>3 DEF Splits
LEMMA SplitsStep ==
    ASSUME NEW o, NEW k \in 1..5, Splits(o, k - 1), Section(k, Body(o, k)) \in Seq(Byte)
    PROVE  Splits(o, k)
  <1> DEFINE x == Section(k, Body(o, k))
  <1>1. PICK R \in Seq(Byte) : \A h \in Seq(Byte) : Upto(h, o, k - 1) = h \o R
    BY DEF Splits
  <1>2. \A h : Upto(h, o, k) = Upto(h, o, k - 1) \o x
    BY UptoStep
  <1> HIDE DEF x
  <1>3. x \in Seq(Byte)
    BY DEF x
  <1>4. R \o x \in Seq(Byte)
    BY <1>3, ConcatTyped
  <1>5. ASSUME NEW h \in Seq(Byte) PROVE Upto(h, o, k) = h \o (R \o x)
    <2>1. Upto(h, o, k) = (h \o R) \o x
      BY <1>1, <1>2
    <2>2. (h \o R) \o x = h \o (R \o x)
      BY <1>3, ConcatAssociative
    <2> QED BY <2>1, <2>2
  <1> QED BY <1>4, <1>5 DEF Splits

\* The file up to p holds the header and the first k sections.
Whole(f, o, k, p) == Lies(f, 0, Upto(HeaderBytes(f[3]), o, k), p) /\ Splits(o, k)
\* The k-th section, whose body is from s to e, was opened at p.
OpenedAt(f, o, k, e, p, s) ==
    Whole(f, o, k - 1, p) /\ s \in Nat /\ e \in Nat /\ s <= e /\ Lies(f, p, SectionHead(k, e - s), s)
LEMMA SectionCloses ==
    ASSUME NEW f, NEW o, NEW k \in 1..5, NEW e, NEW p, NEW s, OpenedAt(f, o, k, e, p, s),
           Lies(f, s, Body(o, k), e)
    PROVE  Whole(f, o, k, e)
  <1> DEFINE b == Body(o, k)
             h == HeaderBytes(f[3])
  <1>1. /\ Lies(f, 0, Upto(h, o, k - 1), p) /\ Lies(f, p, SectionHead(k, e - s), s)
        /\ Splits(o, k - 1)
    BY DEF OpenedAt, Whole
  <1>2. Len(b) = e - s
    BY LiesTyped
  <1>3. Upto(h, o, k) = Upto(h, o, k - 1) \o Section(k, b)
    BY UptoStep
  <1> HIDE DEF b, h
  <1>4. Section(k, b) = SectionHead(k, e - s) \o b
    BY <1>2, Zenon DEF Section, SectionHead
  <1>5. Lies(f, p, Section(k, b), e)
    BY <1>1, <1>4, LiesJoin DEF b
  <1>6. Lies(f, 0, Upto(h, o, k), e)
    BY <1>1, <1>3, <1>5, LiesJoin
  <1>7. Section(k, Body(o, k)) \in Seq(Byte)
    BY <1>5, LiesTyped DEF b
  <1>8. Splits(o, k)
    BY <1>1, <1>7, SplitsStep
  <1> QED BY <1>6, <1>8 DEF h, Whole
LEMMA WholeSame ==
    ASSUME NEW f, NEW o, NEW t, NEW k \in 1..5, SameBodies(o, t, k - 1)
    PROVE  \A e, p, s : OpenedAt(f, o, k, e, p, s) => OpenedAt(f, t, k, e, p, s)
  <1>1. k - 1 \in 0..5
    OBVIOUS
  <1>2. \A h : Upto(h, t, k - 1) = Upto(h, o, k - 1)
    BY <1>1, UptoSame
  <1>3. Splits(o, k - 1) => Splits(t, k - 1)
    BY <1>2 DEF Splits
  <1> QED BY <1>2, <1>3 DEF Whole, OpenedAt

\* The inductive invariant: all that lies before the cursor is what a writer would have
\* made of out, up to the entries that are still due.
InBody == stage \notin {"header", "open"}
Laid ==
    /\ stage = "header" => section = 1
    /\ stage # "header" => sumFits /\ FitsIn(bytes[3], W16)
    /\ stage = "open" => Whole(bytes, out, section - 1, pos)
    /\ InBody => \E p, s : OpenedAt(bytes, out, section, end, p, s) /\ Inside(s)
    /\ status = "ok" => /\ section = 5 /\ stage = "entries" /\ left.entries = 0
                        /\ pos = end /\ end = Len(bytes)

\* A step inside a section.
LEMMA LaidWithin ==
    ASSUME Cursor, Shape, Room, Laid, [Next]_vars, InBody, InBody', section' = section, end' = end,
           status' # "ok", \A s : Inside(s) => Inside(s)'
    PROVE  Laid'
  <1>1. bytes' = bytes /\ sumFits' = sumFits
    BY FileStays
  <1>2. SameBodies(out, out', section - 1)
    <2>1. CloseSection => section' = section + 1 /\ section \in 1..5
      BY DEF CloseSection, Cursor
    <2> QED BY <2>1, BodiesStay
  <1>3. PICK p, s : OpenedAt(bytes, out, section, end, p, s) /\ Inside(s)
    BY DEF Laid
  <1>4. OpenedAt(bytes, out', section, end, p, s)
    <2> DEFINE f == bytes
               o == out
               t == out'
               k == section
               e == end
    <2>1. k \in 1..5 /\ SameBodies(o, t, k - 1) /\ OpenedAt(f, o, k, e, p, s)
      BY <1>2, <1>3 DEF Cursor
    <2> HIDE DEF f, o, t, k, e
    <2>2. OpenedAt(f, t, k, e, p, s)
      BY <2>1, WholeSame
    <2> QED BY <2>2 DEF f, t, k, e
  <1>5. OpenedAt(bytes', out', section', end', p, s) /\ Inside(s)'
    BY <1>1, <1>3, <1>4
  <1>6. sumFits /\ FitsIn(bytes[3], W16)
    BY DEF Laid, InBody
  <1>7. sumFits' /\ FitsIn(bytes'[3], W16)
    BY <1>1, <1>6
  <1>8. stage' # "header" /\ stage' # "open"
    BY DEF InBody
  <1> QED BY <1>5, <1>7, <1>8 DEF Laid

LEMMA LaidHeader ==
    ASSUME Cursor, Laid, ReadHeader, bytes' = bytes, sumFits' = sumFits
    PROVE  Laid'
  <1>1. PICK r \in HeaderEntry : Advance(r, "open")
    BY DEF ReadHeader
  <1>2. /\ stage' = "open" /\ pos' = r.pos /\ section = 1 /\ section' = 1 /\ out' = out
        /\ status' = "reading"
    BY <1>1 DEF ReadHeader, At, Advance, Laid
  <1> DEFINE m == r.val.minor
             h == HeaderBytes(m)
  <1>3. sumFits /\ FitsIn(m, W16) /\ Ends(0, h, r.pos)
    BY CursorFile, HeaderRead
  <1> HIDE DEF m
  <1>4. Lies(bytes, 0, h, r.pos)
    BY <1>3, CursorFile, LiesEnds
  <1>5. bytes[3] = m
    <2>1. h \in Seq(Byte) /\ Len(h) = 5 /\ h[3] = m
      BY <1>3, HeaderThird
    <2>2. h = SubSeq(bytes, 1, r.pos) /\ r.pos \in Nat /\ r.pos <= Len(bytes) /\ bytes \in Seq(Byte)
      BY <1>4 DEF Lies
    <2> HIDE DEF h
    <2>3. Len(h) = r.pos
      <3>1. Len(h) = r.pos - 0
        BY <1>4, LiesTyped
      <3> QED BY <2>2, <3>1
    <2>4. h[3] = bytes[3]
      BY <2>1, <2>2, <2>3
    <2> QED BY <2>1, <2>4
  <1>6. Upto(HeaderBytes(bytes[3]), out, 0) = h
    BY <1>5, UptoStep
  <1>7. Whole(bytes, out, 0, r.pos)
    BY <1>4, <1>6, SplitsNone DEF Whole
  <1>8. Whole(bytes', out', section' - 1, pos')
    <2>1. 1 - 1 = 0
      OBVIOUS
    <2> QED BY <1>2, <1>7, <2>1
  <1>9. sumFits' /\ FitsIn(bytes'[3], W16)
    BY <1>3, <1>5
  <1> QED BY <1>2, <1>8, <1>9 DEF Laid, InBody

LEMMA LaidOpen ==
    ASSUME Cursor, Laid, OpenSection, bytes' = bytes, sumFits' = sumFits
    PROVE  Laid'
  <1>1. PICK r \in SectionEntry : Advance(r, "start") /\ end' = r.val
    BY DEF OpenSection
  <1>2. /\ stage = "open" /\ stage' = "start" /\ pos' = r.pos /\ section' = section /\ out' = out
        /\ status' = "reading" /\ end' = r.val
    BY <1>1 DEF OpenSection, At, Advance
  <1>3. PICK n : IsSection(r, n)
    BY CursorFile, SectionRead
  <1>4. FitsIn(n, W64) /\ Ends(pos, SectionHead(section, n), r.pos) /\ r.val = r.pos + n /\ n \in Nat
    <2> DEFINE V == r.pos + n
    <2>1. r = Res(V, r.pos)
      BY <1>3 DEF IsSection
    <2>2. r.val = V
      <3> HIDE DEF V
      <3> QED BY <2>1 DEF Res
    <2> QED BY <1>3, <2>2 DEF IsSection, FitsIn
  <1>5. Lies(bytes, pos, SectionHead(section, n), r.pos)
    BY <1>4, CursorFile, LiesEnds
  <1>6. r.pos \in Nat /\ r.val \in Nat /\ r.pos <= r.val /\ r.val - r.pos = n
    BY <1>4, <1>5 DEF Lies
  <1>7. Whole(bytes, out, section - 1, pos)
    BY <1>2 DEF Laid
  <1>8. OpenedAt(bytes, out, section, r.val, pos, r.pos)
    BY <1>5, <1>6, <1>7 DEF OpenedAt
  <1>9. OpenedAt(bytes', out', section', end', pos, r.pos)
    BY <1>2, <1>8
  <1>10. Inside(r.pos)'
    BY <1>2 DEF Inside, InFunctionStages
  <1>11. sumFits' /\ FitsIn(bytes'[3], W16)
    BY <1>2 DEF Laid
  <1> DEFINE q == pos
             a == r.pos
  <1>12. OpenedAt(bytes', out', section', end', q, a) /\ Inside(a)'
    BY <1>9, <1>10
  <1> HIDE DEF q, a
  <1>13. \E p, s : OpenedAt(bytes', out', section', end', p, s) /\ Inside(s)'
    BY <1>12
  <1> QED BY <1>2, <1>11, <1>13 DEF Laid, InBody

LEMMA LaidClose ==
    ASSUME Cursor, Shape, Laid, CloseSection, bytes' = bytes, sumFits' = sumFits
    PROVE  Laid'
  <1>1. /\ stage = "entries" /\ stage' = "open" /\ left.entries = 0 /\ pos = end /\ pos' = end
        /\ section \in 1..4 /\ section' = section + 1 /\ out' = out /\ status' = "reading"
    BY DEF CloseSection, At, Closes, Cursor
  <1>2. PICK p, s : OpenedAt(bytes, out, section, end, p, s) /\ Inside(s)
    BY <1>1 DEF Laid, InBody
  <1>3. Lies(bytes, s, Body(out, section), end)
    BY <1>1, <1>2, BodyEnds
  <1>4. Whole(bytes, out, section, end)
    <2> DEFINE f == bytes
               o == out
               k == section
               e == end
    <2>1. k \in 1..5 /\ OpenedAt(f, o, k, e, p, s) /\ Lies(f, s, Body(o, k), e)
      BY <1>1, <1>2, <1>3
    <2> HIDE DEF f, o, k, e
    <2>2. Whole(f, o, k, e)
      BY <2>1, SectionCloses
    <2> QED BY <2>2 DEF f, o, k, e
  <1>5. (section + 1) - 1 = section
    BY <1>1
  <1>6. Whole(bytes, out, (section + 1) - 1, end)
    BY <1>4, <1>5, Zenon
  <1>7. Whole(bytes', out', section' - 1, pos')
    BY <1>1, <1>6
  <1>8. sumFits' /\ FitsIn(bytes'[3], W16)
    BY <1>1 DEF Laid
  <1> QED BY <1>1, <1>7, <1>8 DEF Laid, InBody

LEMMA LaidInit == Init => Laid
  BY DEF Init, Laid, InBody
LEMMA LaidNext == Cursor /\ Shape /\ Room /\ Tables /\ Fresh /\ Laid /\ [Next]_vars => Laid'
  <1> SUFFICES ASSUME Cursor, Shape, Room, Tables, Fresh, Laid, [Next]_vars PROVE Laid'
    OBVIOUS
  <1>1. bytes' = bytes /\ sumFits' = sumFits
    BY FileStays
  <1>2. CASE ReadHeader
    BY <1>1, <1>2, LaidHeader
  <1>3. CASE OpenSection
    BY <1>1, <1>3, LaidOpen
  <1>4. CASE CloseSection
    BY <1>1, <1>4, LaidClose
  <1>5. \A r, s : Advance(r, s) => stage' = s /\ status' = status
    BY DEF Advance
  <1>6. CASE ReadModule
    <2>1. \A s : Inside(s) => Inside(s)'
      BY <1>6, ModuleInside
    <2>2. InBody /\ InBody' /\ section' = section /\ end' = end /\ status' # "ok"
      BY <1>5, <1>6 DEF ReadModule, At, InBody
    <2> QED BY <2>1, <2>2, LaidWithin
  <1>7. CASE ReadCount
    <2>1. \A s : Inside(s) => Inside(s)'
      BY <1>7, CountInside
    <2>2. InBody /\ InBody' /\ section' = section /\ end' = end /\ status' # "ok"
      BY <1>5, <1>7 DEF ReadCount, At, InBody
    <2> QED BY <2>1, <2>2, LaidWithin
  <1>8. CASE ReadSymbol
    <2>1. \A s : Inside(s) => Inside(s)'
      BY <1>8, SymbolInside
    <2>2. InBody /\ InBody' /\ section' = section /\ end' = end /\ status' # "ok"
      BY <1>5, <1>8 DEF ReadSymbol, At, InBody
    <2> QED BY <2>1, <2>2, LaidWithin
  <1>9. CASE ReadType
    <2>1. \A s : Inside(s) => Inside(s)'
      BY <1>9, TypeInside
    <2>2. InBody /\ InBody' /\ section' = section /\ end' = end /\ status' # "ok"
      BY <1>5, <1>9 DEF ReadType, At, InBody
    <2> QED BY <2>1, <2>2, LaidWithin
  <1>10. CASE ReadConstant
    <2>1. \A s : Inside(s) => Inside(s)'
      BY <1>10, ConstantInside
    <2>2. InBody /\ InBody' /\ section' = section /\ end' = end /\ status' # "ok"
      BY <1>5, <1>10 DEF ReadConstant, At, InBody
    <2> QED BY <2>1, <2>2, LaidWithin
  <1>11. CASE ReadFunction
    <2>1. \A s : Inside(s) => Inside(s)'
      BY <1>11, FunctionInside
    <2>2. InBody /\ InBody' /\ section' = section /\ end' = end /\ status' # "ok"
      BY <1>5, <1>11 DEF ReadFunction, At, InBody
    <2> QED BY <2>1, <2>2, LaidWithin
  <1>12. CASE ReadValue
    <2>1. \A s : Inside(s) => Inside(s)'
      BY <1>12, ValueInside
    <2>2. InBody /\ InBody' /\ section' = section /\ end' = end /\ status' # "ok"
      BY <1>5, <1>12 DEF ReadValue, At, InBody
    <2> QED BY <2>1, <2>2, LaidWithin
  <1>13. CASE ReadBlockCount
    <2>1. \A s : Inside(s) => Inside(s)'
      BY <1>13, BlockCountInside
    <2>2. InBody /\ InBody' /\ section' = section /\ end' = end /\ status' # "ok"
      BY <1>5, <1>13 DEF ReadBlockCount, At, InBody
    <2> QED BY <2>1, <2>2, LaidWithin
  <1>14. CASE ReadBlock
    <2>1. \A s : Inside(s) => Inside(s)'
      BY <1>14, BlockInside
    <2>2. InBody /\ InBody' /\ section' = section /\ end' = end /\ status' # "ok"
      BY <1>5, <1>14 DEF ReadBlock, At, InBody
    <2> QED BY <2>1, <2>2, LaidWithin
  <1>15. CASE ReadInst
    <2>1. \A s : Inside(s) => Inside(s)'
      BY <1>15, InstInside
    <2>2. InBody /\ InBody' /\ section' = section /\ end' = end /\ status' # "ok"
      BY <1>5, <1>15 DEF ReadInst, At, InBody
    <2> QED BY <2>1, <2>2, LaidWithin
  <1>16. CASE ReadTerm
    <2>1. \A s : Inside(s) => Inside(s)'
      BY <1>16, TermInside
    <2>2. InBody /\ InBody' /\ section' = section /\ end' = end /\ status' # "ok"
      BY <1>5, <1>16 DEF ReadTerm, At, InBody
    <2> QED BY <2>1, <2>2, LaidWithin
  <1>17. CASE EndFunction
    <2>1. \A s : Inside(s) => Inside(s)'
      BY <1>17, EndInside
    <2>2. InBody /\ InBody' /\ section' = section /\ end' = end /\ status' # "ok"
      BY <1>17 DEF EndFunction, At, InBody
    <2> QED BY <2>1, <2>2, LaidWithin
  <1>18. ASSUME UNCHANGED <<pos, end, section, stage, left, out>>,
                status' = "ok" => \/ status = "ok"
                                  \/ /\ section = 5 /\ stage = "entries" /\ left.entries = 0
                                     /\ pos = end /\ end = Len(bytes)
         PROVE  Laid'
    BY <1>1, <1>18 DEF Laid, InBody, Inside
  <1>19. CASE Finish
    BY <1>18, <1>19 DEF Finish, At, Closes
  <1>20. CASE Reject \/ Returned \/ UNCHANGED vars
    BY <1>18, <1>20 DEF Reject, Returned, vars
  <1> QED BY <1>2, <1>3, <1>4, <1>6, <1>7, <1>8, <1>9, <1>10, <1>11, <1>12, <1>13, <1>14, <1>15, <1>16,
             <1>17, <1>19, <1>20 DEF Next
LEMMA LaidAlways == Spec => []Laid
  <1>1. Cursor /\ Shape /\ Room /\ Tables /\ Fresh /\ Laid /\ [Next]_vars => Laid'
    BY LaidNext
  <1> QED BY LaidInit, <1>1, CursorAlways, ShapeAlways, RoomAlways, TablesAlways, FreshAlways, PTL DEF Spec


LEMMA WriteIs == \A o : Write(o) = Upto(HeaderBytes(FORMAT_MINOR), o, 5)
  <1> SUFFICES ASSUME NEW o PROVE Write(o) = Upto(HeaderBytes(FORMAT_MINOR), o, 5)
    OBVIOUS
  <1> DEFINE h == HeaderBytes(FORMAT_MINOR)
  <1>1. /\ Body(o, 1) = U32(o.major) \o U32(o.minor) \o Opt(o.name)
        /\ Body(o, 2) = List(o.symbols, LAMBDA name : List(name, U8))
        /\ Body(o, 3) = List(o.types, TypeBytes)
        /\ Body(o, 4) = List(o.constants, ConstBytes)
        /\ Body(o, 5) = List(o.functions, FunctionBytes)
    BY DEF Body, ModuleBytes, SymbolList
  <1>2. Write(o) = h \o Section(1, Body(o, 1)) \o Section(2, Body(o, 2)) \o Section(3, Body(o, 3))
                     \o Section(4, Body(o, 4)) \o Section(5, Body(o, 5))
    BY <1>1, Zenon DEF Write, HeaderBytes
  <1>3. Upto(h, o, 5) = Upto5(h, o)
    BY DEF Upto
  <1> QED BY <1>2, <1>3, Zenon DEF Upto1, Upto2, Upto3, Upto4, Upto5

\* binary/mod.rs:16-18, the direction a reader can be trusted for: an accepted file is, byte
\* for byte, what write makes of the module that was read from it, but for the minor version,
\* which reader.rs ignores.  So no byte of an accepted file goes unread, and two files that
\* differ anywhere else are read as two modules.
THEOREM AcceptedCanonical == Spec => []AcceptedIsCanonical
  <1>1. ASSUME Cursor, Shape, Laid PROVE AcceptedIsCanonical
    <2> SUFFICES ASSUME status = "ok"
                 PROVE  sumFits /\ Write(out) = [bytes EXCEPT ![1 + W16 + 1] = FORMAT_MINOR]
      BY DEF AcceptedIsCanonical
    <2>1. /\ section = 5 /\ stage = "entries" /\ left.entries = 0 /\ pos = end /\ end = Len(bytes)
          /\ sumFits /\ FitsIn(bytes[3], W16)
      BY <1>1 DEF Laid
    <2>2. PICK p, s : OpenedAt(bytes, out, section, end, p, s) /\ Inside(s)
      BY <1>1, <2>1 DEF Laid, InBody
    <2> DEFINE b == bytes
               o == out
               N == Len(b)
               h == HeaderBytes(b[3])
               g == HeaderBytes(FORMAT_MINOR)
    <2>3. Lies(b, s, Body(o, 5), N) /\ OpenedAt(b, o, 5, N, p, s)
      <3>1. Lies(bytes, s, Body(out, section), pos)
        BY <1>1, <2>1, <2>2, BodyEnds
      <3> QED BY <2>1, <2>2, <3>1
    <2>4. b \in Seq(Byte) /\ FitsIn(b[3], W16) /\ FitsIn(FORMAT_MINOR, W16)
      <3>1. FitsIn(FORMAT_MINOR, W16)
        BY DEF FitsIn, FORMAT_MINOR, W16
      <3> QED BY <1>1, <2>1, <3>1 DEF Cursor
    <2>5. Write(o) = Upto(g, o, 5)
      BY WriteIs
    <2> HIDE DEF b, o, N
    <2>6. Whole(b, o, 5, N)
      <3>1. 5 \in 1..5
        OBVIOUS
      <3> QED BY <2>3, <3>1, SectionCloses
    <2>7. Upto(h, o, 5) = b
      <3>1. Lies(b, 0, Upto(h, o, 5), N)
        BY <2>6 DEF Whole
      <3>2. Upto(h, o, 5) = SubSeq(b, 1, N)
        BY <3>1 DEF Lies
      <3>3. SubSeq(b, 1, N) = b
        BY <2>4 DEF N
      <3> QED BY <3>2, <3>3
    <2>8. PICK R \in Seq(Byte) : \A x \in Seq(Byte) : Upto(x, o, 5) = x \o R
      BY <2>6 DEF Whole, Splits
    <2>9. /\ h \in Seq(Byte) /\ Len(h) = 5 /\ g \in Seq(Byte) /\ Len(g) = 5 /\ g[3] = FORMAT_MINOR
          /\ FORMAT_MINOR \in Byte
          /\ \A i \in 1..5 : i # 3 => h[i] = g[i]
      BY <2>4, HeaderThird
    <2> HIDE DEF h, g
    <2>10. b = h \o R /\ Write(o) = g \o R
      BY <2>5, <2>7, <2>8, <2>9
    <2> DEFINE n == Len(R)
               c == g \o R
               t == [b EXCEPT ![3] = FORMAT_MINOR]
    <2>11. /\ b \in Seq(Byte) /\ Len(b) = 5 + n /\ n \in Nat
           /\ \A i \in 1..5 : b[i] = h[i]
           /\ \A i \in 1..n : b[5 + i] = R[i]
      <3>1. /\ h \o R \in Seq(Byte) /\ Len(h \o R) = Len(h) + Len(R)
            /\ \A i \in 1..Len(h) : (h \o R)[i] = h[i]
            /\ \A i \in 1..Len(R) : (h \o R)[Len(h) + i] = R[i]
        BY <2>8, <2>9, ConcatAt
      <3> QED BY <2>9, <2>10, <3>1
    <2>12. /\ c \in Seq(Byte) /\ Len(c) = 5 + n
           /\ \A i \in 1..5 : c[i] = g[i]
           /\ \A i \in 1..n : c[5 + i] = R[i]
      <3>1. /\ g \o R \in Seq(Byte) /\ Len(g \o R) = Len(g) + Len(R)
            /\ \A i \in 1..Len(g) : (g \o R)[i] = g[i]
            /\ \A i \in 1..Len(R) : (g \o R)[Len(g) + i] = R[i]
        BY <2>8, <2>9, ConcatAt
      <3> QED BY <2>9, <3>1
    <2> HIDE DEF c, n
    <2>13. t \in Seq(Byte) /\ Len(t) = 5 + n /\ t[3] = FORMAT_MINOR /\ \A i \in 1..5 + n : i # 3 => t[i] = b[i]
      <3>1. DOMAIN b = 1..5 + n /\ b \in [1..5 + n -> Byte] /\ 3 \in 1..5 + n
        BY <2>11
      <3>2. t \in [1..5 + n -> Byte]
        BY <2>9, <3>1
      <3>3. t \in Seq(Byte) /\ Len(t) = 5 + n
        BY <2>11, <3>2
      <3> QED BY <3>1, <3>3
    <2> HIDE DEF t
    <2>14. ASSUME NEW i \in 1..5 + n PROVE t[i] = c[i]
      <3>1. CASE i = 3
        BY <2>9, <2>12, <2>13, <3>1
      <3>2. CASE i # 3 /\ i <= 5
        <4>1. i \in 1..5
          BY <2>11, <3>2
        <4> QED BY <2>9, <2>11, <2>12, <2>13, <3>2, <4>1
      <3>3. CASE i > 5
        <4>1. i - 5 \in 1..n /\ 5 + (i - 5) = i
          BY <2>11, <3>3
        <4>2. b[i] = R[i - 5] /\ c[i] = R[i - 5]
          BY <2>11, <2>12, <4>1
        <4> QED BY <2>13, <3>3, <4>2
      <3> QED BY <2>11, <3>1, <3>2, <3>3
    <2>15. t = c
      BY <2>12, <2>13, <2>14, SameBytes
    <2>16. 1 + W16 + 1 = 3
      BY DEF W16
    <2> QED BY <2>1, <2>10, <2>15, <2>16 DEF c, t, b, o
  <1> QED BY <1>1, CursorAlways, ShapeAlways, LaidAlways, PTL

-----------------------------------------------------------------------------
(* What is still to come of a file                                         *)

LEMMA LiesSplit ==
    ASSUME NEW f, NEW p, NEW b \in Seq(Byte), NEW c \in Seq(Byte), NEW q, Lies(f, p, b \o c, q)
    PROVE  \E m : Lies(f, p, b, m) /\ Lies(f, m, c, q)
  <1>1. f \in Seq(Byte) /\ p \in Nat /\ q \in Nat /\ p <= q /\ q <= Len(f) /\ SubSeq(f, p + 1, q) = b \o c
    BY DEF Lies
  <1>2. PICK m : m = p + Len(b)
    OBVIOUS
  <1> DEFINE s == SubSeq(f, p + 1, q)
  <1>3. /\ Len(b) \in Nat /\ Len(c) \in Nat /\ Len(b \o c) = Len(b) + Len(c) /\ b \o c \in Seq(Byte)
        /\ \A i \in 1..Len(b) : (b \o c)[i] = b[i]
        /\ \A i \in 1..Len(c) : (b \o c)[Len(b) + i] = c[i]
    BY ConcatAt
  <1>4. s \in Seq(Byte) /\ Len(s) = q - p /\ \A i \in 1..q - p : s[i] = f[p + i]
    <2>1. \A i \in p + 1..q : f[i] \in Byte
      BY <1>1
    <2>2. /\ SubSeq(f, p + 1, q) \in Seq(Byte)
          /\ Len(SubSeq(f, p + 1, q)) = IF p + 1 <= q THEN q - (p + 1) + 1 ELSE 0
          /\ \A i \in 1..q - (p + 1) + 1 : SubSeq(f, p + 1, q)[i] = f[(p + 1) + i - 1]
      BY <1>1, <2>1, SubSeqProperties
    <2> QED BY <1>1, <2>2
  <1>5. Len(b) + Len(c) = q - p /\ m \in Nat /\ p <= m /\ m <= q
    BY <1>1, <1>2, <1>3, <1>4
  <1>6. \A i \in 1..Len(b) : f[p + i] = b[i]
    <2> TAKE i \in 1..Len(b)
    <2>1. i \in 1..q - p
      BY <1>1, <1>3, <1>5
    <2>2. s[i] = f[p + i] /\ s[i] = b[i]
      BY <1>1, <1>3, <1>4, <2>1
    <2> QED BY <2>2
  <1>7. \A i \in 1..Len(c) : f[m + i] = c[i]
    <2> TAKE i \in 1..Len(c)
    <2>1. Len(b) + i \in 1..q - p /\ p + (Len(b) + i) = m + i
      BY <1>1, <1>2, <1>3, <1>5
    <2>2. s[Len(b) + i] = f[p + (Len(b) + i)] /\ s[Len(b) + i] = c[i]
      BY <1>1, <1>3, <1>4, <2>1
    <2> QED BY <2>1, <2>2
  <1> HIDE DEF s
  <1>8. SubSeq(f, p + 1, m) = b
    <2> DEFINE t == SubSeq(f, p + 1, m)
    <2>1. \A i \in p + 1..m : f[i] \in Byte
      BY <1>1, <1>5
    <2>2. /\ t \in Seq(Byte) /\ Len(t) = IF p + 1 <= m THEN m - (p + 1) + 1 ELSE 0
          /\ \A i \in 1..m - (p + 1) + 1 : t[i] = f[(p + 1) + i - 1]
      BY <1>1, <1>5, <2>1, SubSeqProperties
    <2> HIDE DEF t
    <2>3. Len(t) = Len(b)
      BY <1>1, <1>2, <1>3, <1>5, <2>2
    <2>4. \A i \in 1..Len(t) : t[i] = b[i]
      <3> TAKE i \in 1..Len(t)
      <3>1. i \in 1..m - (p + 1) + 1 /\ (p + 1) + i - 1 = p + i /\ i \in 1..Len(b)
        BY <1>1, <1>2, <1>3, <1>5, <2>3
      <3> QED BY <1>6, <2>2, <3>1
    <2>5. t = b
      BY <2>2, <2>3, <2>4, SameBytes
    <2> QED BY <2>5 DEF t
  <1>9. SubSeq(f, m + 1, q) = c
    <2> DEFINE t == SubSeq(f, m + 1, q)
    <2>1. \A i \in m + 1..q : f[i] \in Byte
      BY <1>1, <1>5
    <2>2. /\ t \in Seq(Byte) /\ Len(t) = IF m + 1 <= q THEN q - (m + 1) + 1 ELSE 0
          /\ \A i \in 1..q - (m + 1) + 1 : t[i] = f[(m + 1) + i - 1]
      BY <1>1, <1>5, <2>1, SubSeqProperties
    <2> HIDE DEF t
    <2>3. Len(t) = Len(c)
      BY <1>1, <1>2, <1>3, <1>5, <2>2
    <2>4. \A i \in 1..Len(t) : t[i] = c[i]
      <3> TAKE i \in 1..Len(t)
      <3>1. i \in 1..q - (m + 1) + 1 /\ (m + 1) + i - 1 = m + i /\ i \in 1..Len(c)
        BY <1>1, <1>2, <1>3, <1>5, <2>3
      <3> QED BY <1>7, <2>2, <3>1
    <2>5. t = c
      BY <2>2, <2>3, <2>4, SameBytes
    <2> QED BY <2>5 DEF t
  <1>10. Lies(f, p, b, m) /\ Lies(f, m, c, q)
    <2>1. Len(f) \in Nat
      BY <1>1
    <2> QED BY <1>1, <1>5, <1>8, <1>9, <2>1 DEF Lies
  <1> QED BY <1>10

\* What lies before the end can be read.
LEMMA EndsLies ==
    ASSUME FileOK, NEW p, NEW b, NEW q, Lies(bytes, p, b, q), q <= end
    PROVE  Ends(p, b, q)
  <1>1. b \in Seq(Byte) /\ Len(b) = q - p /\ p \in Nat /\ q \in Nat
    BY LiesTyped
  <1>2. p + Len(b) = q
    BY <1>1
  <1>3. Span(p, q) = b
    BY DEF Lies, Span
  <1> QED BY <1>1, <1>2, <1>3 DEF Ends, Has

\* After q, the entries of F from the k-th on, up to e.
Ahead(f, F, k, q, e) ==
    /\ k \in 0..Len(F)
    /\ \E s : Lies(f, s, FlattenSeq(F), e) /\ Lies(f, s, FlattenSeq(Prefix(F, k)), q)
Encoded(F, least) == F \in Seq(Seq(Byte)) /\ least \in Nat /\ \A i \in 1..Len(F) : Len(F[i]) >= least

LEMMA LiesSame ==
    ASSUME NEW f, NEW p, NEW b, NEW q, NEW r, Lies(f, p, b, q), Lies(f, p, b, r)
    PROVE  q = r
  <1>1. Len(b) = q - p /\ Len(b) = r - p /\ p \in Nat /\ q \in Nat /\ r \in Nat
    BY LiesTyped
  <1> QED BY <1>1

LEMMA AheadStarts ==
    ASSUME NEW f, NEW F, F \in Seq(Seq(Byte)), NEW s, NEW e, Lies(f, s, FlattenSeq(F), e)
    PROVE  Ahead(f, F, 0, s, e)
  <1>1. Lies(f, s, <<>>, s)
    <2>1. s \in Nat /\ f \in Seq(Byte) /\ s <= Len(f) /\ Len(f) \in Nat
      BY DEF Lies
    <2>2. SubSeq(f, s + 1, s) = <<>>
      BY <2>1, SubSeqEmpty
    <2> QED BY <2>1, <2>2 DEF Lies
  <1>2. FlattenSeq(Prefix(F, 0)) = <<>> /\ 0 \in 0..Len(F)
    <2>1. Prefix(F, 0) = <<>>
      BY PrefixEnds
    <2> QED BY <2>1, FlattenNone
  <1> QED BY <1>1, <1>2 DEF Ahead

LEMMA AheadRest ==
    ASSUME NEW f, NEW F, NEW least, Encoded(F, least), NEW k, NEW q, NEW e, Ahead(f, F, k, q, e)
    PROVE  \E R : /\ R \in Seq(Byte) /\ Lies(f, q, R, e) /\ Len(R) >= (Len(F) - k) * least
                  /\ FlattenSeq(F) = FlattenSeq(Prefix(F, k)) \o R
  <1>1. PICK s : Lies(f, s, FlattenSeq(F), e) /\ Lies(f, s, FlattenSeq(Prefix(F, k)), q)
    BY DEF Ahead
  <1>2. F \in Seq(Seq(Byte)) /\ least \in Nat /\ (\A i \in 1..Len(F) : Len(F[i]) >= least) /\ k \in 0..Len(F)
    BY DEF Encoded, Ahead
  <1>3. \E R \in Seq(Byte) : FlattenSeq(F) = FlattenSeq(Prefix(F, k)) \o R /\ Len(R) >= (Len(F) - k) * least
    BY <1>2, FlattenRest
  <1>4. PICK R \in Seq(Byte) : FlattenSeq(F) = FlattenSeq(Prefix(F, k)) \o R /\ Len(R) >= (Len(F) - k) * least
    BY <1>3
  <1> DEFINE b == FlattenSeq(Prefix(F, k))
  <1>5. b \in Seq(Byte)
    BY <1>1, LiesTyped
  <1>6. Lies(f, s, b \o R, e)
    BY <1>1, <1>4
  <1> HIDE DEF b
  <1>7. PICK m : Lies(f, s, b, m) /\ Lies(f, m, R, e)
    BY <1>5, <1>6, LiesSplit
  <1>8. m = q
    BY <1>1, <1>7, LiesSame DEF b
  <1> QED BY <1>4, <1>7, <1>8

LEMMA AheadStep ==
    ASSUME NEW f, NEW F, NEW least, Encoded(F, least), NEW k, k < Len(F), NEW q, NEW e, Ahead(f, F, k, q, e)
    PROVE  \E m : Lies(f, q, F[k + 1], m) /\ Ahead(f, F, k + 1, m, e)
  <1>1. PICK s : Lies(f, s, FlattenSeq(F), e) /\ Lies(f, s, FlattenSeq(Prefix(F, k)), q)
    BY DEF Ahead
  <1> DEFINE n == k + 1
             b == FlattenSeq(Prefix(F, k))
             c == FlattenSeq(Prefix(F, n))
             d == F[n]
  <1>2. F \in Seq(Seq(Byte)) /\ n \in 1..Len(F) /\ n \in 0..Len(F) /\ n - 1 = k /\ d \in Seq(Byte)
    BY DEF Encoded, Ahead
  <1>3. \E R \in Seq(Byte) : FlattenSeq(F) = c \o R
    <2> DEFINE l(j, z) == (Len(F) - j) * z
               g(j) == FlattenSeq(Prefix(F, j))
    <2> HIDE DEF l, g, n
    <2>1. \A j \in 0..Len(F) : \E R \in Seq(Byte) : FlattenSeq(F) = g(j) \o R /\ Len(R) >= l(j, least)
      BY FlattenRest DEF Encoded, l, g
    <2> QED BY <1>2, <2>1 DEF g
  <1>4. b \in Seq(Byte) /\ c = b \o d
    <2>1. FlattenSeq(Prefix(F, n - 1)) \in Seq(Byte) /\ FlattenSeq(Prefix(F, n)) = FlattenSeq(Prefix(F, n - 1)) \o F[n]
      <3> HIDE DEF n
      <3> QED BY <1>2, FlattenPrefix
    <2> HIDE DEF n
    <2> QED BY <1>2, <2>1
  <1>5. PICK R \in Seq(Byte) : FlattenSeq(F) = c \o R
    BY <1>3
  <1>6. Lies(f, s, b, q) /\ Lies(f, s, c \o R, e)
    BY <1>1, <1>5
  <1> HIDE DEF b, c, d, n
  <1>7. c \in Seq(Byte)
    BY <1>2, <1>4, ConcatTyped
  <1>8. PICK m : Lies(f, s, c, m) /\ Lies(f, m, R, e)
    BY <1>6, <1>7, LiesSplit
  <1>9. PICK r : Lies(f, s, b, r) /\ Lies(f, r, d, m)
    BY <1>2, <1>4, <1>8, LiesSplit
  <1>10. r = q
    BY <1>6, <1>9, LiesSame
  <1>11. Ahead(f, F, n, m, e)
    BY <1>1, <1>2, <1>8 DEF Ahead, c
  <1> QED BY <1>9, <1>10, <1>11 DEF d, n

LEMMA AheadEnds ==
    ASSUME NEW f, NEW F, NEW least, Encoded(F, least), NEW q, NEW e, Ahead(f, F, Len(F), q, e)
    PROVE  q = e
  <1>1. PICK s : Lies(f, s, FlattenSeq(F), e) /\ Lies(f, s, FlattenSeq(Prefix(F, Len(F))), q)
    BY DEF Ahead
  <1>2. Prefix(F, Len(F)) = F
    BY PrefixEnds DEF Encoded
  <1> QED BY <1>1, <1>2, LiesSame

\* There is room for the entries that are to come.
LEMMA AheadLeast ==
    ASSUME NEW f, NEW F, NEW least, Encoded(F, least), NEW k, NEW q, NEW e, Ahead(f, F, k, q, e)
    PROVE  /\ q \in Nat /\ e \in Nat /\ q <= e /\ e <= Len(f)
           /\ (Len(F) - k) * least <= e - q
  <1>1. PICK R : R \in Seq(Byte) /\ Lies(f, q, R, e) /\ Len(R) >= (Len(F) - k) * least
    BY AheadRest
  <1>2. Len(R) = e - q
    BY <1>1, LiesTyped
  <1>3. q \in Nat /\ e \in Nat /\ q <= e /\ e <= Len(f)
    BY <1>1 DEF Lies
  <1> DEFINE x == (Len(F) - k) * least
  <1>4. Len(R) >= x
    BY <1>1
  <1> HIDE DEF x
  <1>5. x <= e - q
    BY <1>2, <1>4
  <1> QED BY <1>3, <1>5 DEF x

-----------------------------------------------------------------------------
(* The entries of a module that can be written                             *)

LEMMA FewTyped ==
    ASSUME NEW a \in Seq(Byte), NEW b \in Seq(Byte), NEW c \in Seq(Byte), NEW d \in Seq(Byte)
    PROVE  /\ Len(a) \in Nat /\ Len(b) \in Nat /\ Len(c) \in Nat /\ Len(d) \in Nat
           /\ a \o b \in Seq(Byte) /\ a \o b \o c \in Seq(Byte) /\ a \o b \o c \o d \in Seq(Byte)
           /\ Len(a \o b \o c) = Len(a) + Len(b) + Len(c)
           /\ Len(a \o b \o c \o d) = Len(a) + Len(b) + Len(c) + Len(d)
  <1> DEFINE x == a \o b
             y == x \o c
  <1>1. x \in Seq(Byte) /\ Len(x) = Len(a) + Len(b)
    BY ConcatTyped
  <1> HIDE DEF x
  <1>2. y \in Seq(Byte) /\ Len(y) = Len(x) + Len(c)
    BY <1>1, ConcatTyped
  <1> HIDE DEF y
  <1>3. y \o d \in Seq(Byte) /\ Len(y \o d) = Len(y) + Len(d)
    BY <1>2, ConcatTyped
  <1>4. Len(a) \in Nat /\ Len(b) \in Nat /\ Len(c) \in Nat /\ Len(d) \in Nat
    OBVIOUS
  <1> QED BY <1>1, <1>2, <1>3, <1>4 DEF x, y

LEMMA OptLeast ==
    ASSUME NEW v, OptFits(v)
    PROVE  OptLegal(v) /\ Opt(v) \in Seq(Byte) /\ Len(Opt(v)) >= 1
  <1>1. OptLegal(v)
    BY DEF OptFits, OptLegal
  <1> QED BY <1>1, OptTyped

\* The bytes of a list whose entries have a least length.
LEMMA EncodedList ==
    ASSUME NEW l, IsSeq(l), NEW F, F = [i \in 1..Len(l) |-> F[i]], NEW least \in Nat,
           \A i \in 1..Len(l) : F[i] \in Seq(Byte) /\ Len(F[i]) >= least
    PROVE  Encoded(F, least) /\ Len(F) = Len(l) /\ FlattenSeq(F) \in Seq(Byte)
  <1>1. Len(l) \in Nat
    BY SeqAny
  <1>2. F \in Seq(Seq(Byte)) /\ Len(F) = Len(l)
    BY <1>1
  <1>3. FlattenSeq(F) \in Seq(Byte)
    BY <1>2, FlattenTyped
  <1> QED BY <1>2, <1>3 DEF Encoded

LEMMA ListSeq ==
    ASSUME NEW l, l \in Seq(Range(l))
    PROVE  IsSeq(l) /\ Len(l) \in Nat /\ DOMAIN l = 1..Len(l)
  <1>1. IsSeq(l)
    BY DEF IsSeq
  <1> QED BY <1>1, SeqAny

LEMMA CountTyped ==
    ASSUME NEW n, FitsIn(n, W32), NEW b \in Seq(Byte)
    PROVE  U32(n) \in Seq(Byte) /\ Len(U32(n)) = 2 /\ U32(n) \o b \in Seq(Byte) /\ Len(U32(n) \o b) >= 2
  <1> DEFINE a == U32(n)
  <1>1. a \in Seq(Byte) /\ Len(a) = 2
    BY Sizes, NumberTyped DEF U32
  <1> HIDE DEF a
  <1>2. a \o b \in Seq(Byte) /\ Len(a \o b) = Len(a) + Len(b)
    BY <1>1, ConcatTyped
  <1>3. Len(b) \in Nat
    OBVIOUS
  <1>4. a \o b \in Seq(Byte) /\ Len(a \o b) >= 2
    BY <1>1, <1>2, <1>3
  <1> QED BY <1>1, <1>4 DEF a

LEMMA ValueLeast ==
    ASSUME FileOK, NEW v, ValueFits(v)
    PROVE  /\ FitsIn(v.ty, W32) /\ KindLegal(v.kind) /\ OptLegal(v.name)
           /\ v = [ty |-> v.ty, kind |-> v.kind, name |-> v.name]
           /\ U32(v.ty) \in Seq(Byte) /\ KindWritten(v.kind) \in Seq(Byte) /\ Opt(v.name) \in Seq(Byte)
           /\ ValueBytes(v) \in Seq(Byte) /\ Len(ValueBytes(v)) >= 4
  <1>1. FitsIn(v.ty, W32) /\ HasTag(v.kind, ValueTags, WritesKind) /\ OptFits(v.name)
        /\ v = [ty |-> v.ty, kind |-> v.kind, name |-> v.name]
    BY Zenon DEF ValueFits
  <1> DEFINE a == U32(v.ty)
             b == KindWritten(v.kind)
             c == Opt(v.name)
  <1>2. a \in Seq(Byte) /\ Len(a) = 2
    BY <1>1, Sizes, NumberTyped DEF U32
  <1>3. KindLegal(v.kind) /\ b \in Seq(Byte) /\ Len(b) >= 1
    BY <1>1, FitsTagged, KindTyped
  <1>4. OptLegal(v.name) /\ c \in Seq(Byte) /\ Len(c) >= 1
    BY <1>1, OptLeast
  <1>5. ValueBytes(v) = a \o b \o c
    BY Zenon DEF ValueBytes, KindWritten
  <1> HIDE DEF a, b, c
  <1>6. a \o b \o c \in Seq(Byte) /\ Len(a \o b \o c) = Len(a) + Len(b) + Len(c) /\ Len(b) \in Nat /\ Len(c) \in Nat
    BY <1>2, <1>3, <1>4, FewTyped
  <1>7. ValueBytes(v) \in Seq(Byte) /\ Len(ValueBytes(v)) >= 4
    BY <1>2, <1>3, <1>4, <1>5, <1>6
  <1>8. U32(v.ty) \in Seq(Byte) /\ KindWritten(v.kind) \in Seq(Byte) /\ Opt(v.name) \in Seq(Byte)
    BY <1>2, <1>3, <1>4 DEF a, b, c
  <1> QED BY <1>1, <1>3, <1>4, <1>7, <1>8, Zenon

LEMMA AnInstLeast ==
    ASSUME FileOK, NEW i, InstFits(i)
    PROVE  /\ InstLegal(i.kind) /\ OptLegal(i.result) /\ i = [kind |-> i.kind, result |-> i.result]
           /\ InstWritten(i.kind) \in Seq(Byte) /\ Opt(i.result) \in Seq(Byte)
           /\ InstBytes(i) = InstWritten(i.kind) \o Opt(i.result)
           /\ InstBytes(i) \in Seq(Byte) /\ Len(InstBytes(i)) >= 4
  <1>1. HasTag(i.kind, Opcodes, WritesInst) /\ OptFits(i.result) /\ i = [kind |-> i.kind, result |-> i.result]
    BY Zenon DEF InstFits
  <1> DEFINE b == InstWritten(i.kind)
             c == Opt(i.result)
  <1>2. InstLegal(i.kind) /\ b \in Seq(Byte) /\ Len(b) >= 3
    BY <1>1, FitsTagged, InstLeast
  <1>3. OptLegal(i.result) /\ c \in Seq(Byte) /\ Len(c) >= 1
    BY <1>1, OptLeast
  <1>4. InstBytes(i) = b \o c
    BY Zenon DEF InstBytes, InstWritten
  <1> HIDE DEF b, c
  <1>5. b \o c \in Seq(Byte) /\ Len(b \o c) = Len(b) + Len(c) /\ Len(b) \in Nat /\ Len(c) \in Nat
    BY <1>2, <1>3, ConcatTyped
  <1>6. InstBytes(i) \in Seq(Byte) /\ Len(InstBytes(i)) >= 4
    BY <1>2, <1>3, <1>4, <1>5
  <1> QED BY <1>1, <1>2, <1>3, <1>4, <1>6 DEF b, c

LEMMA ValuesFit ==
    ASSUME FileOK, NEW l, ListOf(l, ValueFits)
    PROVE  /\ IsSeq(l) /\ Len(l) \in Nat /\ FitsIn(Len(l), W32) /\ \A i \in 1..Len(l) : ValueFits(l[i])
           /\ Encoded(Values(l), 4) /\ Len(Values(l)) = Len(l)
           /\ \A i \in 1..Len(l) : Values(l)[i] = ValueBytes(l[i])
           /\ List(l, ValueBytes) \in Seq(Byte) /\ Len(List(l, ValueBytes)) >= 2
           /\ List(l, ValueBytes) = U32(Len(l)) \o FlattenSeq(Values(l))
  <1>1. l \in Seq(Range(l)) /\ FitsIn(Len(l), W32) /\ \A i \in DOMAIN l : ValueFits(l[i])
    BY Zenon DEF ListOf
  <1>2. IsSeq(l) /\ Len(l) \in Nat /\ \A i \in 1..Len(l) : ValueFits(l[i])
    BY <1>1, ListSeq
  <1> DEFINE F == Values(l)
  <1>3. F = [i \in 1..Len(l) |-> F[i]] /\ \A i \in 1..Len(l) : F[i] = ValueBytes(l[i])
    BY DEF Values
  <1>4. 4 \in Nat /\ \A i \in 1..Len(l) : F[i] \in Seq(Byte) /\ Len(F[i]) >= 4
    BY <1>2, <1>3, ValueLeast
  <1> HIDE DEF F
  <1>5. Encoded(F, 4) /\ Len(F) = Len(l) /\ FlattenSeq(F) \in Seq(Byte)
    BY <1>2, <1>3, <1>4, EncodedList
  <1>6. List(l, ValueBytes) = U32(Len(l)) \o FlattenSeq(F)
    BY <1>2, ListsAre DEF F
  <1>7. List(l, ValueBytes) \in Seq(Byte) /\ Len(List(l, ValueBytes)) >= 2
    BY <1>1, <1>5, <1>6, CountTyped
  <1> QED BY <1>1, <1>2, <1>3, <1>5, <1>6, <1>7 DEF F

LEMMA InstsFit ==
    ASSUME FileOK, NEW l, ListOf(l, InstFits)
    PROVE  /\ IsSeq(l) /\ Len(l) \in Nat /\ FitsIn(Len(l), W32) /\ \A i \in 1..Len(l) : InstFits(l[i])
           /\ Encoded(Insts(l), 4) /\ Len(Insts(l)) = Len(l)
           /\ \A i \in 1..Len(l) : Insts(l)[i] = InstBytes(l[i])
           /\ List(l, InstBytes) \in Seq(Byte) /\ Len(List(l, InstBytes)) >= 2
           /\ List(l, InstBytes) = U32(Len(l)) \o FlattenSeq(Insts(l))
  <1>1. l \in Seq(Range(l)) /\ FitsIn(Len(l), W32) /\ \A i \in DOMAIN l : InstFits(l[i])
    BY Zenon DEF ListOf
  <1>2. IsSeq(l) /\ Len(l) \in Nat /\ \A i \in 1..Len(l) : InstFits(l[i])
    BY <1>1, ListSeq
  <1> DEFINE F == Insts(l)
  <1>3. F = [i \in 1..Len(l) |-> F[i]] /\ \A i \in 1..Len(l) : F[i] = InstBytes(l[i])
    BY DEF Insts
  <1>4. 4 \in Nat /\ \A i \in 1..Len(l) : F[i] \in Seq(Byte) /\ Len(F[i]) >= 4
    BY <1>2, <1>3, AnInstLeast
  <1> HIDE DEF F
  <1>5. Encoded(F, 4) /\ Len(F) = Len(l) /\ FlattenSeq(F) \in Seq(Byte)
    BY <1>2, <1>3, <1>4, EncodedList
  <1>6. List(l, InstBytes) = U32(Len(l)) \o FlattenSeq(F)
    BY <1>2, ListsAre DEF F
  <1>7. List(l, InstBytes) \in Seq(Byte) /\ Len(List(l, InstBytes)) >= 2
    BY <1>1, <1>5, <1>6, CountTyped
  <1> QED BY <1>1, <1>2, <1>3, <1>5, <1>6, <1>7 DEF F

LEMMA NameLeast ==
    ASSUME FileOK, NEW d, NameFits(d)
    PROVE  BlobLegal(d) /\ List(d, U8) \in Seq(Byte) /\ Len(List(d, U8)) >= 2
  <1>1. BlobLegal(d)
    BY FitsLists DEF NameFits
  <1> DEFINE b == List(d, U8)
  <1>2. b \in Seq(Byte) /\ Len(b) = W32 + Len(d)
    BY <1>1, ListsTyped
  <1>3. Len(d) \in Nat /\ W32 = 2
    BY <1>1, Sizes DEF BlobLegal, EntriesLegal
  <1> HIDE DEF b
  <1>4. Len(b) >= 2
    BY <1>2, <1>3
  <1> QED BY <1>1, <1>2, <1>4 DEF b

LEMMA TypeLeast ==
    ASSUME FileOK, NEW d, TypeFits(d)
    PROVE  TypeLegal(d) /\ TypeBytes(d) \in Seq(Byte) /\ Len(TypeBytes(d)) >= 1
  <1>1. TypeLegal(d)
    BY FitsTagged DEF TypeFits
  <1>2. TypeWritten(d) \in Seq(Byte) /\ Len(TypeWritten(d)) >= 1
    BY <1>1, TypeTyped
  <1>3. TypeBytes(d) = TypeWritten(d)
    BY Zenon DEF TypeBytes, TypeWritten
  <1> QED BY <1>1, <1>2, <1>3

LEMMA AConstLeast ==
    ASSUME FileOK, NEW c, ConstFits(c)
    PROVE  ConstLegal(c) /\ ConstBytes(c) \in Seq(Byte) /\ Len(ConstBytes(c)) >= 3
  <1>1. ConstLegal(c)
    BY FitsTagged DEF ConstFits
  <1>2. ConstWritten(c) \in Seq(Byte) /\ Len(ConstWritten(c)) >= 3
    BY <1>1, ConstLeast
  <1>3. ConstBytes(c) = ConstWritten(c)
    BY Zenon DEF ConstBytes, ConstWritten
  <1> QED BY <1>1, <1>2, <1>3

LEMMA NamesFit ==
    ASSUME FileOK, NEW l, ListOf(l, NameFits)
    PROVE  /\ IsSeq(l) /\ Len(l) \in Nat /\ FitsIn(Len(l), W32) /\ \A i \in 1..Len(l) : NameFits(l[i])
           /\ Encoded(SymbolNames(l), 2) /\ Len(SymbolNames(l)) = Len(l)
           /\ \A i \in 1..Len(l) : SymbolNames(l)[i] = List(l[i], U8)
           /\ SymbolList(l) \in Seq(Byte) /\ Len(SymbolList(l)) >= 2
           /\ SymbolList(l) = U32(Len(l)) \o FlattenSeq(SymbolNames(l))
  <1>1. l \in Seq(Range(l)) /\ FitsIn(Len(l), W32) /\ \A i \in DOMAIN l : NameFits(l[i])
    BY Zenon DEF ListOf
  <1>2. IsSeq(l) /\ Len(l) \in Nat /\ \A i \in 1..Len(l) : NameFits(l[i])
    BY <1>1, ListSeq
  <1> DEFINE F == SymbolNames(l)
  <1>3. F = [i \in 1..Len(l) |-> F[i]] /\ \A i \in 1..Len(l) : F[i] = List(l[i], U8)
    BY DEF SymbolNames
  <1>4. 2 \in Nat /\ \A i \in 1..Len(l) : F[i] \in Seq(Byte) /\ Len(F[i]) >= 2
    BY <1>2, <1>3, NameLeast
  <1> HIDE DEF F
  <1>5. Encoded(F, 2) /\ Len(F) = Len(l) /\ FlattenSeq(F) \in Seq(Byte)
    BY <1>2, <1>3, <1>4, EncodedList
  <1>6. SymbolList(l) = U32(Len(l)) \o FlattenSeq(F)
    BY <1>2, ListsAre DEF F
  <1>7. SymbolList(l) \in Seq(Byte) /\ Len(SymbolList(l)) >= 2
    BY <1>1, <1>5, <1>6, CountTyped
  <1> QED BY <1>1, <1>2, <1>3, <1>5, <1>6, <1>7 DEF F

LEMMA TypesFit ==
    ASSUME FileOK, NEW l, ListOf(l, TypeFits)
    PROVE  /\ IsSeq(l) /\ Len(l) \in Nat /\ FitsIn(Len(l), W32) /\ \A i \in 1..Len(l) : TypeFits(l[i])
           /\ Encoded(TypesOf(l), 1) /\ Len(TypesOf(l)) = Len(l)
           /\ \A i \in 1..Len(l) : TypesOf(l)[i] = TypeBytes(l[i])
           /\ List(l, TypeBytes) \in Seq(Byte) /\ Len(List(l, TypeBytes)) >= 2
           /\ List(l, TypeBytes) = U32(Len(l)) \o FlattenSeq(TypesOf(l))
  <1>1. l \in Seq(Range(l)) /\ FitsIn(Len(l), W32) /\ \A i \in DOMAIN l : TypeFits(l[i])
    BY Zenon DEF ListOf
  <1>2. IsSeq(l) /\ Len(l) \in Nat /\ \A i \in 1..Len(l) : TypeFits(l[i])
    BY <1>1, ListSeq
  <1> DEFINE F == TypesOf(l)
  <1>3. F = [i \in 1..Len(l) |-> F[i]] /\ \A i \in 1..Len(l) : F[i] = TypeBytes(l[i])
    BY DEF TypesOf
  <1>4. 1 \in Nat /\ \A i \in 1..Len(l) : F[i] \in Seq(Byte) /\ Len(F[i]) >= 1
    BY <1>2, <1>3, TypeLeast
  <1> HIDE DEF F
  <1>5. Encoded(F, 1) /\ Len(F) = Len(l) /\ FlattenSeq(F) \in Seq(Byte)
    BY <1>2, <1>3, <1>4, EncodedList
  <1>6. List(l, TypeBytes) = U32(Len(l)) \o FlattenSeq(F)
    BY <1>2, ListsAre DEF F
  <1>7. List(l, TypeBytes) \in Seq(Byte) /\ Len(List(l, TypeBytes)) >= 2
    BY <1>1, <1>5, <1>6, CountTyped
  <1> QED BY <1>1, <1>2, <1>3, <1>5, <1>6, <1>7 DEF F

LEMMA ConstantsFit ==
    ASSUME FileOK, NEW l, ListOf(l, ConstFits)
    PROVE  /\ IsSeq(l) /\ Len(l) \in Nat /\ FitsIn(Len(l), W32) /\ \A i \in 1..Len(l) : ConstFits(l[i])
           /\ Encoded(ConstantsOf(l), 3) /\ Len(ConstantsOf(l)) = Len(l)
           /\ \A i \in 1..Len(l) : ConstantsOf(l)[i] = ConstBytes(l[i])
           /\ List(l, ConstBytes) \in Seq(Byte) /\ Len(List(l, ConstBytes)) >= 2
           /\ List(l, ConstBytes) = U32(Len(l)) \o FlattenSeq(ConstantsOf(l))
  <1>1. l \in Seq(Range(l)) /\ FitsIn(Len(l), W32) /\ \A i \in DOMAIN l : ConstFits(l[i])
    BY Zenon DEF ListOf
  <1>2. IsSeq(l) /\ Len(l) \in Nat /\ \A i \in 1..Len(l) : ConstFits(l[i])
    BY <1>1, ListSeq
  <1> DEFINE F == ConstantsOf(l)
  <1>3. F = [i \in 1..Len(l) |-> F[i]] /\ \A i \in 1..Len(l) : F[i] = ConstBytes(l[i])
    BY DEF ConstantsOf
  <1>4. 3 \in Nat /\ \A i \in 1..Len(l) : F[i] \in Seq(Byte) /\ Len(F[i]) >= 3
    BY <1>2, <1>3, AConstLeast
  <1> HIDE DEF F
  <1>5. Encoded(F, 3) /\ Len(F) = Len(l) /\ FlattenSeq(F) \in Seq(Byte)
    BY <1>2, <1>3, <1>4, EncodedList
  <1>6. List(l, ConstBytes) = U32(Len(l)) \o FlattenSeq(F)
    BY <1>2, ListsAre DEF F
  <1>7. List(l, ConstBytes) \in Seq(Byte) /\ Len(List(l, ConstBytes)) >= 2
    BY <1>1, <1>5, <1>6, CountTyped
  <1> QED BY <1>1, <1>2, <1>3, <1>5, <1>6, <1>7 DEF F

\* The list of parameters.
LEMMA PairsFit ==
    ASSUME FileOK, NEW v, ListOf(v, PairFits)
    PROVE  PairsLegal(v) /\ List(v, Pair) \in Seq(Byte) /\ Len(List(v, Pair)) >= 2
  <1>1. PairsLegal(v)
    <2>1. Fits("pairs", v)
      BY Zenon DEF Fits
    <2> QED BY <2>1, FitsLists
  <1> DEFINE b == List(v, Pair)
  <1>2. b \in Seq(Byte) /\ Len(b) = W32 + Len(v) * MIN_PARAM_LEN
    BY <1>1, ListsTyped
  <1>3. Len(v) \in Nat /\ W32 = 2 /\ MIN_PARAM_LEN = 4
    BY <1>1, Sizes DEF PairsLegal, EntriesLegal, MIN_PARAM_LEN
  <1> HIDE DEF b
  <1>4. Len(b) >= 2
    BY <1>2, <1>3
  <1> QED BY <1>1, <1>2, <1>4 DEF b

LEMMA BlockLeast ==
    ASSUME FileOK, NEW b, BlockFits(b)
    PROVE  /\ IsRecord(b, BlockNames) /\ OptLegal(b.name) /\ PairsLegal(b.params)
           /\ ListOf(b.insts, InstFits) /\ TermLegal(b.term)
           /\ BlockHead(b) \in Seq(Byte) /\ List(b.insts, InstBytes) \in Seq(Byte) /\ TermWritten(b.term) \in Seq(Byte)
           /\ BlockBytes(b) = BlockHead(b) \o List(b.insts, InstBytes) \o TermWritten(b.term)
           /\ BlockBytes(b) \in Seq(Byte) /\ Len(BlockBytes(b)) >= 6
  <1>1. /\ b = [name |-> b.name, params |-> b.params, insts |-> b.insts, term |-> b.term]
        /\ OptFits(b.name) /\ ListOf(b.params, PairFits) /\ ListOf(b.insts, InstFits)
        /\ HasTag(b.term, TermTags, WritesTerm)
    BY Zenon DEF BlockFits
  <1>2. IsRecord(b, BlockNames)
    <2> DEFINE t == [name |-> b.name, params |-> b.params, insts |-> b.insts, term |-> b.term]
    <2>1. IsRecord(t, BlockNames)
      BY DEF IsRecord, BlockNames
    <2> QED BY <1>1, <2>1
  <1> DEFINE w == Opt(b.name)
             x == List(b.params, Pair)
             y == List(b.insts, InstBytes)
             z == TermWritten(b.term)
  <1>3. OptLegal(b.name) /\ w \in Seq(Byte) /\ Len(w) >= 1
    BY <1>1, OptLeast
  <1>4. PairsLegal(b.params) /\ x \in Seq(Byte) /\ Len(x) >= 2
    BY <1>1, PairsFit
  <1>5. y \in Seq(Byte) /\ Len(y) >= 2
    BY <1>1, InstsFit
  <1>6. TermLegal(b.term) /\ z \in Seq(Byte) /\ Len(z) >= 1
    BY <1>1, FitsTagged, TermTyped
  <1>7. BlockBytes(b) = w \o x \o y \o z /\ BlockHead(b) = w \o x
    BY Zenon DEF BlockBytes, BlockHead, TermWritten
  <1> HIDE DEF w, x, y, z
  <1>8. /\ w \o x \in Seq(Byte) /\ w \o x \o y \o z \in Seq(Byte)
        /\ Len(w \o x \o y \o z) = Len(w) + Len(x) + Len(y) + Len(z)
        /\ Len(w) \in Nat /\ Len(x) \in Nat /\ Len(y) \in Nat /\ Len(z) \in Nat
    BY <1>3, <1>4, <1>5, <1>6, FewTyped
  <1>9. Len(BlockBytes(b)) >= 6
    BY <1>3, <1>4, <1>5, <1>6, <1>7, <1>8
  <1>10. BlockBytes(b) \in Seq(Byte) /\ BlockHead(b) \in Seq(Byte)
    BY <1>7, <1>8
  <1> QED BY <1>1, <1>2, <1>3, <1>4, <1>5, <1>6, <1>7, <1>9, <1>10 DEF w, x, y, z

LEMMA BlocksFit ==
    ASSUME FileOK, NEW l, ListOf(l, BlockFits)
    PROVE  /\ IsSeq(l) /\ Len(l) \in Nat /\ FitsIn(Len(l), W32) /\ \A i \in 1..Len(l) : BlockFits(l[i])
           /\ Encoded(Blocks(l, Len(l)), 6) /\ Len(Blocks(l, Len(l))) = Len(l)
           /\ \A i \in 1..Len(l) : Blocks(l, Len(l))[i] = BlockBytes(l[i])
           /\ List(l, BlockBytes) \in Seq(Byte) /\ Len(List(l, BlockBytes)) >= 2
           /\ List(l, BlockBytes) = U32(Len(l)) \o FlattenSeq(Blocks(l, Len(l)))
  <1>1. l \in Seq(Range(l)) /\ FitsIn(Len(l), W32) /\ \A i \in DOMAIN l : BlockFits(l[i])
    BY Zenon DEF ListOf
  <1>2. IsSeq(l) /\ Len(l) \in Nat /\ \A i \in 1..Len(l) : BlockFits(l[i])
    BY <1>1, ListSeq
  <1> DEFINE F == Blocks(l, Len(l))
  <1>3. F = [i \in 1..Len(l) |-> F[i]] /\ \A i \in 1..Len(l) : F[i] = BlockBytes(l[i])
    BY DEF Blocks
  <1>4. 6 \in Nat /\ \A i \in 1..Len(l) : F[i] \in Seq(Byte) /\ Len(F[i]) >= 6
    BY <1>2, <1>3, BlockLeast
  <1> HIDE DEF F
  <1>5. Encoded(F, 6) /\ Len(F) = Len(l) /\ FlattenSeq(F) \in Seq(Byte)
    BY <1>2, <1>3, <1>4, EncodedList
  <1>6. List(l, BlockBytes) = U32(Len(l)) \o FlattenSeq(F)
    BY <1>2, ListsAre DEF F
  <1>7. List(l, BlockBytes) \in Seq(Byte) /\ Len(List(l, BlockBytes)) >= 2
    BY <1>1, <1>5, <1>6, CountTyped
  <1> QED BY <1>1, <1>2, <1>3, <1>5, <1>6, <1>7 DEF F

LEMMA AbiWritten ==
    ASSUME NEW v, AbiFits(v)
    PROVE  /\ AbiBytes(v) \in Seq(Byte) /\ Len(AbiBytes(v)) >= 1
           /\ (v.tag = "Custom" => SymbolExists(v.symbol)) => AbiLegal(v)
  <1>1. CASE v.tag = "Custom"
    <2>1. v = [tag |-> "Custom", symbol |-> v.symbol] /\ FitsIn(v.symbol, W32)
      BY <1>1 DEF AbiFits
    <2>2. CustomTag \in Seq(Byte) /\ Len(CustomTag) = 1
      BY AbiForms, SmallTables, TagTyped DEF CustomTag
    <2>3. U32(v.symbol) \in Seq(Byte) /\ Len(U32(v.symbol)) = W32
      BY <2>1, Sizes, NumberTyped DEF U32
    <2>4. AbiBytes(v) = CustomTag \o U32(v.symbol)
      BY <2>1, AbiForms, Zenon
    <2>5. AbiBytes(v) \in Seq(Byte) /\ Len(AbiBytes(v)) = 1 + W32
      BY <2>2, <2>3, <2>4, ConcatTyped, Zenon
    <2>6. SymbolExists(v.symbol) => AbiLegal(v)
      BY <2>1, Zenon DEF AbiLegal, SymLegal
    <2> QED BY <1>1, <2>5, <2>6, Sizes
  <1>2. CASE v.tag # "Custom"
    <2> DEFINE t == v.tag
    <2>1. v = [tag |-> t] /\ t \in Range(AbiTags)
      BY <1>2 DEF AbiFits
    <2> HIDE DEF t
    <2>2. InTable(AbiTags, t)
      BY <2>1, InRange, SmallTables, TableDomains
    <2>3. U8(CodeOf(AbiTags, t)) \in Seq(Byte) /\ Len(U8(CodeOf(AbiTags, t))) = 1
      BY <2>2, SmallTables, TagTyped
    <2>4. <<>> \in Seq(Byte) /\ Len(<<>>) = 0
      OBVIOUS
    <2>5. t # "Custom"
      BY <1>2 DEF t
    <2>6. AbiBytes(v) = U8(CodeOf(AbiTags, t)) \o <<>>
      BY <2>1, <2>5, AbiForms, Zenon
    <2>7. AbiBytes(v) \in Seq(Byte) /\ Len(AbiBytes(v)) = 1 + 0
      BY <2>3, <2>4, <2>6, ConcatTyped, Zenon
    <2>8. AbiLegal(v)
      BY <2>1, <2>2, <2>5, Zenon DEF AbiLegal
    <2> QED BY <2>7, <2>8
  <1> QED BY <1>1, <1>2

\* The fields of the signature, by name.
SignatureFits(f) ==
    /\ FitsIn(f.symbol, W32) /\ InTable(LinkageTags, f.linkage) /\ AbiFits(f.abi)
    /\ IsBool(f.variadic) /\ FitsIn(f.result, W32) /\ ListOf(f.params, PairFits)
LEMMA SignatureNames ==
    /\ DOMAIN WritesSignature = 1..6
    /\ WritesSignature[1][1] = "symbol" /\ WritesSignature[1][2] = "u32"
    /\ WritesSignature[2][1] = "linkage" /\ WritesSignature[2][2] = "linkage"
    /\ WritesSignature[3][1] = "abi" /\ WritesSignature[3][2] = "abi"
    /\ WritesSignature[4][1] = "variadic" /\ WritesSignature[4][2] = "bool"
    /\ WritesSignature[5][1] = "result" /\ WritesSignature[5][2] = "u32"
    /\ WritesSignature[6][1] = "params" /\ WritesSignature[6][2] = "pairs"
  BY DEF WritesSignature

LEMMA FunctionForm ==
    ASSUME NEW f, FunctionFits(f)
    PROVE  /\ IsRecord(f, FunctionNames) /\ SignatureFits(f)
           /\ ListOf(f.values, ValueFits) /\ ListOf(f.blocks, BlockFits)
  <1>1. HasFields(f, WritesSignature, {"values", "blocks"})
        /\ ListOf(f.values, ValueFits) /\ ListOf(f.blocks, BlockFits)
    BY Zenon DEF FunctionFits
  <1> DEFINE N == {WritesSignature[i][1] : i \in DOMAIN WritesSignature}
             A == {"values", "blocks"} \cup N
  <1>2. f = [x \in A |-> f[x]]
    BY <1>1, Zenon DEF HasFields
  <1>3. A = FunctionNames
    <2>1. 1..6 = {1, 2, 3, 4, 5, 6}
      OBVIOUS
    <2>2. N = {"symbol", "linkage", "abi", "variadic", "result", "params"}
      BY <2>1, SignatureNames
    <2> HIDE DEF N
    <2> QED BY <2>2 DEF FunctionNames
  <1> HIDE DEF A
  <1>4. IsRecord(f, FunctionNames)
    BY <1>2, <1>3 DEF IsRecord
  <1>5. \A i \in 1..6 : Fits(WritesSignature[i][2], f[WritesSignature[i][1]])
    BY <1>1, SignatureNames, Zenon DEF HasFields
  <1>6. 1 \in 1..6 /\ 2 \in 1..6 /\ 3 \in 1..6 /\ 4 \in 1..6 /\ 5 \in 1..6 /\ 6 \in 1..6
    OBVIOUS
  <1>7. /\ Fits("u32", f["symbol"]) /\ Fits("linkage", f["linkage"]) /\ Fits("abi", f["abi"])
        /\ Fits("bool", f["variadic"]) /\ Fits("u32", f["result"]) /\ Fits("pairs", f["params"])
    BY <1>5, <1>6, SignatureNames, Zenon
  <1>8. \A v : /\ Fits("u32", v) => FitsIn(v, W32)
               /\ Fits("linkage", v) => v \in Range(LinkageTags)
               /\ Fits("abi", v) => AbiFits(v)
               /\ Fits("bool", v) => v \in BOOLEAN
               /\ Fits("pairs", v) => ListOf(v, PairFits)
    <2> SUFFICES ASSUME NEW v
                 PROVE  /\ Fits("u32", v) => FitsIn(v, W32)
                        /\ Fits("linkage", v) => v \in Range(LinkageTags)
                        /\ Fits("abi", v) => AbiFits(v)
                        /\ Fits("bool", v) => v \in BOOLEAN
                        /\ Fits("pairs", v) => ListOf(v, PairFits)
      OBVIOUS
    <2>1. Fits("u32", v) => FitsIn(v, W32)
      BY Zenon DEF Fits
    <2>2. Fits("linkage", v) => v \in Range(LinkageTags)
      BY Zenon DEF Fits
    <2>3. Fits("abi", v) => AbiFits(v)
      BY Zenon DEF Fits
    <2>4. Fits("bool", v) => v \in BOOLEAN
      BY Zenon DEF Fits
    <2>5. Fits("pairs", v) => ListOf(v, PairFits)
      BY Zenon DEF Fits
    <2> QED BY <2>1, <2>2, <2>3, <2>4, <2>5
  <1>9. \A v : v \in Range(LinkageTags) => InTable(LinkageTags, v)
    BY InRange, SmallTables, TableDomains
  <1>10. SignatureFits(f)
    BY <1>7, <1>8, <1>9, Zenon DEF SignatureFits, IsBool
  <1> QED BY <1>1, <1>4, <1>10

LEMMA FlattenSix ==
    ASSUME NEW s \in Seq(Seq(Byte)), Len(s) = 6
    PROVE  /\ FlattenSeq(s) \in Seq(Byte)
           /\ Len(FlattenSeq(s)) = (Len(s[1]) + Len(s[2]) + Len(s[3]) + Len(s[4])) + Len(s[5]) + Len(s[6])
  <1> DEFINE f(n) == FlattenSeq(Prefix(s, n))
  <1>1. f(0) = <<>> /\ f(6) = FlattenSeq(s)
    BY PrefixEnds, FlattenNone
  <1>2. \A n \in 1..6 : f(n) \in Seq(Byte) /\ s[n] \in Seq(Byte) /\ Len(f(n)) = Len(f(n - 1)) + Len(s[n])
    <2> SUFFICES ASSUME NEW n \in 1..6
                 PROVE  f(n) \in Seq(Byte) /\ s[n] \in Seq(Byte) /\ Len(f(n)) = Len(f(n - 1)) + Len(s[n])
      OBVIOUS
    <2>1. n \in 1..Len(s)
      OBVIOUS
    <2>2. f(n - 1) \in Seq(Byte) /\ f(n) = f(n - 1) \o s[n]
      BY <2>1, FlattenPrefix, Zenon
    <2>3. s[n] \in Seq(Byte)
      <3>1. s \in [1..Len(s) -> Seq(Byte)]
        OBVIOUS
      <3> QED BY <2>1, <3>1, Zenon
    <2> HIDE DEF f
    <2> QED BY <2>2, <2>3, ConcatTyped
  <1> HIDE DEF f
  <1>3. Len(f(0)) = 0
    BY <1>1
  <1>4. 1..6 = {1, 2, 3, 4, 5, 6} /\ 1 - 1 = 0 /\ 2 - 1 = 1 /\ 3 - 1 = 2 /\ 4 - 1 = 3 /\ 5 - 1 = 4 /\ 6 - 1 = 5
    OBVIOUS
  <1>5. /\ Len(f(1)) = Len(f(0)) + Len(s[1]) /\ Len(f(2)) = Len(f(1)) + Len(s[2])
        /\ Len(f(3)) = Len(f(2)) + Len(s[3]) /\ Len(f(4)) = Len(f(3)) + Len(s[4])
        /\ Len(f(5)) = Len(f(4)) + Len(s[5]) /\ Len(f(6)) = Len(f(5)) + Len(s[6])
    BY <1>2, <1>4
  <1>6. /\ Len(s[1]) \in Nat /\ Len(s[2]) \in Nat /\ Len(s[3]) \in Nat
        /\ Len(s[4]) \in Nat /\ Len(s[5]) \in Nat /\ Len(s[6]) \in Nat
    <2>1. \A n \in 1..6 : Len(s[n]) \in Nat
      OBVIOUS
    <2> QED BY <2>1, <1>4
  <1>7. Len(f(6)) = (Len(s[1]) + Len(s[2]) + Len(s[3]) + Len(s[4])) + Len(s[5]) + Len(s[6])
    BY <1>3, <1>5, <1>6
  <1>8. f(6) \in Seq(Byte)
    BY <1>2, <1>4
  <1> QED BY <1>1, <1>7, <1>8

LEMMA SignatureLeast ==
    ASSUME FileOK, NEW f, SignatureFits(f)
    PROVE  SignatureBytes(f) \in Seq(Byte) /\ Len(SignatureBytes(f)) >= 9
  <1> DEFINE a == U32(f.symbol)
             b == U8(CodeOf(LinkageTags, f.linkage))
             c == AbiBytes(f.abi)
             d == BoolBytes(f.variadic)
             e == U32(f.result)
             g == List(f.params, Pair)
             F(i) == FieldBytes(WritesSignature[i][2], f[WritesSignature[i][1]])
  <1>1. /\ FitsIn(f.symbol, W32) /\ InTable(LinkageTags, f.linkage) /\ AbiFits(f.abi)
        /\ f.variadic \in BOOLEAN /\ FitsIn(f.result, W32) /\ ListOf(f.params, PairFits)
    BY Zenon DEF SignatureFits, IsBool
  <1>2. /\ a \in Seq(Byte) /\ Len(a) = 2 /\ b \in Seq(Byte) /\ Len(b) = 1
        /\ c \in Seq(Byte) /\ Len(c) >= 1 /\ d \in Seq(Byte) /\ Len(d) = 1
        /\ e \in Seq(Byte) /\ Len(e) = 2 /\ g \in Seq(Byte) /\ Len(g) >= 2
    <2>1. a \in Seq(Byte) /\ Len(a) = 2 /\ e \in Seq(Byte) /\ Len(e) = 2
      BY <1>1, Sizes, NumberTyped DEF U32
    <2>2. b \in Seq(Byte) /\ Len(b) = 1
      BY <1>1, SmallTables, TagTyped
    <2>3. c \in Seq(Byte) /\ Len(c) >= 1
      BY <1>1, AbiWritten
    <2>4. d \in Seq(Byte) /\ Len(d) = 1
      BY <1>1, BoolTyped
    <2>5. g \in Seq(Byte) /\ Len(g) >= 2
      BY <1>1, PairsFit
    <2> HIDE DEF a, b, c, d, e, g
    <2> QED BY <2>1, <2>2, <2>3, <2>4, <2>5
  <1>3. F(1) = a /\ F(2) = b /\ F(3) = c /\ F(4) = d /\ F(5) = e /\ F(6) = g
    <2>1. /\ FieldBytes("u32", f.symbol) = a /\ FieldBytes("linkage", f.linkage) = b
          /\ FieldBytes("abi", f.abi) = c /\ FieldBytes("bool", f.variadic) = d
          /\ FieldBytes("u32", f.result) = e /\ FieldBytes("pairs", f.params) = g
      <3>1. \A v : /\ HowBytes("u32", v) = FieldBytes("u32", v) /\ HowBytes("linkage", v) = FieldBytes("linkage", v)
                   /\ HowBytes("abi", v) = FieldBytes("abi", v) /\ HowBytes("bool", v) = FieldBytes("bool", v)
                   /\ HowBytes("pairs", v) = FieldBytes("pairs", v)
        BY HowsAgree
      <3>2. \A v : /\ HowBytes("u32", v) = U32(v) /\ HowBytes("linkage", v) = U8(CodeOf(LinkageTags, v))
                   /\ HowBytes("abi", v) = AbiBytes(v) /\ HowBytes("bool", v) = BoolBytes(v)
                   /\ HowBytes("pairs", v) = List(v, Pair)
        BY FieldForms, Zenon DEF U32
      <3> QED BY <3>1, <3>2, Zenon
    <2> HIDE DEF a, b, c, d, e, g
    <2> QED BY <2>1, SignatureNames, Zenon
  <1> DEFINE s == [i \in 1..6 |-> F(i)]
  <1>4. SignatureBytes(f) = FlattenSeq(s)
    BY SignatureNames, Zenon DEF SignatureBytes, FieldsBytes
  <1> HIDE DEF a, b, c, d, e, g, F
  <1>5. a \in Seq(Byte) /\ b \in Seq(Byte) /\ c \in Seq(Byte) /\ d \in Seq(Byte) /\ e \in Seq(Byte) /\ g \in Seq(Byte)
    BY <1>2
  <1>6. 1..6 = {1, 2, 3, 4, 5, 6}
    OBVIOUS
  <1>7. \A i \in 1..6 : F(i) \in Seq(Byte)
    BY <1>3, <1>5, <1>6, Zenon
  <1>8. s \in Seq(Seq(Byte)) /\ Len(s) = 6
    BY <1>7
  <1>9. s[1] = a /\ s[2] = b /\ s[3] = c /\ s[4] = d /\ s[5] = e /\ s[6] = g
    BY <1>3
  <1> HIDE DEF s
  <1>10. FlattenSeq(s) \in Seq(Byte)
         /\ Len(FlattenSeq(s)) = (Len(a) + Len(b) + Len(c) + Len(d)) + Len(e) + Len(g)
    BY <1>8, <1>9, FlattenSix
  <1>11. Len(a) \in Nat /\ Len(b) \in Nat /\ Len(c) \in Nat /\ Len(d) \in Nat /\ Len(e) \in Nat /\ Len(g) \in Nat
    BY <1>5
  <1>12. Len(FlattenSeq(s)) >= 9
    BY <1>2, <1>10, <1>11
  <1> QED BY <1>4, <1>10, <1>12

LEMMA FunctionLeast ==
    ASSUME FileOK, NEW f, FunctionFits(f)
    PROVE  /\ SignatureBytes(f) \in Seq(Byte) /\ List(f.values, ValueBytes) \in Seq(Byte)
           /\ List(f.blocks, BlockBytes) \in Seq(Byte)
           /\ FunctionBytes(f) = SignatureBytes(f) \o List(f.values, ValueBytes) \o List(f.blocks, BlockBytes)
           /\ FunctionBytes(f) \in Seq(Byte) /\ Len(FunctionBytes(f)) >= 13
  <1> DEFINE a == SignatureBytes(f)
             b == List(f.values, ValueBytes)
             c == List(f.blocks, BlockBytes)
  <1>1. a \in Seq(Byte) /\ Len(a) >= 9
    BY FunctionForm, SignatureLeast
  <1>2. b \in Seq(Byte) /\ Len(b) >= 2
    BY FunctionForm, ValuesFit
  <1>3. c \in Seq(Byte) /\ Len(c) >= 2
    BY FunctionForm, BlocksFit
  <1>4. FunctionBytes(f) = a \o b \o c
    BY Zenon DEF FunctionBytes, SignatureBytes
  <1> HIDE DEF a, b, c
  <1>5. a \o b \o c \in Seq(Byte) /\ Len(a \o b \o c) = Len(a) + Len(b) + Len(c)
        /\ Len(a) \in Nat /\ Len(b) \in Nat /\ Len(c) \in Nat
    BY <1>1, <1>2, <1>3, FewTyped
  <1>6. FunctionBytes(f) \in Seq(Byte) /\ Len(FunctionBytes(f)) >= 13
    BY <1>1, <1>2, <1>3, <1>4, <1>5
  <1> QED BY <1>1, <1>2, <1>3, <1>4, <1>6 DEF a, b, c

LEMMA FunctionsFit ==
    ASSUME FileOK, NEW l, ListOf(l, FunctionFits)
    PROVE  /\ IsSeq(l) /\ Len(l) \in Nat /\ FitsIn(Len(l), W32) /\ \A i \in 1..Len(l) : FunctionFits(l[i])
           /\ Encoded(Functions(l, Len(l)), 13) /\ Len(Functions(l, Len(l))) = Len(l)
           /\ \A i \in 1..Len(l) : Functions(l, Len(l))[i] = FunctionBytes(l[i])
           /\ List(l, FunctionBytes) \in Seq(Byte) /\ Len(List(l, FunctionBytes)) >= 2
           /\ List(l, FunctionBytes) = U32(Len(l)) \o FlattenSeq(Functions(l, Len(l)))
  <1>1. l \in Seq(Range(l)) /\ FitsIn(Len(l), W32) /\ \A i \in DOMAIN l : FunctionFits(l[i])
    BY Zenon DEF ListOf
  <1>2. IsSeq(l) /\ Len(l) \in Nat /\ \A i \in 1..Len(l) : FunctionFits(l[i])
    BY <1>1, ListSeq
  <1> DEFINE F == Functions(l, Len(l))
  <1>3. F = [i \in 1..Len(l) |-> F[i]] /\ \A i \in 1..Len(l) : F[i] = FunctionBytes(l[i])
    BY DEF Functions
  <1>4. 13 \in Nat /\ \A i \in 1..Len(l) : F[i] \in Seq(Byte) /\ Len(F[i]) >= 13
    BY <1>2, <1>3, FunctionLeast
  <1> HIDE DEF F
  <1>5. Encoded(F, 13) /\ Len(F) = Len(l) /\ FlattenSeq(F) \in Seq(Byte)
    <2> DEFINE least == 13
    <2>1. least \in Nat /\ \A i \in 1..Len(l) : F[i] \in Seq(Byte) /\ Len(F[i]) >= least
      BY <1>4
    <2> HIDE DEF least
    <2>2. F = [i \in 1..Len(l) |-> F[i]]
      BY <1>3
    <2>3. Encoded(F, least) /\ Len(F) = Len(l) /\ FlattenSeq(F) \in Seq(Byte)
      BY <1>2, <2>1, <2>2, EncodedList
    <2> QED BY <2>3 DEF least
  <1>6. List(l, FunctionBytes) = U32(Len(l)) \o FlattenSeq(F)
    BY <1>2, ListsAre DEF F
  <1>7. List(l, FunctionBytes) \in Seq(Byte) /\ Len(List(l, FunctionBytes)) >= 2
    BY <1>1, <1>5, <1>6, CountTyped
  <1> QED BY <1>1, <1>2, <1>3, <1>5, <1>6, <1>7 DEF F

-----------------------------------------------------------------------------
(* A list that is read: s so far, n of t still to come                     *)

Partly(s, t, n) ==
    IsSeq(s) /\ IsSeq(t) /\ Len(t) = n + Len(s) /\ \A i \in 1..Len(s) : s[i] = t[i]
\* The last entry of s is not yet what it will be.
Begun(s, t, n) ==
    IsSeq(s) /\ IsSeq(t) /\ Len(s) > 0 /\ Len(t) = n + Len(s) /\ \A i \in 1..Len(s) - 1 : s[i] = t[i]
\* F gives the bytes of the entries of t.
Due(f, F, s, t, n, q, e) == Partly(s, t, n) /\ Ahead(f, F, Len(s), q, e)

LEMMA PartlyGrows ==
    ASSUME NEW s, NEW t, NEW n \in Nat, n > 0, Partly(s, t, n), NEW u, NEW x, Grows(s, u, x)
    PROVE  /\ x = t[Len(s) + 1] => Partly(u, t, n - 1)
           /\ Begun(u, t, n - 1) /\ Len(u) = Len(s) + 1 /\ Len(u) \in 1..Len(t)
  <1> DEFINE k == Len(s)
  <1>1. k \in Nat /\ Len(t) = n + k /\ IsSeq(t) /\ \A i \in 1..k : s[i] = t[i]
    BY SeqAny DEF Partly
  <1>2. IsSeq(u) /\ Len(u) = k + 1 /\ u[k + 1] = x /\ \A i \in 1..k : u[i] = s[i]
    BY DEF Grows
  <1> HIDE DEF k
  <1>3. \A i \in 1..k : u[i] = t[i]
    BY <1>1, <1>2
  <1>4. Len(t) = (n - 1) + Len(u) /\ Len(u) > 0 /\ Len(u) - 1 = k /\ Len(u) \in 1..Len(t)
    BY <1>1, <1>2
  <1>5. Begun(u, t, n - 1)
    BY <1>1, <1>2, <1>3, <1>4 DEF Begun
  <1>6. ASSUME x = t[k + 1] PROVE Partly(u, t, n - 1)
    <2>1. \A i \in 1..k + 1 : i \in 1..k \/ i = k + 1
      BY <1>1
    <2>2. \A i \in 1..Len(u) : u[i] = t[i]
      BY <1>2, <1>3, <1>6, <2>1
    <2> QED BY <1>1, <1>2, <1>4, <2>2 DEF Partly
  <1> QED BY <1>2, <1>4, <1>5, <1>6 DEF k

LEMMA PartlyAll ==
    ASSUME NEW s, NEW t, Partly(s, t, 0)
    PROVE  s = t
  <1>1. /\ Len(s) \in Nat /\ DOMAIN s = 1..Len(s) /\ DOMAIN t = 1..Len(t) /\ Len(t) = Len(s)
        /\ \A i \in 1..Len(s) : s[i] = t[i]
    BY SeqAny DEF Partly
  <1>2. s = [i \in 1..Len(s) |-> s[i]] /\ t = [i \in 1..Len(t) |-> t[i]]
    <2>1. ASSUME NEW u, IsSeq(u) PROVE u = [i \in 1..Len(u) |-> u[i]]
      <3>1. PICK S : u \in Seq(S)
        BY <2>1 DEF IsSeq
      <3> QED BY <3>1
    <2> QED BY <2>1 DEF Partly
  <1> QED BY <1>1, <1>2

LEMMA BegunStays ==
    ASSUME NEW s, NEW t, NEW n, Begun(s, t, n), NEW u, NEW x, Changes(s, u, x)
    PROVE  Begun(u, t, n)
  <1>1. Len(s) \in Nat
    BY SeqAny DEF Begun
  <1> QED BY <1>1 DEF Begun, Changes

LEMMA BegunDone ==
    ASSUME NEW s, NEW t, NEW n, Begun(s, t, n), s[Len(s)] = t[Len(s)]
    PROVE  Partly(s, t, n)
  <1>1. Len(s) \in Nat /\ Len(s) > 0
    BY SeqAny DEF Begun
  <1>2. \A i \in 1..Len(s) : i \in 1..Len(s) - 1 \/ i = Len(s)
    BY <1>1
  <1>3. \A i \in 1..Len(s) - 1 : s[i] = t[i]
    BY DEF Begun
  <1>4. \A i \in 1..Len(s) : s[i] = t[i]
    BY <1>2, <1>3
  <1> QED BY <1>4 DEF Begun, Partly

LEMMA BegunIn ==
    ASSUME NEW s, NEW t, NEW n \in Nat, Begun(s, t, n)
    PROVE  Len(s) \in 1..Len(t) /\ Len(s) \in Nat
  <1>1. Len(s) \in Nat /\ Len(s) > 0 /\ Len(t) = n + Len(s)
    BY SeqAny DEF Begun
  <1> QED BY <1>1

\* The length of the list was read.
LEMMA DueStarts ==
    ASSUME NEW f, NEW F, NEW least, Encoded(F, least), NEW t, IsSeq(t), Len(F) = Len(t), FitsIn(Len(t), W32),
           NEW s, IsSeq(s), Len(s) = 0, NEW q, NEW e, Lies(f, q, U32(Len(t)) \o FlattenSeq(F), e)
    PROVE  \E m : /\ Lies(f, q, U32(Len(t)), m) /\ Due(f, F, s, t, Len(t), m, e)
                  /\ m \in Nat /\ m <= e /\ Len(t) * least <= e - m
  <1>1. Len(t) \in Nat /\ F \in Seq(Seq(Byte))
    BY SeqAny DEF Encoded
  <1>2. FlattenSeq(F) \in Seq(Byte)
    BY <1>1, FlattenTyped
  <1>3. U32(Len(t)) \in Seq(Byte)
    BY <1>2, CountTyped
  <1>4. PICK m : Lies(f, q, U32(Len(t)), m) /\ Lies(f, m, FlattenSeq(F), e)
    BY <1>2, <1>3, LiesSplit
  <1>5. Ahead(f, F, 0, m, e)
    BY <1>1, <1>4, AheadStarts
  <1>6. m \in Nat /\ m <= e /\ (Len(F) - 0) * least <= e - m
    BY <1>5, AheadLeast
  <1>7. Partly(s, t, Len(t))
    BY <1>1 DEF Partly
  <1>8. Due(f, F, s, t, Len(t), m, e)
    BY <1>5, <1>7 DEF Due
  <1>9. Len(t) * least <= e - m
    <2> DEFINE z(x) == x * least
    <2>1. Len(F) - 0 = Len(t)
      BY <1>1
    <2>2. z(Len(F) - 0) <= e - m
      BY <1>6
    <2> HIDE DEF z
    <2>3. z(Len(t)) <= e - m
      BY <2>1, <2>2
    <2> QED BY <2>3 DEF z
  <1> QED BY <1>4, <1>6, <1>8, <1>9

\* The next entry.
LEMMA DueStep ==
    ASSUME NEW f, NEW F, NEW least, Encoded(F, least), NEW s, NEW t, Len(F) = Len(t), NEW n \in Nat, n > 0,
           NEW q, NEW e, Due(f, F, s, t, n, q, e)
    PROVE  /\ Len(s) \in Nat /\ Len(s) + 1 \in 1..Len(t) /\ q \in Nat /\ q <= e
           /\ \E m : /\ Lies(f, q, F[Len(s) + 1], m) /\ Ahead(f, F, Len(s) + 1, m, e)
                     /\ m \in Nat /\ q <= m /\ m <= e
  <1> DEFINE k == Len(s)
  <1>1. k \in Nat /\ Len(t) = n + k
    BY SeqAny DEF Due, Partly
  <1>2. k + 1 \in 1..Len(t) /\ k < Len(F)
    BY <1>1
  <1>3. Ahead(f, F, k, q, e)
    BY DEF Due
  <1> HIDE DEF k
  <1>4. q \in Nat /\ q <= e
    BY <1>3, AheadLeast
  <1>5. PICK m : Lies(f, q, F[k + 1], m) /\ Ahead(f, F, k + 1, m, e)
    BY <1>2, <1>3, AheadStep
  <1> DEFINE j == k + 1
  <1>6. m \in Nat /\ m <= e
    <2> HIDE DEF j
    <2>1. Ahead(f, F, j, m, e)
      BY <1>5 DEF j
    <2> QED BY <2>1, AheadLeast
  <1>7. q <= m
    BY <1>5 DEF Lies
  <1> QED BY <1>1, <1>2, <1>4, <1>5, <1>6, <1>7 DEF k

LEMMA DueEnds ==
    ASSUME NEW f, NEW F, NEW least, Encoded(F, least), NEW s, NEW t, Len(F) = Len(t),
           NEW q, NEW e, Due(f, F, s, t, 0, q, e)
    PROVE  s = t /\ q = e
  <1>1. s = t
    BY PartlyAll DEF Due
  <1>2. Ahead(f, F, Len(F), q, e)
    BY <1>1 DEF Due
  <1> QED BY <1>1, <1>2, AheadEnds

-----------------------------------------------------------------------------
(* The sections of a module that can be written                            *)

Sections(m) == [i \in 1..5 |-> Section(i, Body(m, i))]

LEMMA BodyTyped ==
    ASSUME FileOK, NEW m, Typed(m)
    PROVE  /\ ModuleLegal(m) /\ \A i \in 1..5 : Body(m, i) \in Seq(Byte)
           /\ ListOf(m.symbols, NameFits) /\ ListOf(m.types, TypeFits)
           /\ ListOf(m.constants, ConstFits) /\ ListOf(m.functions, FunctionFits)
  <1>1. /\ FitsIn(m.major, W32) /\ FitsIn(m.minor, W32) /\ OptFits(m.name)
        /\ ListOf(m.symbols, NameFits) /\ ListOf(m.types, TypeFits)
        /\ ListOf(m.constants, ConstFits) /\ ListOf(m.functions, FunctionFits)
    BY Zenon DEF Typed
  <1>2. ModuleLegal(m)
    BY <1>1, OptLeast DEF ModuleLegal
  <1>3. ModuleBytes(m) \in Seq(Byte)
    BY <1>2, ModuleTyped
  <1>4. SymbolList(m.symbols) \in Seq(Byte)
    BY <1>1, NamesFit
  <1>5. List(m.types, TypeBytes) \in Seq(Byte)
    BY <1>1, TypesFit
  <1>6. List(m.constants, ConstBytes) \in Seq(Byte)
    BY <1>1, ConstantsFit
  <1>7. List(m.functions, FunctionBytes) \in Seq(Byte)
    BY <1>1, FunctionsFit
  <1>8. \A i \in 1..5 : i \in {1, 2, 3, 4, 5}
    OBVIOUS
  <1>9. \A i \in 1..5 : Body(m, i) \in Seq(Byte)
    BY <1>3, <1>4, <1>5, <1>6, <1>7, <1>8 DEF Body
  <1> QED BY <1>1, <1>2, <1>9

LEMMA SectionTyped ==
    ASSUME NEW i \in 1..5, NEW b \in Seq(Byte)
    PROVE  /\ Section(i, b) = SectionHead(i, Len(b)) \o b
           /\ SectionHead(i, Len(b)) \in Seq(Byte) /\ Section(i, b) \in Seq(Byte)
           /\ Len(Section(i, b)) = 4 + Len(b) /\ Len(b) \in Nat
  <1> DEFINE a == <<SectionTags[i]>>
             n == Number(Len(b), W64)
             h == SectionHead(i, Len(b))
  <1>1. Len(b) \in Nat
    OBVIOUS
  <1>2. a \in Seq(Byte) /\ Len(a) = 1
    BY SectionTagBytes
  <1>3. n \in Seq(Byte) /\ Len(n) = 3
    <2>1. IsNumber(n, Len(b), W64) /\ W64 = 3
      BY <1>1, NumberFacts, Sizes
    <2> HIDE DEF n
    <2> QED BY <2>1 DEF IsNumber
  <1>4. h = a \o n /\ Section(i, b) = h \o b
    BY DEF Section, SectionHead
  <1> HIDE DEF a, n, h
  <1>5. h \in Seq(Byte) /\ Len(h) = 4
    <2>1. a \o n \in Seq(Byte) /\ Len(a \o n) = Len(a) + Len(n)
      BY <1>2, <1>3, ConcatTyped
    <2> QED BY <1>2, <1>3, <1>4, <2>1
  <1>6. Section(i, b) \in Seq(Byte) /\ Len(Section(i, b)) = Len(h) + Len(b)
    BY <1>4, <1>5, ConcatTyped
  <1>7. Len(Section(i, b)) = 4 + Len(b)
    BY <1>1, <1>5, <1>6
  <1> QED BY <1>1, <1>4, <1>5, <1>6, <1>7 DEF h

LEMMA SectionsEncoded ==
    ASSUME FileOK, NEW m, Typed(m)
    PROVE  Encoded(Sections(m), 4) /\ Len(Sections(m)) = 5 /\ \A i \in 1..5 : Sections(m)[i] = Section(i, Body(m, i))
  <1>1. \A i \in 1..5 : Body(m, i) \in Seq(Byte)
    BY BodyTyped
  <1> DEFINE S == Sections(m)
  <1>2. S = [i \in 1..5 |-> S[i]] /\ \A i \in 1..5 : S[i] = Section(i, Body(m, i))
    BY DEF Sections
  <1> HIDE DEF S
  <1>3. \A i \in 1..5 : S[i] \in Seq(Byte) /\ Len(S[i]) >= 4
    <2> SUFFICES ASSUME NEW i \in 1..5 PROVE S[i] \in Seq(Byte) /\ Len(S[i]) >= 4
      OBVIOUS
    <2> DEFINE b == Body(m, i)
    <2>1. b \in Seq(Byte)
      BY <1>1
    <2> HIDE DEF b
    <2>2. Section(i, b) \in Seq(Byte) /\ Len(Section(i, b)) = 4 + Len(b) /\ Len(b) \in Nat
      BY <2>1, SectionTyped
    <2>3. S[i] = Section(i, b)
      BY <1>2 DEF b
    <2> QED BY <2>2, <2>3
  <1>4. S \in Seq(Seq(Byte)) /\ Len(S) = 5
    BY <1>2, <1>3
  <1> QED BY <1>2, <1>3, <1>4 DEF Encoded, S

LEMMA WriteSections ==
    ASSUME FileOK, NEW m, Typed(m)
    PROVE  Write(m) = HeaderBytes(FORMAT_MINOR) \o FlattenSeq(Sections(m))
  <1> DEFINE S == Sections(m)
             h == HeaderBytes(FORMAT_MINOR)
             f(k) == FlattenSeq(Prefix(S, k))
             G(k) == Upto(h, m, k) = h \o f(k)
  <1>1. S \in Seq(Seq(Byte)) /\ Len(S) = 5 /\ \A i \in 1..5 : S[i] = Section(i, Body(m, i))
    BY SectionsEncoded DEF Encoded
  <1>2. h \in Seq(Byte)
    BY HeaderTyped, Sizes DEF FORMAT_MINOR, FitsIn
  <1> HIDE DEF S, h
  <1>3. f(0) = <<>> /\ f(5) = FlattenSeq(S)
    BY <1>1, PrefixEnds, FlattenNone
  <1>4. G(0)
    <2>1. Upto(h, m, 0) = h
      BY UptoStep
    <2>2. h \o <<>> = h
      BY <1>2, ConcatEmptySeq
    <2> QED BY <1>3, <2>1, <2>2
  <1>5. ASSUME NEW k \in 1..5, G(k - 1) PROVE G(k)
    <2>1. k \in 1..Len(S)
      BY <1>1
    <2>2. f(k - 1) \in Seq(Byte) /\ f(k) = f(k - 1) \o S[k]
      BY <1>1, <2>1, FlattenPrefix
    <2>3. S[k] \in Seq(Byte)
      <3>1. S \in Seq(Seq(Byte))
        BY <1>1
      <3> HIDE DEF f
      <3> QED BY <2>1, <3>1
    <2> DEFINE a == f(k - 1)
               x == S[k]
    <2>4. Upto(h, m, k) = Upto(h, m, k - 1) \o x
      <3>1. Upto(h, m, k) = Upto(h, m, k - 1) \o Section(k, Body(m, k))
        BY UptoStep
      <3>2. S[k] = Section(k, Body(m, k))
        BY <1>1
      <3> QED BY <3>1, <3>2, Zenon
    <2>5. Upto(h, m, k - 1) = h \o a
      BY <1>5
    <2>6. f(k) = a \o x /\ a \in Seq(Byte) /\ x \in Seq(Byte)
      BY <2>2, <2>3
    <2> HIDE DEF a, x, f
    <2>7. (h \o a) \o x = h \o (a \o x)
      BY <1>2, <2>6, ConcatAssociative
    <2> QED BY <2>4, <2>5, <2>6, <2>7
  <1>6. Write(m) = Upto(h, m, 5)
    BY WriteIs DEF h
  <1> HIDE DEF G, f
  <1>7. G(1) /\ G(2) /\ G(3) /\ G(4) /\ G(5)
    <2>1. 1 \in 1..5 /\ 2 \in 1..5 /\ 3 \in 1..5 /\ 4 \in 1..5 /\ 5 \in 1..5
          /\ 1 - 1 = 0 /\ 2 - 1 = 1 /\ 3 - 1 = 2 /\ 4 - 1 = 3 /\ 5 - 1 = 4
      OBVIOUS
    <2> QED BY <1>4, <1>5, <2>1
  <1>8. Write(m) = h \o FlattenSeq(S)
    BY <1>3, <1>6, <1>7 DEF G
  <1> QED BY <1>8 DEF h, S

\* The length of every section fits its field.
LEMMA FitsLess ==
    ASSUME NEW v \in Nat, NEW w, FitsIn(w, W64), v <= w
    PROVE  FitsIn(v, W64)
  <1>1. w \in Nat /\ (w \div 256) \div 256 < 256 /\ W64 = 3
    BY Sizes DEF FitsIn
  <1> DEFINE a == v \div 256
             b == w \div 256
  <1>2. a \in Nat /\ b \in Nat /\ a <= b
    BY <1>1
  <1> HIDE DEF a, b
  <1>3. a \div 256 <= b \div 256 /\ a \div 256 \in Nat /\ b \div 256 \in Nat
    BY <1>2
  <1>4. b \div 256 < 256
    BY <1>1 DEF b
  <1>5. a \div 256 < 256
    BY <1>3, <1>4
  <1> QED BY <1>1, <1>5 DEF FitsIn, a

LEMMA BodyFits ==
    ASSUME FileOK, NEW m, Typed(m), NEW i \in 1..5
    PROVE  FitsIn(Len(Body(m, i)), W64)
  <1> DEFINE S == Sections(m)
             h == HeaderBytes(FORMAT_MINOR)
             b == Body(m, i)
             w == FlattenSeq(S)
  <1>1. S \in Seq(Seq(Byte)) /\ Len(S) = 5 /\ S[i] = Section(i, b)
    BY SectionsEncoded DEF Encoded
  <1>2. b \in Seq(Byte)
    BY BodyTyped
  <1>3. Write(m) = h \o w /\ FitsIn(Len(Write(m)), W64)
    BY WriteSections DEF Typed
  <1>4. h \in Seq(Byte)
    BY HeaderTyped, Sizes DEF FORMAT_MINOR, FitsIn
  <1> HIDE DEF S, h, b
  <1>5. w \in Seq(Byte)
    BY <1>1, FlattenTyped
  <1>6. Len(S[i]) = 4 + Len(b) /\ Len(b) \in Nat /\ S[i] \in Seq(Byte)
    BY <1>1, <1>2, SectionTyped
  <1>7. Len(w) >= Len(S[i])
    <2> DEFINE g(k) == FlattenSeq(Prefix(S, k))
               x == S[i]
    <2>1. i \in 1..Len(S)
      BY <1>1
    <2>2. g(i - 1) \in Seq(Byte) /\ g(i) = g(i - 1) \o x
      BY <1>1, <2>1, FlattenPrefix
    <2>3. \E R \in Seq(Byte) : w = g(i) \o R
      <3> DEFINE l(j, z) == (Len(S) - j) * z
                 zero == 0
      <3>1. zero \in Nat /\ \A j \in 1..Len(S) : Len(S[j]) >= zero
        <4>1. \A j \in 1..Len(S) : Len(S[j]) \in Nat
          BY <1>1
        <4> QED BY <4>1
      <3> HIDE DEF l, g, zero
      <3>2. \A j \in 0..Len(S) : \E R \in Seq(Byte) : w = g(j) \o R /\ Len(R) >= l(j, zero)
        BY <1>1, <3>1, FlattenRest DEF l, g
      <3>3. i \in 0..Len(S)
        BY <1>1
      <3> QED BY <3>2, <3>3
    <2>4. PICK R \in Seq(Byte) : w = g(i) \o R
      BY <2>3
    <2> DEFINE a == g(i - 1)
               c == g(i)
    <2>5. a \in Seq(Byte) /\ x \in Seq(Byte) /\ c = a \o x /\ w = c \o R
      BY <1>6, <2>2, <2>4
    <2> HIDE DEF a, c, x, w
    <2>6. c \in Seq(Byte) /\ Len(c) = Len(a) + Len(x)
      BY <2>5, ConcatTyped
    <2>7. Len(w) = Len(c) + Len(R)
      BY <2>5, <2>6, ConcatTyped
    <2>8. Len(a) \in Nat /\ Len(x) \in Nat /\ Len(R) \in Nat
      BY <2>5
    <2>9. Len(w) >= Len(x)
      BY <2>6, <2>7, <2>8
    <2> QED BY <2>9 DEF x
  <1> HIDE DEF w
  <1>8. Len(h \o w) = Len(h) + Len(w) /\ Len(h) \in Nat /\ Len(w) \in Nat
    BY <1>4, <1>5, ConcatTyped
  <1>9. Len(b) <= Len(Write(m))
    BY <1>3, <1>6, <1>7, <1>8
  <1>10. FitsIn(Len(b), W64)
    BY <1>3, <1>6, <1>9, FitsLess
  <1> QED BY <1>10 DEF b

-----------------------------------------------------------------------------
(* A function of the module that is read: fn so far, g the whole of it     *)

ValuesDue(f, fn, g, n, q, e) ==
    /\ Len(fn.blocks) = 0
    /\ \E z : Due(f, Values(g.values), fn.values, g.values, n, q, z) /\ Lies(f, z, List(g.blocks, BlockBytes), e)
BlocksDue(f, fn, g, n, q, e) ==
    fn.values = g.values /\ Due(f, Blocks(g.blocks, Len(g.blocks)), fn.blocks, g.blocks, n, q, e)
\* The block b so far, of c.
BlockDue(f, b, c, n, q, e) ==
    /\ b.name = c.name /\ b.params = c.params
    /\ \E z : Due(f, Insts(c.insts), b.insts, c.insts, n, q, z) /\ Lies(f, z, TermWritten(c.term), e)
InstsDue(f, fn, g, n, i, q, e) ==
    /\ fn.values = g.values /\ Begun(fn.blocks, g.blocks, n)
    /\ \E z : /\ BlockDue(f, LastBlock(fn), g.blocks[Len(fn.blocks)], i, q, z)
              /\ Ahead(f, Blocks(g.blocks, Len(g.blocks)), Len(fn.blocks), z, e)

LEMMA ValuesComing ==
    ASSUME FileOK, NEW f, NEW g, FunctionFits(g), NEW fn, fn.values = <<>>, fn.blocks = <<>>,
           NEW q, NEW e, Lies(f, q, FunctionBytes(g), e)
    PROVE  \E j, m : /\ Lies(f, q, SignatureBytes(g), j) /\ Lies(f, j, U32(Len(g.values)), m)
                     /\ ValuesDue(f, fn, g, Len(g.values), m, e)
                     /\ m \in Nat /\ m <= e /\ e \in Nat /\ Len(g.values) * 4 <= e - m
  <1> DEFINE S == SignatureBytes(g)
             V == List(g.values, ValueBytes)
             B == List(g.blocks, BlockBytes)
             vs == g.values
             F == Values(vs)
  <1>1. S \in Seq(Byte) /\ V \in Seq(Byte) /\ B \in Seq(Byte) /\ FunctionBytes(g) = (S \o V) \o B
    BY FunctionLeast
  <1>2. ListOf(vs, ValueFits)
    BY FunctionForm
  <1>3. /\ IsSeq(vs) /\ Len(vs) \in Nat /\ FitsIn(Len(vs), W32) /\ Encoded(F, 4) /\ Len(F) = Len(vs)
        /\ V = U32(Len(vs)) \o FlattenSeq(F)
    <2> HIDE DEF vs
    <2> QED BY <1>2, ValuesFit DEF vs
  <1> HIDE DEF S, V, B, vs, F
  <1>4. S \o V \in Seq(Byte)
    BY <1>1, ConcatTyped
  <1>5. PICK z : Lies(f, q, S \o V, z) /\ Lies(f, z, B, e)
    <2> DEFINE A == S \o V
    <2>1. Lies(f, q, A \o B, e) /\ A \in Seq(Byte)
      BY <1>1, <1>4
    <2> HIDE DEF A
    <2>2. \E z : Lies(f, q, A, z) /\ Lies(f, z, B, e)
      BY <1>1, <2>1, LiesSplit
    <2> QED BY <2>2 DEF A
  <1>6. PICK j : Lies(f, q, S, j) /\ Lies(f, j, V, z)
    BY <1>1, <1>5, LiesSplit
  <1>7. Lies(f, j, U32(Len(vs)) \o FlattenSeq(F), z)
    BY <1>3, <1>6
  <1>8. IsSeq(fn.values) /\ Len(fn.values) = 0 /\ Len(fn.blocks) = 0
    BY NoneSeq
  <1>9. PICK m : /\ Lies(f, j, U32(Len(vs)), m) /\ Due(f, F, fn.values, vs, Len(vs), m, z)
                 /\ m \in Nat /\ m <= z /\ Len(vs) * 4 <= z - m
    <2> DEFINE s == fn.values
               least == 4
    <2>1. IsSeq(s) /\ Len(s) = 0 /\ Encoded(F, least)
      BY <1>3, <1>8
    <2> HIDE DEF s, least
    <2>2. \E m : /\ Lies(f, j, U32(Len(vs)), m) /\ Due(f, F, s, vs, Len(vs), m, z)
                 /\ m \in Nat /\ m <= z /\ Len(vs) * least <= z - m
      BY <1>3, <1>7, <2>1, DueStarts
    <2> QED BY <2>2 DEF s, least
  <1>10. z \in Nat /\ e \in Nat /\ z <= e
    BY <1>5 DEF Lies
  <1>11. m <= e /\ Len(vs) * 4 <= e - m
    BY <1>3, <1>9, <1>10
  <1>12. ValuesDue(f, fn, g, Len(vs), m, e)
    BY <1>5, <1>8, <1>9 DEF ValuesDue, vs, F, B
  <1> QED BY <1>6, <1>9, <1>10, <1>11, <1>12 DEF vs, S

LEMMA ValuesNext ==
    ASSUME FileOK, NEW f, NEW fn, NEW g, FunctionFits(g), NEW n \in Nat, n > 0, NEW q, NEW e,
           ValuesDue(f, fn, g, n, q, e)
    PROVE  /\ Len(fn.values) + 1 \in 1..Len(g.values) /\ ValueFits(g.values[Len(fn.values) + 1])
           /\ \E m : /\ Lies(f, q, ValueBytes(g.values[Len(fn.values) + 1]), m) /\ m \in Nat /\ m <= e
                     /\ \A t : Grows(fn.values, t.values, g.values[Len(fn.values) + 1]) /\ Len(t.blocks) = 0
                                 => ValuesDue(f, t, g, n - 1, m, e)
  <1> DEFINE vs == g.values
             s == fn.values
             F == Values(vs)
             v == vs[Len(s) + 1]
             B == List(g.blocks, BlockBytes)
  <1>1. ListOf(vs, ValueFits)
    BY FunctionForm
  <1>2. /\ \A i \in 1..Len(vs) : ValueFits(vs[i]) /\ F[i] = ValueBytes(vs[i])
        /\ Encoded(F, 4) /\ Len(F) = Len(vs)
    <2> HIDE DEF vs
    <2> QED BY <1>1, ValuesFit DEF vs
  <1>3. PICK z : Due(f, F, s, vs, n, q, z) /\ Lies(f, z, B, e)
    BY DEF ValuesDue
  <1> HIDE DEF vs, s, F, B
  <1>4. /\ Len(s) \in Nat /\ Len(s) + 1 \in 1..Len(vs)
        /\ \E m : /\ Lies(f, q, F[Len(s) + 1], m) /\ Ahead(f, F, Len(s) + 1, m, z) /\ m \in Nat /\ m <= z
    BY <1>2, <1>3, DueStep
  <1>5. PICK m : Lies(f, q, F[Len(s) + 1], m) /\ Ahead(f, F, Len(s) + 1, m, z) /\ m \in Nat /\ m <= z
    BY <1>4
  <1>6. z \in Nat /\ e \in Nat /\ z <= e
    BY <1>3 DEF Lies
  <1>7. m <= e
    BY <1>5, <1>6
  <1>8. ValueFits(v) /\ F[Len(s) + 1] = ValueBytes(v)
    BY <1>2, <1>4
  <1>9. ASSUME NEW t, Grows(s, t.values, v), Len(t.blocks) = 0 PROVE ValuesDue(f, t, g, n - 1, m, e)
    <2> DEFINE u == t.values
    <2>1. Grows(s, u, v) /\ Partly(s, vs, n)
      BY <1>3, <1>9 DEF Due
    <2> HIDE DEF u
    <2>2. Partly(u, vs, n - 1) /\ Len(u) = Len(s) + 1
      BY <2>1, PartlyGrows
    <2>3. Due(f, F, u, vs, n - 1, m, z)
      BY <1>5, <2>2 DEF Due
    <2> QED BY <1>3, <1>9, <2>3 DEF ValuesDue, u, vs, F, B
  <1> QED BY <1>4, <1>5, <1>7, <1>8, <1>9 DEF vs, s

LEMMA ValuesDone ==
    ASSUME FileOK, NEW f, NEW fn, NEW g, FunctionFits(g), IsSeq(fn.blocks), NEW q, NEW e,
           ValuesDue(f, fn, g, 0, q, e)
    PROVE  /\ FitsIn(Len(g.blocks), W32) /\ Len(g.blocks) \in Nat
           /\ \E m : /\ Lies(f, q, U32(Len(g.blocks)), m) /\ m \in Nat /\ m <= e /\ e \in Nat
                     /\ Len(g.blocks) * 6 <= e - m
                     /\ BlocksDue(f, fn, g, Len(g.blocks), m, e)
  <1> DEFINE vs == g.values
             bs == g.blocks
             F == Values(vs)
             C == Blocks(bs, Len(bs))
             B == List(bs, BlockBytes)
             s == fn.blocks
             least == 6
  <1>1. ListOf(vs, ValueFits) /\ ListOf(bs, BlockFits)
    BY FunctionForm
  <1>2. Encoded(F, 4) /\ Len(F) = Len(vs)
    <2> HIDE DEF vs
    <2> QED BY <1>1, ValuesFit DEF vs
  <1>3. /\ IsSeq(bs) /\ Len(bs) \in Nat /\ FitsIn(Len(bs), W32) /\ Encoded(C, least) /\ Len(C) = Len(bs)
        /\ B = U32(Len(bs)) \o FlattenSeq(C)
    <2> HIDE DEF bs
    <2> QED BY <1>1, BlocksFit DEF bs
  <1>4. PICK z : Due(f, F, fn.values, vs, 0, q, z) /\ Lies(f, z, B, e)
    BY DEF ValuesDue
  <1>5. fn.values = vs /\ q = z
    <2> DEFINE u == fn.values
    <2>1. Due(f, F, u, vs, 0, q, z)
      BY <1>4
    <2> HIDE DEF u, F, vs
    <2> QED BY <1>2, <2>1, DueEnds DEF u
  <1>6. IsSeq(s) /\ Len(s) = 0
    BY DEF ValuesDue
  <1> HIDE DEF vs, bs, F, C, B, s, least
  <1>7. Lies(f, q, U32(Len(bs)) \o FlattenSeq(C), e)
    BY <1>3, <1>4, <1>5
  <1>8. PICK m : /\ Lies(f, q, U32(Len(bs)), m) /\ Due(f, C, s, bs, Len(bs), m, e)
                 /\ m \in Nat /\ m <= e /\ Len(bs) * least <= e - m
    BY <1>3, <1>6, <1>7, DueStarts
  <1>9. BlocksDue(f, fn, g, Len(bs), m, e)
    BY <1>5, <1>8 DEF BlocksDue, vs, bs, C, s
  <1>10. e \in Nat
    BY <1>7 DEF Lies
  <1> QED BY <1>3, <1>8, <1>9, <1>10 DEF bs, least

LEMMA BlocksNext ==
    ASSUME FileOK, NEW f, NEW fn, NEW g, FunctionFits(g), NEW n \in Nat, n > 0, NEW q, NEW e,
           BlocksDue(f, fn, g, n, q, e), NEW c, c = g.blocks[Len(fn.blocks) + 1]
    PROVE  /\ Len(fn.blocks) + 1 \in 1..Len(g.blocks) /\ BlockFits(c)
           /\ FitsIn(Len(c.insts), W32) /\ Len(c.insts) \in Nat
           /\ \E j, m : /\ Lies(f, q, BlockHead(c), j) /\ Lies(f, j, U32(Len(c.insts)), m)
                        /\ m \in Nat /\ m <= e /\ e \in Nat /\ Len(c.insts) * 4 <= e - m
                        /\ \A t, x : /\ Grows(fn.blocks, t.blocks, x) /\ t.values = fn.values
                                     /\ x.name = c.name /\ x.params = c.params /\ x.insts = <<>>
                                     => InstsDue(f, t, g, n - 1, Len(c.insts), m, e)
  <1> DEFINE bs == g.blocks
             s == fn.blocks
             C == Blocks(bs, Len(bs))
             is == c.insts
             F == Insts(is)
             H == BlockHead(c)
             I == List(is, InstBytes)
             T == TermWritten(c.term)
             k == Len(s) + 1
             least == 6
  <1>1. ListOf(bs, BlockFits)
    BY FunctionForm
  <1>2. /\ \A i \in 1..Len(bs) : BlockFits(bs[i]) /\ C[i] = BlockBytes(bs[i])
        /\ Encoded(C, least) /\ Len(C) = Len(bs)
    <2> HIDE DEF bs
    <2> QED BY <1>1, BlocksFit DEF bs
  <1>3. fn.values = g.values /\ Due(f, C, s, bs, n, q, e)
    BY DEF BlocksDue
  <1>4. c = bs[k]
    OBVIOUS
  <1> HIDE DEF bs, s, C, is, F, H, I, T, least
  <1>5. /\ Len(s) \in Nat /\ k \in 1..Len(bs)
        /\ \E z : Lies(f, q, C[k], z) /\ Ahead(f, C, k, z, e) /\ z \in Nat /\ z <= e
    BY <1>2, <1>3, DueStep
  <1> HIDE DEF k
  <1>6. PICK z : Lies(f, q, C[k], z) /\ Ahead(f, C, k, z, e) /\ z \in Nat /\ z <= e
    BY <1>5
  <1>7. BlockFits(c) /\ C[k] = BlockBytes(c)
    BY <1>2, <1>4, <1>5
  <1>8. /\ H \in Seq(Byte) /\ I \in Seq(Byte) /\ T \in Seq(Byte) /\ BlockBytes(c) = (H \o I) \o T
        /\ ListOf(is, InstFits)
    BY <1>7, BlockLeast DEF H, I, T, is
  <1>9. /\ IsSeq(is) /\ Len(is) \in Nat /\ FitsIn(Len(is), W32) /\ Encoded(F, 4) /\ Len(F) = Len(is)
        /\ I = U32(Len(is)) \o FlattenSeq(F)
    BY <1>8, InstsFit DEF F, I
  <1>10. PICK y : Lies(f, q, H \o I, y) /\ Lies(f, y, T, z)
    <2> DEFINE A == H \o I
    <2>1. Lies(f, q, A \o T, z) /\ A \in Seq(Byte)
      BY <1>6, <1>7, <1>8, ConcatTyped
    <2> HIDE DEF A
    <2>2. \E y : Lies(f, q, A, y) /\ Lies(f, y, T, z)
      BY <1>8, <2>1, LiesSplit
    <2> QED BY <2>2 DEF A
  <1>11. PICK j : Lies(f, q, H, j) /\ Lies(f, j, I, y)
    BY <1>8, <1>10, LiesSplit
  <1>12. Lies(f, j, U32(Len(is)) \o FlattenSeq(F), y)
    BY <1>9, <1>11
  <1>13. PICK m : /\ Lies(f, j, U32(Len(is)), m) /\ Due(f, F, <<>>, is, Len(is), m, y)
                  /\ m \in Nat /\ m <= y /\ Len(is) * 4 <= y - m
    <2> DEFINE e0 == <<>>
               four == 4
    <2>1. IsSeq(e0) /\ Len(e0) = 0 /\ Encoded(F, four)
      BY <1>9, NoneSeq
    <2> HIDE DEF e0, four
    <2>2. \E m : /\ Lies(f, j, U32(Len(is)), m) /\ Due(f, F, e0, is, Len(is), m, y)
                 /\ m \in Nat /\ m <= y /\ Len(is) * four <= y - m
      BY <1>9, <1>12, <2>1, DueStarts
    <2> QED BY <2>2 DEF e0, four
  <1>14. y \in Nat /\ e \in Nat /\ y <= z
    <2>1. y \in Nat /\ y <= z
      BY <1>10 DEF Lies
    <2>2. e \in Nat
      BY <1>6, <1>2, AheadLeast
    <2> QED BY <2>1, <2>2
  <1>15. m <= e /\ Len(is) * 4 <= e - m
    BY <1>6, <1>9, <1>13, <1>14
  <1>16. ASSUME NEW t, NEW x, Grows(s, t.blocks, x), t.values = fn.values,
                x.name = c.name, x.params = c.params, x.insts = <<>>
         PROVE  InstsDue(f, t, g, n - 1, Len(is), m, e)
    <2> DEFINE u == t.blocks
    <2>1. Grows(s, u, x) /\ Partly(s, bs, n)
      BY <1>3, <1>16 DEF Due
    <2> HIDE DEF u
    <2>2. Begun(u, bs, n - 1) /\ Len(u) = k
      BY <2>1, PartlyGrows DEF k
    <2>3. u[Len(u)] = x
      BY <2>1, <2>2 DEF Grows, k
    <2>4. Due(f, F, x.insts, is, Len(is), m, y)
      BY <1>13, <1>16
    <2>5. BlockDue(f, x, c, Len(is), m, z)
      BY <1>10, <1>16, <2>4 DEF BlockDue, F, is, T
    <2>6. Begun(t.blocks, g.blocks, n - 1) /\ Len(t.blocks) = k /\ LastBlock(t) = x
      BY <2>2, <2>3 DEF u, bs, LastBlock
    <2>7. g.blocks[Len(t.blocks)] = c
      BY <1>4, <2>6 DEF bs
    <2>8. Ahead(f, Blocks(g.blocks, Len(g.blocks)), Len(t.blocks), z, e)
      BY <1>6, <2>6 DEF C, bs
    <2>9. BlockDue(f, LastBlock(t), g.blocks[Len(t.blocks)], Len(is), m, z)
      BY <2>5, <2>6, <2>7
    <2> QED BY <1>3, <1>16, <2>6, <2>8, <2>9 DEF InstsDue
  <1>17. Len(s) + 1 \in 1..Len(bs)
    BY <1>5 DEF k
  <1>18. /\ Lies(f, q, H, j) /\ Lies(f, j, U32(Len(is)), m) /\ m \in Nat /\ m <= e /\ e \in Nat
         /\ Len(is) * 4 <= e - m
    BY <1>11, <1>13, <1>14, <1>15
  <1> QED BY <1>7, <1>9, <1>16, <1>17, <1>18 DEF bs, s, is, H

LEMMA InstsNext ==
    ASSUME FileOK, NEW f, NEW fn, NEW g, FunctionFits(g), NEW n \in Nat, NEW i \in Nat, i > 0, NEW q, NEW e,
           InstsDue(f, fn, g, n, i, q, e), NEW b, b = LastBlock(fn), NEW c, c = g.blocks[Len(fn.blocks)],
           NEW v, v = c.insts[Len(b.insts) + 1]
    PROVE  /\ InstFits(v)
           /\ \E m : /\ Lies(f, q, InstBytes(v), m) /\ m \in Nat /\ m <= e
                     /\ \A t, x : /\ Changes(fn.blocks, t.blocks, x) /\ t.values = fn.values
                                  /\ x.name = b.name /\ x.params = b.params /\ Grows(b.insts, x.insts, v)
                                  => InstsDue(f, t, g, n, i - 1, m, e)
  <1> DEFINE bs == g.blocks
             s == fn.blocks
             C == Blocks(bs, Len(bs))
             is == c.insts
             r == b.insts
             F == Insts(is)
             T == TermWritten(c.term)
             k == Len(r) + 1
  <1>1. ListOf(bs, BlockFits)
    BY FunctionForm
  <1>2. /\ \A l \in 1..Len(bs) : BlockFits(bs[l])
        /\ Encoded(C, 6) /\ Len(C) = Len(bs)
    <2> HIDE DEF bs
    <2> QED BY <1>1, BlocksFit DEF bs
  <1>3. fn.values = g.values /\ Begun(s, bs, n)
    BY DEF InstsDue
  <1>4. PICK z : BlockDue(f, b, c, i, q, z) /\ Ahead(f, C, Len(s), z, e)
    BY DEF InstsDue
  <1>5. PICK y : Due(f, F, r, is, i, q, y) /\ Lies(f, y, T, z)
    BY <1>4 DEF BlockDue
  <1>6. c = bs[Len(s)] /\ v = is[k]
    OBVIOUS
  <1>7. b.name = c.name /\ b.params = c.params
    BY <1>4 DEF BlockDue
  <1> HIDE DEF bs, s, C, is, r, F, T
  <1>8. BlockFits(c)
    BY <1>2, <1>3, <1>6, BegunIn
  <1>9. ListOf(is, InstFits)
    BY <1>8, BlockLeast DEF is
  <1>10. /\ \A l \in 1..Len(is) : InstFits(is[l]) /\ F[l] = InstBytes(is[l])
         /\ Encoded(F, 4) /\ Len(F) = Len(is)
    BY <1>9, InstsFit DEF F
  <1>11. /\ Len(r) \in Nat /\ k \in 1..Len(is)
         /\ \E m : Lies(f, q, F[k], m) /\ Ahead(f, F, k, m, y) /\ m \in Nat /\ m <= y
    BY <1>5, <1>10, DueStep
  <1> HIDE DEF k
  <1>12. PICK m : Lies(f, q, F[k], m) /\ Ahead(f, F, k, m, y) /\ m \in Nat /\ m <= y
    BY <1>11
  <1>13. InstFits(v) /\ F[k] = InstBytes(v)
    BY <1>6, <1>10, <1>11
  <1>14. y \in Nat /\ z \in Nat /\ y <= z /\ e \in Nat /\ z <= e
    <2>1. y \in Nat /\ z \in Nat /\ y <= z
      BY <1>5 DEF Lies
    <2>2. e \in Nat /\ z <= e
      BY <1>2, <1>4, AheadLeast
    <2> QED BY <2>1, <2>2
  <1>15. m <= e
    BY <1>12, <1>14
  <1>16. ASSUME NEW t, NEW x, Changes(s, t.blocks, x), t.values = fn.values,
                x.name = b.name, x.params = b.params, Grows(r, x.insts, v)
         PROVE  InstsDue(f, t, g, n, i - 1, m, e)
    <2> DEFINE u == t.blocks
               w == x.insts
    <2>1. Changes(s, u, x) /\ Grows(r, w, v) /\ Partly(r, is, i)
      BY <1>5, <1>16 DEF Due
    <2> HIDE DEF u, w
    <2>2. Begun(u, bs, n) /\ Len(u) = Len(s) /\ u[Len(s)] = x
      BY <1>3, <2>1, BegunStays DEF Changes
    <2>3. Partly(w, is, i - 1) /\ Len(w) = k
      BY <1>6, <2>1, PartlyGrows DEF k
    <2>4. Due(f, F, w, is, i - 1, m, y)
      BY <1>12, <2>3 DEF Due
    <2>5. BlockDue(f, x, c, i - 1, m, z)
      BY <1>5, <1>7, <1>16, <2>4 DEF BlockDue, F, is, T, w
    <2>6. Begun(t.blocks, g.blocks, n) /\ Len(t.blocks) = Len(s) /\ LastBlock(t) = x
      BY <2>2 DEF u, bs, LastBlock
    <2>7. g.blocks[Len(t.blocks)] = c
      BY <1>6, <2>6 DEF bs
    <2>8. Ahead(f, Blocks(g.blocks, Len(g.blocks)), Len(t.blocks), z, e)
      BY <1>4, <2>6 DEF C, bs
    <2>9. BlockDue(f, LastBlock(t), g.blocks[Len(t.blocks)], i - 1, m, z)
      BY <2>5, <2>6, <2>7
    <2> QED BY <1>3, <1>16, <2>6, <2>8, <2>9 DEF InstsDue
  <1>17. Lies(f, q, InstBytes(v), m)
    BY <1>12, <1>13
  <1> QED BY <1>12, <1>13, <1>15, <1>16, <1>17 DEF s, r

LEMMA TermNext ==
    ASSUME FileOK, NEW f, NEW fn, NEW g, FunctionFits(g), NEW n \in Nat, NEW q, NEW e,
           InstsDue(f, fn, g, n, 0, q, e), NEW b, b = LastBlock(fn), NEW c, c = g.blocks[Len(fn.blocks)]
    PROVE  /\ TermLegal(c.term)
           /\ \E m : /\ Lies(f, q, TermWritten(c.term), m) /\ m \in Nat /\ m <= e
                     /\ \A t, x : /\ Changes(fn.blocks, t.blocks, x) /\ t.values = fn.values /\ IsRecord(x, BlockNames)
                                  /\ x.name = b.name /\ x.params = b.params /\ x.insts = b.insts /\ x.term = c.term
                                  => BlocksDue(f, t, g, n, m, e)
  <1> DEFINE bs == g.blocks
             s == fn.blocks
             C == Blocks(bs, Len(bs))
             is == c.insts
             r == b.insts
             F == Insts(is)
             T == TermWritten(c.term)
  <1>1. ListOf(bs, BlockFits)
    BY FunctionForm
  <1>2. /\ \A l \in 1..Len(bs) : BlockFits(bs[l])
        /\ Encoded(C, 6) /\ Len(C) = Len(bs)
    <2> HIDE DEF bs
    <2> QED BY <1>1, BlocksFit DEF bs
  <1>3. fn.values = g.values /\ Begun(s, bs, n)
    BY DEF InstsDue
  <1>4. PICK z : BlockDue(f, b, c, 0, q, z) /\ Ahead(f, C, Len(s), z, e)
    BY DEF InstsDue
  <1>5. PICK y : Due(f, F, r, is, 0, q, y) /\ Lies(f, y, T, z)
    BY <1>4 DEF BlockDue
  <1>6. c = bs[Len(s)]
    OBVIOUS
  <1>7. b.name = c.name /\ b.params = c.params
    BY <1>4 DEF BlockDue
  <1> HIDE DEF bs, s, C, is, r, F, T
  <1>8. BlockFits(c)
    BY <1>2, <1>3, <1>6, BegunIn
  <1>9. ListOf(is, InstFits) /\ TermLegal(c.term) /\ IsRecord(c, BlockNames)
    BY <1>8, BlockLeast DEF is
  <1>10. Encoded(F, 4) /\ Len(F) = Len(is)
    BY <1>9, InstsFit DEF F
  <1>11. r = is /\ q = y
    BY <1>5, <1>10, DueEnds
  <1>12. z \in Nat /\ e \in Nat /\ z <= e
    BY <1>2, <1>4, AheadLeast
  <1>13. ASSUME NEW t, NEW x, Changes(s, t.blocks, x), t.values = fn.values, IsRecord(x, BlockNames),
                x.name = b.name, x.params = b.params, x.insts = r, x.term = c.term
         PROVE  BlocksDue(f, t, g, n, z, e)
    <2> DEFINE u == t.blocks
    <2>1. Changes(s, u, x)
      BY <1>13
    <2> HIDE DEF u
    <2>2. Begun(u, bs, n) /\ Len(u) = Len(s) /\ u[Len(s)] = x
      BY <1>3, <2>1, BegunStays DEF Changes
    <2>3. x = c
      BY <1>7, <1>9, <1>11, <1>13 DEF IsRecord, BlockNames, is
    <2>4. Partly(u, bs, n)
      BY <1>6, <2>2, <2>3, BegunDone
    <2>5. Due(f, C, u, bs, n, z, e)
      BY <1>4, <2>2, <2>4 DEF Due
    <2> QED BY <1>3, <1>13, <2>5 DEF BlocksDue, u, bs, C
  <1>14. Lies(f, q, T, z)
    BY <1>5, <1>11
  <1> QED BY <1>9, <1>12, <1>13, <1>14 DEF s, r, T

LEMMA FunctionDone ==
    ASSUME FileOK, NEW f, NEW fn, NEW g, FunctionFits(g), IsRecord(fn, FunctionNames), SameHead(fn, g),
           NEW q, NEW e, BlocksDue(f, fn, g, 0, q, e)
    PROVE  fn = g /\ q = e
  <1> DEFINE bs == g.blocks
             s == fn.blocks
             C == Blocks(bs, Len(bs))
  <1>1. ListOf(bs, BlockFits) /\ IsRecord(g, FunctionNames)
    BY FunctionForm
  <1>2. Encoded(C, 6) /\ Len(C) = Len(bs)
    <2> HIDE DEF bs
    <2> QED BY <1>1, BlocksFit DEF bs
  <1>3. fn.values = g.values /\ Due(f, C, s, bs, 0, q, e)
    BY DEF BlocksDue
  <1>4. s = bs /\ q = e
    <2> HIDE DEF bs, s, C
    <2> QED BY <1>2, <1>3, DueEnds
  <1>5. fn = g
    BY <1>1, <1>3, <1>4 DEF IsRecord, FunctionNames, SameHead
  <1> QED BY <1>4, <1>5

-----------------------------------------------------------------------------
(* A module that is read as it was written                                 *)

\* What is due of a function, of the functions and of a table, where the cursor stands.
FunctionDue(f, fn, g, l, st, q, e) ==
    /\ SameHead(fn, g)
    /\ st = "values" => ValuesDue(f, fn, g, l.values, q, e)
    /\ st = "blocks" => BlocksDue(f, fn, g, l.blocks, q, e)
    /\ st = "insts" => InstsDue(f, fn, g, l.blocks, l.insts, q, e)
FunctionsDue(f, F, G, l, st, q, e) ==
    /\ Begun(F, G, l.entries)
    /\ \E z : FunctionDue(f, F[Len(F)], G[Len(F)], l, st, q, z) /\ Ahead(f, Functions(G, Len(G)), Len(F), z, e)
TableDue(f, i, o, m, n, q, e) ==
    /\ i = 1 => o.major = m.major /\ o.minor = m.minor /\ o.name = m.name /\ q = e
    /\ i = 2 => Due(f, SymbolNames(m.symbols), o.symbols, m.symbols, n, q, e)
    /\ i = 3 => Due(f, TypesOf(m.types), o.types, m.types, n, q, e)
    /\ i = 4 => Due(f, ConstantsOf(m.constants), o.constants, m.constants, n, q, e)
    /\ i = 5 => Due(f, Functions(m.functions, Len(m.functions)), o.functions, m.functions, n, q, e)
\* The first k sections are read.
Got(o, m, k) ==
    /\ k >= 1 => o.major = m.major /\ o.minor = m.minor /\ o.name = m.name
    /\ k >= 2 => o.symbols = m.symbols
    /\ k >= 3 => o.types = m.types
    /\ k >= 4 => o.constants = m.constants
    /\ k >= 5 => o.functions = m.functions

Stages == {"header", "open", "start", "entries", "values", "blocks", "insts"}
\* The sections to come, and what is to come of this one.
Place(f, m, st, i, q, e) ==
    /\ st = "header" => i = 1 /\ e = Len(f)
    /\ st = "open" => e = Len(f) /\ Ahead(f, Sections(m), i - 1, q, e)
    /\ st \notin {"header", "open"} => Ahead(f, Sections(m), i, e, Len(f))
Rest(f, o, m, l, st, i, q, e) ==
    /\ st = "start" => Lies(f, q, Body(m, i), e)
    /\ st = "entries" => TableDue(f, i, o, m, l.entries, q, e)
    /\ st \in InFunctionStages => i = 5 /\ FunctionsDue(f, o.functions, m.functions, l, st, q, e)

\* The inductive invariant of the way that a file takes which was not damaged: it is not
\* refused, what is read is what was written, and the bytes to come are those of what is due.
Comes ==
    /\ Storable(source) /\ bytes = Write(source) /\ sumFits
    /\ status # "rejected" /\ stage \in Stages
    /\ section = 1 => left.entries = 0
    /\ Got(out, source, section - 1)
    /\ Place(bytes, source, stage, section, pos, end)
    /\ Rest(bytes, out, source, left, stage, section, pos, end)

LEMMA WrittenFacts ==
    ASSUME Cursor, Comes
    PROVE  /\ FileOK /\ Typed(source) /\ WellFormed(source) /\ source.major = 1
           /\ \A t \in DOMAIN source.types : source.types[t].tag = "Int" => IntTypeOk(source.types[t])
           /\ \A i \in DOMAIN source.symbols : Utf8(source.symbols[i])
           /\ pos \in Nat /\ end \in Nat /\ pos <= end /\ end <= Len(bytes) /\ section \in 1..5
  <1>1. Storable(source)
    BY DEF Comes
  <1>2. FileOK /\ pos \in Nat /\ end \in Nat /\ pos <= end /\ end <= Len(bytes) /\ section \in 1..5
    BY CursorFile DEF Cursor
  <1> QED BY <1>1, <1>2 DEF Storable

LEMMA ComesOn ==
    ASSUME Comes, [Next]_vars, status' # "rejected", stage' \in Stages, section' = 1 => left'.entries = 0,
           Got(out', source, section' - 1), Place(bytes, source, stage', section', pos', end'),
           Rest(bytes, out', source, left', stage', section', pos', end')
    PROVE  Comes'
  <1>1. bytes' = bytes /\ sumFits' = sumFits /\ source' = source
    BY FileStays
  <1> QED BY <1>1 DEF Comes

LEMMA GotRest ==
    ASSUME IsRecord(out, OutNames), NEW name \in {"symbols", "types", "constants", "functions"}, But(out, out', name),
           NEW m, NEW k \in 0..4, Got(out, m, k),
           name = "symbols" => k <= 1, name = "types" => k <= 2, name = "constants" => k <= 3
    PROVE  Got(out', m, k)
  <1>1. /\ out.major' = out.major /\ out.minor' = out.minor /\ out.name' = out.name
        /\ name # "symbols" => out.symbols' = out.symbols
        /\ name # "types" => out.types' = out.types
        /\ name # "constants" => out.constants' = out.constants
    BY OutRest
  <1> QED BY <1>1 DEF Got

\* A step inside a section that reads an entry.
LEMMA EntryComes ==
    ASSUME Cursor, Comes, [Next]_vars, section' = section, end' = end, status' = "reading", section > 1,
           stage \notin {"header", "open"}, stage' \in {"entries", "values", "blocks", "insts"},
           Got(out', source, section - 1),
           stage' = "entries" => TableDue(bytes, section, out', source, left'.entries, pos', end),
           stage' \in InFunctionStages =>
              section = 5 /\ FunctionsDue(bytes, out'.functions, source.functions, left', stage', pos', end)
    PROVE  Comes'
  <1>1. Place(bytes, source, stage', section', pos', end')
    BY DEF Comes, Place
  <1>2. Rest(bytes, out', source, left', stage', section', pos', end')
    BY DEF Rest
  <1> QED BY <1>1, <1>2, ComesOn DEF Cursor, Stages

-----------------------------------------------------------------------------
(* The next read finds what was written                                    *)

LEMMA HeaderDue ==
    ASSUME Cursor, Comes, stage = "header"
    PROVE  \E r \in HeaderEntry : Ahead(bytes, Sections(source), 0, r.pos, end)
  <1> DEFINE S == Sections(source)
             H == HeaderBytes(FORMAT_MINOR)
  <1>1. FileOK /\ Typed(source) /\ end = Len(bytes) /\ bytes = Write(source) /\ sumFits /\ end \in Nat
    BY WrittenFacts DEF Comes, Place
  <1>2. S \in Seq(Seq(Byte))
    BY <1>1, SectionsEncoded DEF Encoded
  <1>3. bytes = H \o FlattenSeq(S)
    BY <1>1, WriteSections
  <1>4. H \in Seq(Byte)
    <2>1. FitsIn(FORMAT_MINOR, W16)
      BY DEF FitsIn, FORMAT_MINOR, W16
    <2> QED BY <2>1, HeaderTyped
  <1> HIDE DEF S, H
  <1>5. FlattenSeq(S) \in Seq(Byte)
    BY <1>2, FlattenTyped
  <1>6. Lies(bytes, 0, H \o FlattenSeq(S), end)
    <2>1. bytes \in Seq(Byte)
      BY <1>1 DEF FileOK
    <2>2. bytes = SubSeq(bytes, 0 + 1, end)
      BY <1>1, <2>1
    <2> QED BY <1>1, <1>3, <2>1, <2>2 DEF Lies
  <1>7. PICK m : Lies(bytes, 0, H, m) /\ Lies(bytes, m, FlattenSeq(S), end)
    BY <1>4, <1>5, <1>6, LiesSplit
  <1>8. m <= end
    BY <1>7 DEF Lies
  <1>9. Ends(0, H, m)
    BY <1>1, <1>7, <1>8, EndsLies
  <1>10. \E r \in HeaderEntry : r.pos = m
    BY <1>1, <1>9, HeaderReads DEF H
  <1>11. Ahead(bytes, S, 0, m, end)
    BY <1>2, <1>7, AheadStarts
  <1> QED BY <1>10, <1>11 DEF S

LEMMA OpenDue ==
    ASSUME Cursor, Comes, stage = "open"
    PROVE  \E r \in SectionEntry : /\ Lies(bytes, r.pos, Body(source, section), r.val)
                                   /\ Ahead(bytes, Sections(source), section, r.val, Len(bytes))
  <1> DEFINE S == Sections(source)
             B == Body(source, section)
             n == Len(B)
             H == SectionHead(section, n)
             k == section - 1
             four == 4
  <1>1. /\ FileOK /\ Typed(source) /\ end = Len(bytes) /\ section \in 1..5 /\ pos \in Nat /\ end \in Nat
        /\ Ahead(bytes, S, k, pos, end)
    BY WrittenFacts DEF Comes, Place
  <1>2. Encoded(S, four) /\ Len(S) = 5 /\ S[section] = Section(section, B)
    BY <1>1, SectionsEncoded
  <1>3. B \in Seq(Byte) /\ FitsIn(n, W64)
    BY <1>1, BodyTyped, BodyFits
  <1>4. Section(section, B) = H \o B /\ H \in Seq(Byte) /\ n \in Nat
    <2> HIDE DEF B
    <2> QED BY <1>1, <1>3, SectionTyped
  <1>5. k < Len(S) /\ k + 1 = section
    BY <1>1, <1>2
  <1> HIDE DEF S, B, H, k, four
  <1>6. PICK m : Lies(bytes, pos, S[section], m) /\ Ahead(bytes, S, section, m, end)
    <2>1. \E m : Lies(bytes, pos, S[k + 1], m) /\ Ahead(bytes, S, k + 1, m, end)
      BY <1>1, <1>2, <1>5, AheadStep
    <2> QED BY <1>5, <2>1
  <1>7. PICK j : Lies(bytes, pos, H, j) /\ Lies(bytes, j, B, m)
    BY <1>2, <1>3, <1>4, <1>6, LiesSplit
  <1>8. j \in Nat /\ m \in Nat /\ j <= m /\ m <= end /\ n = m - j
    <2>1. j \in Nat /\ m \in Nat /\ n = m - j /\ j <= m
      BY <1>7, LiesTyped DEF Lies
    <2>2. m <= end
      BY <1>2, <1>6, AheadLeast
    <2> QED BY <2>1, <2>2
  <1>9. Ends(pos, H, j)
    BY <1>1, <1>7, <1>8, EndsLies
  <1> DEFINE r == Res(j + n, j)
  <1>10. r.pos = j /\ r.val = m
    BY <1>8, ResFacts
  <1>11. IsSection(r, n)
    <2>1. r = Res(r.pos + n, r.pos)
      BY <1>10
    <2>2. Ends(pos, SectionHead(section, n), r.pos)
      BY <1>9, <1>10 DEF H
    <2>3. n <= end - r.pos
      BY <1>1, <1>4, <1>8, <1>10
    <2> HIDE DEF r, n
    <2> QED BY <1>3, <2>1, <2>2, <2>3 DEF IsSection
  <1>12. r \in SectionEntry
    BY <1>1, <1>11, SectionRead
  <1> HIDE DEF r
  <1> QED BY <1>1, <1>6, <1>7, <1>10, <1>12 DEF S, B

LEMMA ModuleDue ==
    ASSUME Cursor, Comes, stage = "start", section = 1
    PROVE  \E r \in ModuleEntry : /\ r.pos = end /\ r.val.major = source.major
                                  /\ r.val.minor = source.minor /\ r.val.name = source.name
  <1>1. FileOK /\ Typed(source) /\ source.major = 1 /\ pos \in Nat /\ pos <= end
    BY WrittenFacts
  <1>2. Lies(bytes, pos, ModuleBytes(source), end)
    BY DEF Comes, Rest, Body
  <1>3. end <= end
    BY <1>1 DEF FileOK
  <1>4. Ends(pos, ModuleBytes(source), end)
    BY <1>1, <1>2, <1>3, EndsLies
  <1>5. ModuleLegal(source)
    BY <1>1, BodyTyped
  <1> QED BY <1>1, <1>4, <1>5, ModuleReads

\* The table o that section i fills, with the least number of bytes of an entry.
LEMMA TableStarts ==
    ASSUME FileOK, NEW m, Typed(m), NEW i \in 2..5, NEW f, NEW o, NEW q, NEW e, Lies(f, q, Body(m, i), e),
           i = 2 => IsSeq(o.symbols) /\ Len(o.symbols) = 0,
           i = 3 => IsSeq(o.types) /\ Len(o.types) = 0,
           i = 4 => IsSeq(o.constants) /\ Len(o.constants) = 0,
           i = 5 => IsSeq(o.functions) /\ Len(o.functions) = 0
    PROVE  \E n, p : /\ Lies(f, q, U32(n), p) /\ FitsIn(n, W32) /\ n \in Nat /\ TableDue(f, i, o, m, n, p, e)
                     /\ p \in Nat /\ p <= e /\ n * MinLen(i) <= e - p
                     /\ i = 3 => n = Len(m.types)
  <1>1. /\ ListOf(m.symbols, NameFits) /\ ListOf(m.types, TypeFits)
        /\ ListOf(m.constants, ConstFits) /\ ListOf(m.functions, FunctionFits)
    BY BodyTyped

  <1>2. CASE i = 2
    <2> DEFINE l == m.symbols
               s == o.symbols
               F == SymbolNames(l)
               least == 2
    <2>1. ListOf(l, NameFits)
      BY <1>1
    <2>2. Body(m, i) = SymbolList(l)
      BY <1>2 DEF Body, SymbolList
    <2>3. IsSeq(s) /\ Len(s) = 0
      BY <1>2
    <2> HIDE DEF l, s
    <2>4. /\ IsSeq(l) /\ Len(l) \in Nat /\ FitsIn(Len(l), W32) /\ Encoded(F, least) /\ Len(F) = Len(l)
          /\ SymbolList(l) = U32(Len(l)) \o FlattenSeq(F)
      BY <2>1, NamesFit
    <2> HIDE DEF F, least
    <2>5. Lies(f, q, U32(Len(l)) \o FlattenSeq(F), e)
      BY <2>2, <2>4
    <2>6. PICK p : /\ Lies(f, q, U32(Len(l)), p) /\ Due(f, F, s, l, Len(l), p, e)
                   /\ p \in Nat /\ p <= e /\ Len(l) * least <= e - p
      BY <2>3, <2>4, <2>5, DueStarts
    <2>7. TableDue(f, i, o, m, Len(l), p, e)
      BY <1>2, <2>6 DEF TableDue, l, s, F
    <2>8. MinLen(i) = least
      BY <1>2, MinLens DEF least
    <2>9. Len(l) * MinLen(i) <= e - p
      BY <2>6, <2>8
    <2> HIDE DEF least
    <2>10. i = 3 => Len(l) = Len(m.types)
      BY <1>2 DEF l
    <2> QED BY <2>4, <2>6, <2>7, <2>9, <2>10

  <1>3. CASE i = 3
    <2> DEFINE l == m.types
               s == o.types
               F == TypesOf(l)
               least == 1
    <2>1. ListOf(l, TypeFits)
      BY <1>1
    <2>2. Body(m, i) = List(l, TypeBytes)
      BY <1>3 DEF Body
    <2>3. IsSeq(s) /\ Len(s) = 0
      BY <1>3
    <2> HIDE DEF l, s
    <2>4. /\ IsSeq(l) /\ Len(l) \in Nat /\ FitsIn(Len(l), W32) /\ Encoded(F, least) /\ Len(F) = Len(l)
          /\ List(l, TypeBytes) = U32(Len(l)) \o FlattenSeq(F)
      BY <2>1, TypesFit
    <2> HIDE DEF F, least
    <2>5. Lies(f, q, U32(Len(l)) \o FlattenSeq(F), e)
      BY <2>2, <2>4
    <2>6. PICK p : /\ Lies(f, q, U32(Len(l)), p) /\ Due(f, F, s, l, Len(l), p, e)
                   /\ p \in Nat /\ p <= e /\ Len(l) * least <= e - p
      BY <2>3, <2>4, <2>5, DueStarts
    <2>7. TableDue(f, i, o, m, Len(l), p, e)
      BY <1>3, <2>6 DEF TableDue, l, s, F
    <2>8. MinLen(i) = least
      BY <1>3, MinLens DEF least
    <2>9. Len(l) * MinLen(i) <= e - p
      BY <2>6, <2>8
    <2> HIDE DEF least
    <2>10. i = 3 => Len(l) = Len(m.types)
      BY <1>3 DEF l
    <2> QED BY <2>4, <2>6, <2>7, <2>9, <2>10

  <1>4. CASE i = 4
    <2> DEFINE l == m.constants
               s == o.constants
               F == ConstantsOf(l)
               least == 3
    <2>1. ListOf(l, ConstFits)
      BY <1>1
    <2>2. Body(m, i) = List(l, ConstBytes)
      BY <1>4 DEF Body
    <2>3. IsSeq(s) /\ Len(s) = 0
      BY <1>4
    <2> HIDE DEF l, s
    <2>4. /\ IsSeq(l) /\ Len(l) \in Nat /\ FitsIn(Len(l), W32) /\ Encoded(F, least) /\ Len(F) = Len(l)
          /\ List(l, ConstBytes) = U32(Len(l)) \o FlattenSeq(F)
      BY <2>1, ConstantsFit
    <2> HIDE DEF F, least
    <2>5. Lies(f, q, U32(Len(l)) \o FlattenSeq(F), e)
      BY <2>2, <2>4
    <2>6. PICK p : /\ Lies(f, q, U32(Len(l)), p) /\ Due(f, F, s, l, Len(l), p, e)
                   /\ p \in Nat /\ p <= e /\ Len(l) * least <= e - p
      BY <2>3, <2>4, <2>5, DueStarts
    <2>7. TableDue(f, i, o, m, Len(l), p, e)
      BY <1>4, <2>6 DEF TableDue, l, s, F
    <2>8. MinLen(i) = least
      BY <1>4, MinLens DEF least
    <2>9. Len(l) * MinLen(i) <= e - p
      BY <2>6, <2>8
    <2> HIDE DEF least
    <2>10. i = 3 => Len(l) = Len(m.types)
      BY <1>4 DEF l
    <2> QED BY <2>4, <2>6, <2>7, <2>9, <2>10

  <1>5. CASE i = 5
    <2> DEFINE l == m.functions
               s == o.functions
               F == Functions(l, Len(l))
               least == 13
    <2>1. ListOf(l, FunctionFits)
      BY <1>1
    <2>2. Body(m, i) = List(l, FunctionBytes)
      BY <1>5 DEF Body
    <2>3. IsSeq(s) /\ Len(s) = 0
      BY <1>5
    <2> HIDE DEF l, s
    <2>4. /\ IsSeq(l) /\ Len(l) \in Nat /\ FitsIn(Len(l), W32) /\ Encoded(F, least) /\ Len(F) = Len(l)
          /\ List(l, FunctionBytes) = U32(Len(l)) \o FlattenSeq(F)
      BY <2>1, FunctionsFit
    <2> HIDE DEF F, least
    <2>5. Lies(f, q, U32(Len(l)) \o FlattenSeq(F), e)
      BY <2>2, <2>4
    <2>6. PICK p : /\ Lies(f, q, U32(Len(l)), p) /\ Due(f, F, s, l, Len(l), p, e)
                   /\ p \in Nat /\ p <= e /\ Len(l) * least <= e - p
      BY <2>3, <2>4, <2>5, DueStarts
    <2>7. TableDue(f, i, o, m, Len(l), p, e)
      BY <1>5, <2>6 DEF TableDue, l, s, F
    <2>8. MinLen(i) = least
      BY <1>5, MinLens DEF least
    <2>9. Len(l) * MinLen(i) <= e - p
      BY <2>6, <2>8
    <2> HIDE DEF least
    <2>10. i = 3 => Len(l) = Len(m.types)
      BY <1>5 DEF l
    <2> QED BY <2>4, <2>6, <2>7, <2>9, <2>10

  <1>6. i = 2 \/ i = 3 \/ i = 4 \/ i = 5
    OBVIOUS
  <1> QED BY <1>2, <1>3, <1>4, <1>5, <1>6


LEMMA CountDue ==
    ASSUME Cursor, Shape, Fresh, Comes, stage = "start", section \in 2..5
    PROVE  \E r \in CountEntry : TableDue(bytes, section, out, source, r.val, r.pos, end)
  <1>1. /\ FileOK /\ Typed(source) /\ WellFormed(source) /\ pos \in Nat /\ end \in Nat
    BY WrittenFacts
  <1>2. Lies(bytes, pos, Body(source, section), end)
    BY DEF Comes, Rest
  <1>3. /\ section = 2 => IsSeq(out.symbols) /\ Len(out.symbols) = 0
        /\ section = 3 => IsSeq(out.types) /\ Len(out.types) = 0
        /\ section = 4 => IsSeq(out.constants) /\ Len(out.constants) = 0
        /\ section = 5 => IsSeq(out.functions) /\ Len(out.functions) = 0
    BY DEF Shape, Fresh, Later, Early
  <1>4. PICK n, p : /\ Lies(bytes, pos, U32(n), p) /\ FitsIn(n, W32) /\ n \in Nat
                    /\ TableDue(bytes, section, out, source, n, p, end)
                    /\ p \in Nat /\ p <= end /\ n * MinLen(section) <= end - p
                    /\ section = 3 => n = Len(source.types)
    BY <1>1, <1>2, <1>3, TableStarts
  <1>5. section = 3 => n >= SCALAR_TYPES
    <2>1. IsSeq(source.types)
      BY <1>1, BodyTyped, TypesFit
    <2>2. IsPrefix(Scalars, source.types)
      BY <1>1 DEF WellFormed
    <2>3. Len(source.types) >= 14
      BY <2>1, <2>2, ScalarsPrefix
    <2> QED BY <1>4, <2>3, ScalarsApart DEF SCALAR_TYPES
  <1>6. Ends(pos, U32(n), p)
    BY <1>1, <1>4, EndsLies
  <1> DEFINE r == Res(n, p)
  <1>7. r.val = n /\ r.pos = p /\ Result(r, pos, n, U32(n))
    BY <1>6, ResFacts
  <1> HIDE DEF r
  <1>8. r.val * MinLen(section) <= end - r.pos
    BY <1>4, <1>7
  <1>9. r \in CountEntry
    BY <1>1, <1>4, <1>5, <1>7, <1>8, CountRead
  <1> QED BY <1>4, <1>7, <1>9

\* The next entry of a list, and what is due after it.
LEMMA DueGrows ==
    ASSUME NEW f, NEW F, NEW least, Encoded(F, least), NEW s, NEW t, Len(F) = Len(t), NEW n \in Nat, n > 0,
           NEW q, NEW e, Due(f, F, s, t, n, q, e)
    PROVE  /\ Len(s) + 1 \in 1..Len(t)
           /\ \E m : /\ Lies(f, q, F[Len(s) + 1], m) /\ m \in Nat /\ m <= e
                     /\ \A u : Grows(s, u, t[Len(s) + 1]) => Due(f, F, u, t, n - 1, m, e)
  <1>1. /\ Len(s) \in Nat /\ Len(s) + 1 \in 1..Len(t)
        /\ \E m : Lies(f, q, F[Len(s) + 1], m) /\ Ahead(f, F, Len(s) + 1, m, e) /\ m \in Nat /\ m <= e
    BY DueStep
  <1>2. PICK m : Lies(f, q, F[Len(s) + 1], m) /\ Ahead(f, F, Len(s) + 1, m, e) /\ m \in Nat /\ m <= e
    BY <1>1
  <1>3. ASSUME NEW u, Grows(s, u, t[Len(s) + 1]) PROVE Due(f, F, u, t, n - 1, m, e)
    <2>1. Partly(s, t, n)
      BY DEF Due
    <2>2. Partly(u, t, n - 1) /\ Len(u) = Len(s) + 1
      BY <1>3, <2>1, PartlyGrows
    <2> QED BY <1>2, <2>2 DEF Due
  <1> QED BY <1>1, <1>2, <1>3

\* A table that was filled by interning is filled by interning again.
LEMMA NewEntry ==
    ASSUME NEW s, NEW t, NEW n \in Nat, n > 0, Partly(s, t, n), NoDuplicates(t)
    PROVE  InternedAt(s, t[Len(s) + 1])
  <1> DEFINE k == Len(s)
             x == t[k + 1]
  <1>1. k \in Nat /\ DOMAIN s = 1..k /\ DOMAIN t = 1..Len(t) /\ Len(t) = n + k /\ \A i \in 1..k : s[i] = t[i]
    BY SeqAny DEF Partly
  <1>2. k + 1 \in DOMAIN t /\ \A i \in 1..k : i \in DOMAIN t /\ i # k + 1
    BY <1>1
  <1>3. \A i \in 1..k : t[i] # t[k + 1]
    BY <1>2 DEF NoDuplicates
  <1>4. IdsOf(s, x) = {}
    <2> HIDE DEF k
    <2> QED BY <1>1, <1>3 DEF IdsOf
  <1> QED BY <1>4 DEF InternedAt, IdOf

LEMMA SymbolDue ==
    ASSUME Cursor, Shape, Room, Comes, stage = "entries", section = 2, left.entries > 0
    PROVE  \E r \in SymbolEntry : \A u : Grows(out.symbols, u, r.val)
             => Due(bytes, SymbolNames(source.symbols), u, source.symbols, left.entries - 1, r.pos, end)
  <1> DEFINE n == left.entries
             s == out.symbols
             t == source.symbols
             F == SymbolNames(t)
             d == t[Len(s) + 1]
             least == 2
  <1>1. FileOK /\ Typed(source) /\ WellFormed(source) /\ pos \in Nat /\ end \in Nat
    BY WrittenFacts
  <1>2. n \in Nat /\ n > 0
    BY LeftFacts
  <1>3. Due(bytes, F, s, t, n, pos, end)
    BY DEF Comes, Rest, TableDue
  <1>4. ListOf(t, NameFits) /\ NoDuplicates(t)
    BY <1>1, BodyTyped DEF WellFormed
  <1> HIDE DEF n, s, t
  <1>5. /\ Encoded(F, least) /\ Len(F) = Len(t) /\ DOMAIN t = 1..Len(t)
        /\ \A i \in 1..Len(t) : NameFits(t[i]) /\ F[i] = List(t[i], U8)
    BY <1>1, <1>4, NamesFit, SeqAny
  <1> HIDE DEF F, least
  <1>6. /\ Len(s) + 1 \in 1..Len(t)
        /\ \E m : /\ Lies(bytes, pos, F[Len(s) + 1], m) /\ m \in Nat /\ m <= end
                  /\ \A u : Grows(s, u, d) => Due(bytes, F, u, t, n - 1, m, end)
    BY <1>2, <1>3, <1>5, DueGrows
  <1>7. PICK m : /\ Lies(bytes, pos, F[Len(s) + 1], m) /\ m \in Nat /\ m <= end
                 /\ \A u : Grows(s, u, d) => Due(bytes, F, u, t, n - 1, m, end)
    BY <1>6
  <1>8. Partly(s, t, n)
    BY <1>3 DEF Due
  <1>9. NameFits(d) /\ InternedAt(s, d) /\ F[Len(s) + 1] = List(d, U8)
    BY <1>2, <1>4, <1>5, <1>6, <1>8, NewEntry
  <1>10. BlobLegal(d) /\ Utf8(d)
    <2>1. \A i \in DOMAIN t : Utf8(t[i])
      BY WrittenFacts DEF t
    <2> QED BY <1>1, <1>5, <1>6, <1>9, <2>1, NameLeast
  <1> HIDE DEF d
  <1>13. Ends(pos, List(d, U8), m)
    BY <1>1, <1>7, <1>9, EndsLies
  <1> DEFINE r == Res(d, m)
  <1>14. r.val = d /\ r.pos = m
    BY ResFacts
  <1>15. Result(r, pos, d, List(d, U8))
    BY <1>13, ResFacts
  <1> HIDE DEF r
  <1>16. r \in SymbolEntry
    BY <1>1, <1>9, <1>10, <1>14, <1>15, SymbolRead DEF s
  <1> QED BY <1>7, <1>14, <1>16 DEF n, s, t, F

LEMMA TypeDue ==
    ASSUME Cursor, Shape, Room, Tables, Comes, stage = "entries", section = 3, left.entries > 0
    PROVE  \E r \in TypeEntry : \A u : Grows(out.types, u, r.val)
             => Due(bytes, TypesOf(source.types), u, source.types, left.entries - 1, r.pos, end)
  <1> DEFINE n == left.entries
             s == out.types
             t == source.types
             F == TypesOf(t)
             d == t[Len(s) + 1]
             least == 1
  <1>1. FileOK /\ Typed(source) /\ WellFormed(source) /\ pos \in Nat /\ end \in Nat
    BY WrittenFacts
  <1>2. n \in Nat /\ n > 0
    BY LeftFacts
  <1>3. Due(bytes, F, s, t, n, pos, end)
    BY DEF Comes, Rest, TableDue
  <1>4. ListOf(t, TypeFits) /\ NoDuplicates(t)
    BY <1>1, BodyTyped DEF WellFormed
  <1> HIDE DEF n, s, t
  <1>5. /\ Encoded(F, least) /\ Len(F) = Len(t) /\ DOMAIN t = 1..Len(t)
        /\ \A i \in 1..Len(t) : TypeFits(t[i]) /\ F[i] = TypeBytes(t[i])
    BY <1>1, <1>4, TypesFit, SeqAny
  <1> HIDE DEF F, least
  <1>6. /\ Len(s) + 1 \in 1..Len(t)
        /\ \E m : /\ Lies(bytes, pos, F[Len(s) + 1], m) /\ m \in Nat /\ m <= end
                  /\ \A u : Grows(s, u, d) => Due(bytes, F, u, t, n - 1, m, end)
    BY <1>2, <1>3, <1>5, DueGrows
  <1>7. PICK m : /\ Lies(bytes, pos, F[Len(s) + 1], m) /\ m \in Nat /\ m <= end
                 /\ \A u : Grows(s, u, d) => Due(bytes, F, u, t, n - 1, m, end)
    BY <1>6
  <1>8. Partly(s, t, n)
    BY <1>3 DEF Due
  <1>9. TypeFits(d) /\ InternedAt(s, d) /\ F[Len(s) + 1] = TypeBytes(d)
    BY <1>2, <1>4, <1>5, <1>6, <1>8, NewEntry
  <1>10. TypeLegal(d)
    BY <1>1, <1>9, TypeLeast
  <1>11. TypeOk(d, Len(s))
    <2>1. \A i \in DOMAIN t : (t[i].tag = "Int" => IntTypeOk(t[i])) /\ References(t[i]) \subseteq 0..i - 2
      BY <1>1, WrittenFacts DEF t, WellFormed
    <2>2. Len(s) \in Nat
      BY <1>8, SeqAny DEF Partly
    <2> DEFINE k == Len(s) + 1
    <2>3. (t[k].tag = "Int" => IntTypeOk(t[k])) /\ References(t[k]) \subseteq 0..k - 2
      BY <1>5, <1>6, <2>1
    <2>4. EarlierOnly(d, Len(s))
      <3>1. k - 2 = Len(s) - 1
        BY <2>2
      <3> HIDE DEF k
      <3>2. References(t[k]) \subseteq 0..Len(s) - 1
        BY <2>3, <3>1
      <3> QED BY <3>2 DEF EarlierOnly, k
    <2>5. Len(s) < SCALAR_TYPES => d = Scalars[Len(s) + 1]
      <3>1. SCALAR_TYPES = 14
        BY ScalarsApart DEF SCALAR_TYPES
      <3>2. \A i \in 1..14 : t[i] = Scalars[i]
        <4>1. IsSeq(t)
          BY <1>8 DEF Partly
        <4>2. IsPrefix(Scalars, t)
          BY <1>1 DEF WellFormed, t
        <4> QED BY <4>1, <4>2, ScalarsPrefix
      <3>3. Len(s) < 14 => k \in 1..14
        BY <2>2
      <3> QED BY <3>1, <3>2, <3>3
    <2> QED BY <1>9, <2>3, <2>4, <2>5 DEF TypeOk, s
  <1> HIDE DEF d
  <1>13. Ends(pos, TypeBytes(d), m)
    BY <1>1, <1>7, <1>9, EndsLies
  <1> DEFINE r == Res(d, m)
  <1>14. r.val = d /\ r.pos = m
    BY ResFacts
  <1>15. Result(r, pos, d, TypeBytes(d))
    BY <1>13, ResFacts
  <1> HIDE DEF r
  <1>16. r \in TypeEntry
    BY <1>1, <1>10, <1>11, <1>14, <1>15, TypeRead DEF s
  <1> QED BY <1>7, <1>14, <1>16 DEF n, s, t, F

LEMMA ConstantDue ==
    ASSUME Cursor, Shape, Room, Comes, stage = "entries", section = 4, left.entries > 0
    PROVE  \E r \in ConstantEntry : \A u : Grows(out.constants, u, r.val)
             => Due(bytes, ConstantsOf(source.constants), u, source.constants, left.entries - 1, r.pos, end)
  <1> DEFINE n == left.entries
             s == out.constants
             t == source.constants
             F == ConstantsOf(t)
             d == t[Len(s) + 1]
             least == 3
  <1>1. FileOK /\ Typed(source) /\ WellFormed(source) /\ pos \in Nat /\ end \in Nat
    BY WrittenFacts
  <1>2. n \in Nat /\ n > 0
    BY LeftFacts
  <1>3. Due(bytes, F, s, t, n, pos, end)
    BY DEF Comes, Rest, TableDue
  <1>4. ListOf(t, ConstFits) /\ NoDuplicates(t)
    BY <1>1, BodyTyped DEF WellFormed
  <1> HIDE DEF n, s, t
  <1>5. /\ Encoded(F, least) /\ Len(F) = Len(t) /\ DOMAIN t = 1..Len(t)
        /\ \A i \in 1..Len(t) : ConstFits(t[i]) /\ F[i] = ConstBytes(t[i])
    BY <1>1, <1>4, ConstantsFit, SeqAny
  <1> HIDE DEF F, least
  <1>6. /\ Len(s) + 1 \in 1..Len(t)
        /\ \E m : /\ Lies(bytes, pos, F[Len(s) + 1], m) /\ m \in Nat /\ m <= end
                  /\ \A u : Grows(s, u, d) => Due(bytes, F, u, t, n - 1, m, end)
    BY <1>2, <1>3, <1>5, DueGrows
  <1>7. PICK m : /\ Lies(bytes, pos, F[Len(s) + 1], m) /\ m \in Nat /\ m <= end
                 /\ \A u : Grows(s, u, d) => Due(bytes, F, u, t, n - 1, m, end)
    BY <1>6
  <1>8. Partly(s, t, n)
    BY <1>3 DEF Due
  <1>9. ConstFits(d) /\ InternedAt(s, d) /\ F[Len(s) + 1] = ConstBytes(d)
    BY <1>2, <1>4, <1>5, <1>6, <1>8, NewEntry
  <1>10. ConstLegal(d)
    BY <1>1, <1>9, AConstLeast
  <1>11. ConstOk(d)
    <2>1. \A i \in DOMAIN t : t[i].tag = "Int" => Masked(t[i])
      BY <1>1 DEF t, WellFormed
    <2> QED BY <1>5, <1>6, <1>9, <2>1 DEF ConstOk, s
  <1> HIDE DEF d
  <1>13. Ends(pos, ConstBytes(d), m)
    BY <1>1, <1>7, <1>9, EndsLies
  <1> DEFINE r == Res(d, m)
  <1>14. r.val = d /\ r.pos = m
    BY ResFacts
  <1>15. Result(r, pos, d, ConstBytes(d))
    BY <1>13, ResFacts
  <1> HIDE DEF r
  <1>16. r \in ConstantEntry
    BY <1>1, <1>10, <1>11, <1>14, <1>15, ConstantRead
  <1> QED BY <1>7, <1>14, <1>16 DEF n, s, t, F

\* The symbols that a function of the module names are in the table.
Known(g) == \A s \in SymbolsOf(g) : SymbolExists(s)
LEMMA NamesKnown ==
    ASSUME Cursor, Comes, out.symbols = source.symbols
    PROVE  SymbolExists(source.name) /\ \A i \in 1..Len(source.functions) : Known(source.functions[i])
  <1>1. Typed(source) /\ WellFormed(source) /\ FileOK
    BY WrittenFacts
  <1>2. out.symbols = source.symbols
    OBVIOUS
  <1> DEFINE n == Len(source.symbols)
             G == source.functions
             D == DOMAIN G
             R == {None} \cup 0..n - 1
             N(i) == SymbolsOf(G[i])
  <1>3. n \in Nat
    BY <1>1, BodyTyped, NamesFit
  <1>4. DOMAIN G = 1..Len(G)
    <2>1. IsSeq(G)
      BY <1>1, BodyTyped, FunctionsFit
    <2> QED BY <2>1, SeqAny
  <1>5. (UNION {N(i) : i \in D}) \cup {source.name} \subseteq R
    BY <1>1 DEF WellFormed
  <1>6. \A s \in R : SymbolExists(s)
    <2> HIDE DEF n
    <2>1. \A s \in R : s < n
      BY <1>3 DEF None
    <2> QED BY <1>2, <2>1 DEF SymbolExists, n
  <1> HIDE DEF N, R, D
  <1>7. source.name \in R /\ \A i \in D : N(i) \subseteq R
    BY <1>5
  <1> QED BY <1>4, <1>6, <1>7 DEF N, D, Known
LEMMA SymbolsKnown ==
    ASSUME Cursor, Comes, section > 2
    PROVE  SymbolExists(source.name) /\ \A i \in 1..Len(source.functions) : Known(source.functions[i])
  <1>1. out.symbols = source.symbols
    BY DEF Comes, Got, Cursor
  <1> QED BY <1>1, NamesKnown

\* A function as it is when its head is read.
HeadOf(g) == [x \in FunctionNames |-> IF x \in {"values", "blocks"} THEN <<>> ELSE g[x]]
LEMMA HeadSigned ==
    ASSUME FileOK, NEW g, FunctionFits(g), Known(g)
    PROVE  /\ Signed(HeadOf(g)) /\ SameHead(HeadOf(g), g)
           /\ HeadOf(g).values = <<>> /\ HeadOf(g).blocks = <<>>
  <1> DEFINE h == HeadOf(g)
             E == EmptyFunction
             N == Names(ReadsSignature, 6)
  <1>1. /\ h.symbol = g.symbol /\ h.linkage = g.linkage /\ h.abi = g.abi /\ h.variadic = g.variadic
        /\ h.result = g.result /\ h.params = g.params /\ h.values = <<>> /\ h.blocks = <<>>
    BY DEF HeadOf, FunctionNames
  <1>2. /\ SymbolExists(g.symbol) /\ (g.abi.tag = "Custom" => SymbolExists(g.abi.symbol))
    BY DEF Known, SymbolsOf
  <1>3. SignatureFits(g)
    BY FunctionForm
  <1>4. AbiLegal(g.abi)
    <2> DEFINE v == g.abi
    <2>1. AbiFits(v) /\ (v.tag = "Custom" => SymbolExists(v.symbol))
      BY <1>2, <1>3 DEF SignatureFits
    <2> HIDE DEF v
    <2>2. AbiLegal(v)
      BY <2>1, AbiWritten
    <2> QED BY <2>2 DEF v
  <1>5. PairsLegal(g.params)
    <2> DEFINE v == g.params
    <2>1. ListOf(v, PairFits)
      BY <1>3 DEF SignatureFits
    <2> HIDE DEF v
    <2>2. PairsLegal(v)
      BY <2>1, PairsFit
    <2> QED BY <2>2 DEF v
  <1>6. \A i \in 1..6 : Legal(ReadsSignature[i][2], h[ReadsSignature[i][1]])
    <2>1. /\ SymLegal(h.symbol) /\ InTable(LinkageTags, h.linkage) /\ AbiLegal(h.abi)
          /\ IsBool(h.variadic) /\ FitsIn(h.result, W32) /\ PairsLegal(h.params)
      BY <1>1, <1>2, <1>3, <1>4, <1>5 DEF SignatureFits, SymLegal
    <2> HIDE DEF h
    <2> QED BY <2>1, SignatureForm
  <1>7. N = {"symbol", "linkage", "abi", "variadic", "result", "params"} /\ DOMAIN E = {"values", "blocks"}
    BY SignatureForm DEF EmptyFunction
  <1>8. h = [x \in FunctionNames |-> h[x]]
    BY DEF HeadOf
  <1>9. FunctionNames = DOMAIN E \cup N
    BY <1>7 DEF FunctionNames
  <1>10. \A x \in DOMAIN E : h[x] = E[x]
    <2>1. E.values = <<>> /\ E.blocks = <<>>
      BY DEF EmptyFunction
    <2> HIDE DEF h, E
    <2> QED BY <1>1, <1>7, <2>1
  <1> HIDE DEF h
  <1>11. h = [x \in DOMAIN EmptyFunction \cup Names(ReadsSignature, 6) |-> h[x]]
    BY <1>8, <1>9
  <1>12. Signed(h)
    BY <1>6, <1>10, <1>11, FillsRecord DEF Signed
  <1>13. SameHead(h, g)
    BY <1>1 DEF SameHead
  <1> QED BY <1>1, <1>12, <1>13 DEF h

\* The functions that are due go on with the last one.
LEMMA FunctionsGoOn ==
    ASSUME NEW f, NEW F, NEW G, NEW n, Begun(F, G, n), NEW U, NEW t, Changes(F, U, t), NEW l, l.entries = n,
           NEW st, NEW q, NEW z, FunctionDue(f, t, G[Len(F)], l, st, q, z),
           NEW e, Ahead(f, Functions(G, Len(G)), Len(F), z, e)
    PROVE  FunctionsDue(f, U, G, l, st, q, e)
  <1>1. Begun(U, G, n)
    BY BegunStays
  <1>2. Len(U) = Len(F) /\ U[Len(F)] = t
    BY DEF Changes
  <1> QED BY <1>1, <1>2 DEF FunctionsDue

LEMMA HeadDue ==
    ASSUME Cursor, Shape, Room, Comes, stage = "entries", section = 5, left.entries > 0
    PROVE  \E r \in FunctionEntry : \A U, l :
             Grows(out.functions, U, r.val.function) /\ l.entries = left.entries - 1 /\ l.values = r.val.values
             => FunctionsDue(bytes, U, source.functions, l, "values", r.pos, end)
  <1> DEFINE n == left.entries
             s == out.functions
             t == source.functions
             F == Functions(t, Len(t))
             k == Len(s) + 1
             g == t[k]
             h == HeadOf(g)
             i == Len(g.values)
             least == 13
  <1>1. FileOK /\ Typed(source) /\ pos \in Nat /\ end \in Nat /\ pos <= end
    BY WrittenFacts
  <1>2. n \in Nat /\ n > 0
    BY LeftFacts
  <1>3. Due(bytes, F, s, t, n, pos, end)
    BY DEF Comes, Rest, TableDue
  <1>4. ListOf(t, FunctionFits) /\ \A j \in 1..Len(t) : Known(t[j])
    BY <1>1, BodyTyped, SymbolsKnown
  <1> HIDE DEF n, s, t
  <1>5. /\ Encoded(F, least) /\ Len(F) = Len(t) /\ \A j \in 1..Len(t) : FunctionFits(t[j]) /\ F[j] = FunctionBytes(t[j])
    BY <1>1, <1>4, FunctionsFit
  <1> HIDE DEF F, least
  <1>6. /\ Len(s) \in Nat /\ k \in 1..Len(t)
        /\ \E z : Lies(bytes, pos, F[k], z) /\ Ahead(bytes, F, k, z, end) /\ z \in Nat /\ z <= end
    BY <1>2, <1>3, <1>5, DueStep
  <1>7. PICK z : Lies(bytes, pos, F[k], z) /\ Ahead(bytes, F, k, z, end) /\ z \in Nat /\ z <= end
    BY <1>6
  <1>8. FunctionFits(g) /\ Known(g) /\ F[k] = FunctionBytes(g)
    BY <1>4, <1>5, <1>6
  <1>9. Partly(s, t, n)
    BY <1>3 DEF Due
  <1>10. g = t[k]
    OBVIOUS
  <1> HIDE DEF g
  <1>11. Signed(h) /\ SameHead(h, g) /\ h.values = <<>> /\ h.blocks = <<>>
    BY <1>1, <1>8, HeadSigned
  <1> HIDE DEF h
  <1>12. PICK j, m : /\ Lies(bytes, pos, SignatureBytes(g), j) /\ Lies(bytes, j, U32(i), m)
                     /\ ValuesDue(bytes, h, g, i, m, z)
                     /\ m \in Nat /\ m <= z /\ z \in Nat /\ i * 4 <= z - m
    <2>1. Lies(bytes, pos, FunctionBytes(g), z)
      BY <1>7, <1>8
    <2> QED BY <1>1, <1>8, <1>11, <2>1, ValuesComing
  <1>13. i \in Nat /\ FitsIn(i, W32)
    <2> DEFINE vs == g.values
    <2>1. ListOf(vs, ValueFits)
      BY <1>8, FunctionForm
    <2> HIDE DEF vs
    <2>2. Len(vs) \in Nat /\ FitsIn(Len(vs), W32)
      BY <1>1, <2>1, ValuesFit
    <2> QED BY <2>2 DEF vs
  <1> HIDE DEF i
  <1>14. Ends(pos, SignatureBytes(h) \o U32(i), m)
    <2>1. SignatureBytes(g) = SignatureBytes(h)
      BY <1>11, SignatureSame
    <2>2. Lies(bytes, pos, SignatureBytes(h) \o U32(i), m)
      BY <1>12, <2>1, LiesJoin
    <2> DEFINE b == SignatureBytes(h) \o U32(i)
    <2>3. m <= end /\ Lies(bytes, pos, b, m)
      BY <1>1, <1>7, <1>12, <2>2
    <2> HIDE DEF b
    <2>4. Ends(pos, b, m)
      BY <1>1, <2>3, EndsLies
    <2> QED BY <2>4 DEF b
  <1> DEFINE v == [function |-> h, values |-> i]
             r == Res(v, m)
  <1>15. v.function = h /\ v.values = i
    OBVIOUS
  <1>16. v = [function |-> h, values |-> i]
    OBVIOUS
  <1> HIDE DEF v
  <1>17. r.val = v /\ r.pos = m /\ r = Res(v, r.pos)
    BY ResFacts
  <1> HIDE DEF r
  <1>18. i * MIN_VALUE_LEN <= end - r.pos
    <2>1. MIN_VALUE_LEN = 4
      BY DEF MIN_VALUE_LEN, W32
    <2>2. i * 4 <= end - m
      BY <1>1, <1>7, <1>12, <1>13
    <2> QED BY <1>17, <2>1, <2>2
  <1>19. IsHead(r, h, i)
    BY <1>11, <1>13, <1>14, <1>16, <1>17, <1>18 DEF IsHead
  <1>20. r \in FunctionEntry
    BY <1>1, <1>19, FunctionRead
  <1>21. ASSUME NEW U, NEW l, Grows(s, U, r.val.function), l.entries = n - 1, l.values = r.val.values
         PROVE  FunctionsDue(bytes, U, t, l, "values", r.pos, end)
    <2>1. Grows(s, U, h) /\ l.values = i
      BY <1>15, <1>17, <1>21
    <2>2. Begun(U, t, n - 1) /\ Len(U) = k
      BY <1>2, <1>9, <2>1, PartlyGrows
    <2>3. U[Len(U)] = h
      BY <2>1, <2>2 DEF Grows
    <2>4. t[Len(U)] = g
      BY <1>10, <2>2
    <2>5. FunctionDue(bytes, U[Len(U)], t[Len(U)], l, "values", r.pos, z)
      BY <1>11, <1>12, <1>17, <2>1, <2>3, <2>4 DEF FunctionDue
    <2>6. Ahead(bytes, Functions(t, Len(t)), Len(U), z, end)
      BY <1>7, <2>2 DEF F
    <2>7. Begun(U, t, l.entries)
      BY <1>21, <2>2
    <2> QED BY <2>5, <2>6, <2>7 DEF FunctionsDue
  <1> QED BY <1>20, <1>21 DEF s, t, n

\* The function that is read, and the one that was written.
LEMMA FnComes ==
    ASSUME Cursor, Shape, Room, Comes, stage \in InFunctionStages,
           NEW g, g = source.functions[Len(out.functions)]
    PROVE  /\ FileOK /\ pos \in Nat /\ end \in Nat /\ pos <= end /\ section = 5 /\ FunctionShape(Fn)
           /\ FunctionFits(g) /\ Known(g) /\ Begun(out.functions, source.functions, left.entries)
           /\ \E z : /\ FunctionDue(bytes, Fn, g, left, stage, pos, z) /\ z \in Nat /\ z <= end
                     /\ Ahead(bytes, Functions(source.functions, Len(source.functions)), Len(out.functions), z, end)
  <1> DEFINE F == out.functions
             G == source.functions
             C == Functions(G, Len(G))
  <1>1. FileOK /\ Typed(source) /\ pos \in Nat /\ end \in Nat /\ pos <= end
    BY WrittenFacts
  <1>2. section = 5 /\ FunctionsDue(bytes, F, G, left, stage, pos, end)
    BY DEF Comes, Rest
  <1>3. Begun(F, G, left.entries)
    BY <1>2 DEF FunctionsDue
  <1>4. FunctionShape(Fn)
    BY FnShape DEF Shape
  <1>5. PICK z : FunctionDue(bytes, Fn, g, left, stage, pos, z) /\ Ahead(bytes, C, Len(F), z, end)
    BY <1>2 DEF FunctionsDue, Fn
  <1>6. ListOf(G, FunctionFits) /\ \A i \in 1..Len(G) : Known(G[i])
    <2>1. ListOf(G, FunctionFits)
      BY <1>1, BodyTyped
    <2>2. section > 2
      BY <1>2
    <2> QED BY <2>1, <2>2, SymbolsKnown
  <1>7. left.entries \in Nat
    BY LeftFacts
  <1> DEFINE least == 13
  <1>8. Encoded(C, least) /\ \A i \in 1..Len(G) : FunctionFits(G[i])
    <2> HIDE DEF G
    <2> QED BY <1>1, <1>6, FunctionsFit
  <1>9. Len(F) \in 1..Len(G)
    BY <1>3, <1>7, BegunIn
  <1> HIDE DEF C, least, F
  <1>10. z \in Nat /\ z <= end
    BY <1>5, <1>8, AheadLeast
  <1>11. FunctionFits(g) /\ Known(g)
    BY <1>6, <1>8, <1>9 DEF F
  <1> QED BY <1>1, <1>2, <1>3, <1>4, <1>5, <1>10, <1>11 DEF F, C

LEMMA AValueDue ==
    ASSUME Cursor, Shape, Room, Comes, stage = "values", left.values > 0
    PROVE  \E r \in ValueEntry : \A t, U, l :
             /\ But(Fn, t, "values") /\ Grows(Fn.values, t.values, r.val) /\ Changes(out.functions, U, t)
             /\ l.entries = left.entries /\ l.values = left.values - 1
             => FunctionsDue(bytes, U, source.functions, l, "values", r.pos, end)
  <1> DEFINE fn == Fn
             G == source.functions
             F == out.functions
             g == G[Len(F)]
             n == left.values
             v == g.values[Len(fn.values) + 1]
             C == Functions(G, Len(G))
  <1>1. /\ FileOK /\ pos \in Nat /\ end \in Nat /\ pos <= end /\ section = 5 /\ FunctionShape(fn)
        /\ FunctionFits(g) /\ Known(g) /\ Begun(F, G, left.entries)
        /\ \E z : FunctionDue(bytes, fn, g, left, stage, pos, z) /\ z \in Nat /\ z <= end /\ Ahead(bytes, C, Len(F), z, end)
    BY FnComes DEF InFunctionStages
  <1>2. PICK z : FunctionDue(bytes, fn, g, left, stage, pos, z) /\ z \in Nat /\ z <= end /\ Ahead(bytes, C, Len(F), z, end)
    BY <1>1
  <1>3. SameHead(fn, g) /\ ValuesDue(bytes, fn, g, n, pos, z)
    BY <1>2 DEF FunctionDue
  <1>4. n \in Nat /\ n > 0
    BY LeftFacts
  <1>5. Len(fn.blocks) = 0
    BY <1>3 DEF ValuesDue
  <1>6. g = G[Len(F)]
    OBVIOUS
  <1>7. fn = Fn /\ F = out.functions
    OBVIOUS
  <1> HIDE DEF fn, G, F, g, n, C
  <1>8. /\ Len(fn.values) + 1 \in 1..Len(g.values) /\ ValueFits(v)
        /\ \E m : /\ Lies(bytes, pos, ValueBytes(v), m) /\ m \in Nat /\ m <= z
                  /\ \A t : Grows(fn.values, t.values, v) /\ Len(t.blocks) = 0 => ValuesDue(bytes, t, g, n - 1, m, z)
    BY <1>1, <1>3, <1>4, ValuesNext
  <1>9. PICK m : /\ Lies(bytes, pos, ValueBytes(v), m) /\ m \in Nat /\ m <= z
                 /\ \A t : Grows(fn.values, t.values, v) /\ Len(t.blocks) = 0 => ValuesDue(bytes, t, g, n - 1, m, z)
    BY <1>8
  <1>10. SymbolExists(v.name)
    <2>1. DOMAIN g.values = 1..Len(g.values)
      <3> DEFINE vs == g.values
      <3>1. ListOf(vs, ValueFits)
        BY <1>1, FunctionForm
      <3> HIDE DEF vs
      <3>2. IsSeq(vs)
        BY <1>1, <3>1, ValuesFit
      <3>3. DOMAIN vs = 1..Len(vs)
        BY <3>2, SeqAny
      <3> QED BY <3>3 DEF vs
    <2>2. v.name \in SymbolsOf(g)
      BY <1>8, <2>1 DEF SymbolsOf
    <2> QED BY <1>1, <2>2 DEF Known
  <1> HIDE DEF v
  <1>11. /\ FitsIn(v.ty, W32) /\ KindLegal(v.kind) /\ OptSymLegal(v.name)
         /\ v = [ty |-> v.ty, kind |-> v.kind, name |-> v.name]
         /\ U32(v.ty) \in Seq(Byte) /\ KindWritten(v.kind) \in Seq(Byte) /\ Opt(v.name) \in Seq(Byte)
    BY <1>1, <1>8, <1>10, ValueLeast DEF OptSymLegal
  <1>12. ValueBytes(v) = U32(v.ty) \o (KindWritten(v.kind) \o Opt(v.name))
    <2> DEFINE a == U32(v.ty)
               b == KindWritten(v.kind)
               c == Opt(v.name)
    <2>1. ValueBytes(v) = a \o b \o c
      BY DEF ValueBytes, KindWritten
    <2> HIDE DEF a, b, c
    <2>2. a \in Seq(Byte) /\ b \in Seq(Byte) /\ c \in Seq(Byte)
      BY <1>11 DEF a, b, c
    <2>3. a \o b \o c = a \o (b \o c)
      BY <2>2, ConcatAssociative
    <2> QED BY <2>1, <2>3 DEF a, b, c
  <1>13. Ends(pos, ValueBytes(v), m)
    <2>1. m <= end
      BY <1>1, <1>2, <1>9
    <2> QED BY <1>1, <1>9, <2>1, EndsLies
  <1> DEFINE r == Res(v, m)
  <1>14. r.val = v /\ r.pos = m
    BY ResFacts
  <1>15. r = Res([ty |-> v.ty, kind |-> v.kind, name |-> v.name], r.pos)
    BY <1>11, <1>14
  <1> HIDE DEF r
  <1>16. Ends(pos, U32(v.ty) \o (KindWritten(v.kind) \o Opt(v.name)), r.pos)
    BY <1>12, <1>13, <1>14
  <1>17. IsValue(r, v.ty, v.kind, v.name)
    BY <1>11, <1>15, <1>16 DEF IsValue
  <1>18. r \in ValueEntry
    BY <1>1, <1>17, ValueRead
  <1>19. ASSUME NEW t, NEW U, NEW l, But(fn, t, "values"), Grows(fn.values, t.values, r.val), Changes(F, U, t),
                l.entries = left.entries, l.values = n - 1
         PROVE  FunctionsDue(bytes, U, G, l, "values", r.pos, end)
    <2>1. SameHead(fn, t) /\ t.blocks = fn.blocks
      BY <1>1, <1>19, SameSignature
    <2>2. SameHead(t, g)
      BY <1>3, <2>1 DEF SameHead
    <2>3. ValuesDue(bytes, t, g, n - 1, m, z)
      BY <1>5, <1>9, <1>14, <1>19, <2>1
    <2>4. FunctionDue(bytes, t, g, l, "values", m, z)
      BY <1>19, <2>2, <2>3 DEF FunctionDue
    <2> QED BY <1>1, <1>2, <1>6, <1>14, <1>19, <2>4, FunctionsGoOn DEF C
  <1> QED BY <1>18, <1>19 DEF fn, F, G, n

LEMMA BlockCountDue ==
    ASSUME Cursor, Shape, Room, Comes, stage = "values", left.values = 0
    PROVE  \E r \in Count(pos, MIN_BLOCK_LEN) : \A l :
             l.entries = left.entries /\ l.blocks = r.val
             => FunctionsDue(bytes, out.functions, source.functions, l, "blocks", r.pos, end)
  <1> DEFINE fn == Fn
             G == source.functions
             F == out.functions
             g == G[Len(F)]
             C == Functions(G, Len(G))
  <1>1. /\ FileOK /\ pos \in Nat /\ end \in Nat /\ pos <= end /\ section = 5 /\ FunctionShape(fn)
        /\ FunctionFits(g) /\ Known(g) /\ Begun(F, G, left.entries)
        /\ \E z : FunctionDue(bytes, fn, g, left, stage, pos, z) /\ z \in Nat /\ z <= end /\ Ahead(bytes, C, Len(F), z, end)
    BY FnComes DEF InFunctionStages
  <1>2. PICK z : FunctionDue(bytes, fn, g, left, stage, pos, z) /\ z \in Nat /\ z <= end /\ Ahead(bytes, C, Len(F), z, end)
    BY <1>1
  <1>3. left.blocks \in Nat /\ left.insts \in Nat /\ left.values \in Nat /\ left.entries \in Nat
    BY LeftFacts
  <1>4. SameHead(fn, g) /\ ValuesDue(bytes, fn, g, 0, pos, z)
    BY <1>2 DEF FunctionDue
  <1>5. IsSeq(fn.blocks)
    BY <1>1 DEF FunctionShape
  <1> DEFINE n == Len(g.blocks)
  <1>6. fn = F[Len(F)] /\ g = G[Len(F)]
    BY DEF Fn
  <1> HIDE DEF fn, g
  <1>7. /\ FitsIn(n, W32) /\ n \in Nat
        /\ \E m : /\ Lies(bytes, pos, U32(n), m) /\ m \in Nat /\ m <= z /\ z \in Nat
                  /\ n * 6 <= z - m
                  /\ BlocksDue(bytes, fn, g, n, m, z)
    BY <1>1, <1>4, <1>5, ValuesDone
  <1> HIDE DEF n
  <1>8. PICK m : /\ Lies(bytes, pos, U32(n), m) /\ m \in Nat /\ m <= z /\ n * 6 <= z - m
                 /\ BlocksDue(bytes, fn, g, n, m, z)
    BY <1>7
  <1>9. m <= end /\ n * 6 <= end - m
    BY <1>1, <1>2, <1>7, <1>8
  <1>10. Ends(pos, U32(n), m)
    BY <1>1, <1>8, <1>9, EndsLies
  <1> DEFINE r == Res(n, m)
  <1>11. r.val = n /\ r.pos = m /\ Result(r, pos, n, U32(n))
    BY <1>10, ResFacts
  <1> HIDE DEF r
  <1> DEFINE least == MIN_BLOCK_LEN
  <1>12. least = 6
    BY DEF MIN_BLOCK_LEN, W32
  <1>13. r \in Count(pos, least)
    <2>1. least \in Nat /\ r.val * least <= end - r.pos
      BY <1>9, <1>11, <1>12
    <2> HIDE DEF least
    <2> QED BY <1>1, <1>7, <1>11, <2>1, CountReads
  <1>14. ASSUME NEW l, l.entries = left.entries, l.blocks = r.val
         PROVE  FunctionsDue(bytes, F, G, l, "blocks", r.pos, end)
    <2>1. FunctionDue(bytes, fn, g, l, "blocks", r.pos, z)
      BY <1>4, <1>8, <1>11, <1>14 DEF FunctionDue
    <2> QED BY <1>1, <1>2, <1>6, <1>14, <2>1 DEF FunctionsDue
  <1> QED BY <1>13, <1>14 DEF least

\* A block as it is when its head is read.
HeadOfBlock(c) == [name |-> c.name, params |-> c.params, insts |-> <<>>, term |-> [tag |-> "None"]]
LEMMA HeadBlocked ==
    ASSUME NEW c, OptLegal(c.name), SymbolExists(c.name), PairsLegal(c.params)
    PROVE  /\ Blocked(HeadOfBlock(c)) /\ BlockHead(HeadOfBlock(c)) = BlockHead(c)
           /\ HeadOfBlock(c).name = c.name /\ HeadOfBlock(c).params = c.params /\ HeadOfBlock(c).insts = <<>>
  <1> DEFINE h == HeadOfBlock(c)
             E == EmptyBlock
             N == Names(BlockFields, 2)
  <1>1. h.name = c.name /\ h.params = c.params /\ h.insts = <<>> /\ h.term = [tag |-> "None"]
    BY DEF HeadOfBlock
  <1>2. OptSymLegal(h.name) /\ PairsLegal(h.params)
    BY <1>1 DEF OptSymLegal
  <1>3. N = {"name", "params"} /\ DOMAIN E = {"insts", "term"}
    <2>1. BlockFields[1][1] = "name" /\ BlockFields[2][1] = "params"
      BY DEF BlockFields
    <2>2. DOMAIN E = {"insts", "term"}
      BY DEF EmptyBlock
    <2> QED BY <2>1, <2>2 DEF Names
  <1>4. E.insts = <<>> /\ E.term = [tag |-> "None"]
    BY DEF EmptyBlock
  <1>5. h = [x \in {"name", "params", "insts", "term"} |-> h[x]]
    BY DEF HeadOfBlock
  <1> HIDE DEF h, E, N
  <1>6. h = [x \in DOMAIN E \cup N |-> h[x]]
    <2>1. DOMAIN E \cup N = {"name", "params", "insts", "term"}
      BY <1>3
    <2> QED BY <1>5, <2>1
  <1>7. \A x \in DOMAIN E : h[x] = E[x]
    BY <1>1, <1>3, <1>4
  <1>8. \A i \in 1..2 : Legal(BlockFields[i][2], h[BlockFields[i][1]])
    BY <1>2, BlockForm
  <1>9. Fills(BlockFields, EmptyBlock, 2, h)
    BY <1>6, <1>7, <1>8, FillsRecord DEF E, N
  <1> QED BY <1>1, <1>9 DEF Blocked, BlockHead, h

LEMMA ABlockDue ==
    ASSUME Cursor, Shape, Room, Comes, stage = "blocks", left.blocks > 0
    PROVE  \E r \in BlockEntry : \A t, U, l :
             /\ But(Fn, t, "blocks") /\ Grows(Fn.blocks, t.blocks, r.val.block) /\ Changes(out.functions, U, t)
             /\ l.entries = left.entries /\ l.blocks = left.blocks - 1 /\ l.insts = r.val.insts
             => FunctionsDue(bytes, U, source.functions, l, "insts", r.pos, end)
  <1> DEFINE fn == Fn
             G == source.functions
             F == out.functions
             g == G[Len(F)]
             C == Functions(G, Len(G))
  <1>1. /\ FileOK /\ pos \in Nat /\ end \in Nat /\ pos <= end /\ section = 5 /\ FunctionShape(fn)
        /\ FunctionFits(g) /\ Known(g) /\ Begun(F, G, left.entries)
        /\ \E z : FunctionDue(bytes, fn, g, left, stage, pos, z) /\ z \in Nat /\ z <= end /\ Ahead(bytes, C, Len(F), z, end)
    BY FnComes DEF InFunctionStages
  <1>2. PICK z : FunctionDue(bytes, fn, g, left, stage, pos, z) /\ z \in Nat /\ z <= end /\ Ahead(bytes, C, Len(F), z, end)
    BY <1>1
  <1>3. left.blocks \in Nat /\ left.insts \in Nat /\ left.values \in Nat /\ left.entries \in Nat
    BY LeftFacts
  <1> DEFINE n == left.blocks
             k == Len(fn.blocks) + 1
             c == g.blocks[k]
             i == Len(c.insts)
             h == HeadOfBlock(c)
  <1>4. SameHead(fn, g) /\ BlocksDue(bytes, fn, g, n, pos, z)
    BY <1>2 DEF FunctionDue
  <1>5. n \in Nat /\ n > 0
    BY <1>3
  <1>6. g = G[Len(F)]
    OBVIOUS
  <1>7. c = g.blocks[k]
    OBVIOUS
  <1> HIDE DEF fn, G, F, g, n, C, c
  <1>8. /\ k \in 1..Len(g.blocks) /\ BlockFits(c) /\ FitsIn(i, W32) /\ i \in Nat
        /\ \E j, m : /\ Lies(bytes, pos, BlockHead(c), j) /\ Lies(bytes, j, U32(i), m)
                     /\ m \in Nat /\ m <= z /\ z \in Nat /\ i * 4 <= z - m
                     /\ \A t, x : /\ Grows(fn.blocks, t.blocks, x) /\ t.values = fn.values
                                  /\ x.name = c.name /\ x.params = c.params /\ x.insts = <<>>
                                  => InstsDue(bytes, t, g, n - 1, i, m, z)
    BY <1>1, <1>4, <1>5, <1>7, BlocksNext
  <1> HIDE DEF i
  <1>9. PICK j, m : /\ Lies(bytes, pos, BlockHead(c), j) /\ Lies(bytes, j, U32(i), m)
                    /\ m \in Nat /\ m <= z /\ z \in Nat /\ i * 4 <= z - m
                    /\ \A t, x : /\ Grows(fn.blocks, t.blocks, x) /\ t.values = fn.values
                                 /\ x.name = c.name /\ x.params = c.params /\ x.insts = <<>>
                                 => InstsDue(bytes, t, g, n - 1, i, m, z)
    BY <1>8
  <1>10. SymbolExists(c.name)
    <2>1. DOMAIN g.blocks = 1..Len(g.blocks)
      <3> DEFINE bs == g.blocks
      <3>1. ListOf(bs, BlockFits)
        BY <1>1, FunctionForm
      <3> HIDE DEF bs
      <3>2. IsSeq(bs)
        BY <1>1, <3>1, BlocksFit
      <3>3. DOMAIN bs = 1..Len(bs)
        BY <3>2, SeqAny
      <3> QED BY <3>3 DEF bs
    <2> HIDE DEF k
    <2>2. c.name \in SymbolsOf(g)
      BY <1>7, <1>8, <2>1 DEF SymbolsOf
    <2> QED BY <1>1, <2>2 DEF Known
  <1>11. OptLegal(c.name) /\ PairsLegal(c.params)
    BY <1>1, <1>8, BlockLeast
  <1>12. Blocked(h) /\ BlockHead(h) = BlockHead(c) /\ h.name = c.name /\ h.params = c.params /\ h.insts = <<>>
    BY <1>10, <1>11, HeadBlocked
  <1> HIDE DEF h
  <1>13. Ends(pos, BlockHead(h) \o U32(i), m)
    <2> DEFINE b == BlockHead(h) \o U32(i)
    <2>1. Lies(bytes, pos, b, m)
      BY <1>9, <1>12, LiesJoin
    <2>2. m <= end
      BY <1>1, <1>2, <1>9
    <2> HIDE DEF b
    <2>3. Ends(pos, b, m)
      BY <1>1, <2>1, <2>2, EndsLies
    <2> QED BY <2>3 DEF b
  <1> DEFINE v == [block |-> h, insts |-> i]
             r == Res(v, m)
  <1>14. v.block = h /\ v.insts = i
    OBVIOUS
  <1>15. v = [block |-> h, insts |-> i]
    OBVIOUS
  <1> HIDE DEF v
  <1>16. r.val = v /\ r.pos = m /\ r = Res(v, r.pos)
    BY ResFacts
  <1> HIDE DEF r
  <1>17. i * MIN_INSTRUCTION_LEN <= end - r.pos
    <2>1. MIN_INSTRUCTION_LEN = 4
      BY DEF MIN_INSTRUCTION_LEN, W32
    <2>2. i * 4 <= end - m
      BY <1>1, <1>2, <1>8, <1>9
    <2> QED BY <1>16, <2>1, <2>2
  <1>18. IsBlock(r, h, i)
    BY <1>8, <1>12, <1>13, <1>15, <1>16, <1>17 DEF IsBlock
  <1>19. r \in BlockEntry
    BY <1>1, <1>18, BlockRead
  <1>20. ASSUME NEW t, NEW U, NEW l, But(fn, t, "blocks"), Grows(fn.blocks, t.blocks, r.val.block), Changes(F, U, t),
                l.entries = left.entries, l.blocks = n - 1, l.insts = r.val.insts
         PROVE  FunctionsDue(bytes, U, G, l, "insts", r.pos, end)
    <2>1. SameHead(fn, t) /\ t.values = fn.values
      BY <1>1, <1>20, SameSignature
    <2>2. SameHead(t, g)
      BY <1>4, <2>1 DEF SameHead
    <2>3. Grows(fn.blocks, t.blocks, h) /\ l.insts = i
      BY <1>14, <1>16, <1>20
    <2>4. InstsDue(bytes, t, g, n - 1, i, m, z)
      BY <1>9, <1>12, <2>1, <2>3
    <2>5. FunctionDue(bytes, t, g, l, "insts", m, z)
      BY <1>20, <2>2, <2>3, <2>4 DEF FunctionDue
    <2> QED BY <1>1, <1>2, <1>6, <1>16, <1>20, <2>5, FunctionsGoOn DEF C
  <1> QED BY <1>19, <1>20 DEF fn, F, G, n

LEMMA AnInstDue ==
    ASSUME Cursor, Shape, Room, Comes, stage = "insts", left.insts > 0
    PROVE  \E r \in InstEntry : \A t, U, l, x :
             /\ But(Fn, t, "blocks") /\ Changes(Fn.blocks, t.blocks, x) /\ Changes(out.functions, U, t)
             /\ But(Blk, x, "insts") /\ Grows(Blk.insts, x.insts, r.val)
             /\ l.entries = left.entries /\ l.blocks = left.blocks /\ l.insts = left.insts - 1
             => FunctionsDue(bytes, U, source.functions, l, "insts", r.pos, end)
  <1> DEFINE fn == Fn
             G == source.functions
             F == out.functions
             g == G[Len(F)]
             C == Functions(G, Len(G))
  <1>1. /\ FileOK /\ pos \in Nat /\ end \in Nat /\ pos <= end /\ section = 5 /\ FunctionShape(fn)
        /\ FunctionFits(g) /\ Known(g) /\ Begun(F, G, left.entries)
        /\ \E z : FunctionDue(bytes, fn, g, left, stage, pos, z) /\ z \in Nat /\ z <= end /\ Ahead(bytes, C, Len(F), z, end)
    BY FnComes DEF InFunctionStages
  <1>2. PICK z : FunctionDue(bytes, fn, g, left, stage, pos, z) /\ z \in Nat /\ z <= end /\ Ahead(bytes, C, Len(F), z, end)
    BY <1>1
  <1>3. left.blocks \in Nat /\ left.insts \in Nat /\ left.values \in Nat /\ left.entries \in Nat
    BY LeftFacts
  <1> DEFINE n == left.blocks
             i == left.insts
             b == LastBlock(fn)
             c == g.blocks[Len(fn.blocks)]
             v == c.insts[Len(b.insts) + 1]
  <1>4. SameHead(fn, g) /\ InstsDue(bytes, fn, g, n, i, pos, z)
    BY <1>2 DEF FunctionDue
  <1>5. n \in Nat /\ i \in Nat /\ i > 0
    BY <1>3
  <1>6. g = G[Len(F)] /\ b = LastBlock(fn) /\ c = g.blocks[Len(fn.blocks)] /\ v = c.insts[Len(b.insts) + 1]
    OBVIOUS
  <1>7. Blk = b /\ IsRecord(b, BlockNames)
    <2>1. Len(Fn.blocks) > 0
      BY <1>4 DEF InstsDue, Begun
    <2>2. Len(out.functions) > 0
      BY DEF Shape, InFunctionStages
    <2>3. BlockShape(Blk)
      BY <2>1, <2>2, FnShape
    <2> QED BY <2>3 DEF Blk, LastBlock, BlockShape
  <1> HIDE DEF fn, G, F, g, n, i, C, b, c, v
  <1>8. /\ InstFits(v)
        /\ \E m : /\ Lies(bytes, pos, InstBytes(v), m) /\ m \in Nat /\ m <= z
                  /\ \A t, x : /\ Changes(fn.blocks, t.blocks, x) /\ t.values = fn.values
                               /\ x.name = b.name /\ x.params = b.params /\ Grows(b.insts, x.insts, v)
                               => InstsDue(bytes, t, g, n, i - 1, m, z)
    <2>1. FileOK /\ FunctionFits(g) /\ InstsDue(bytes, fn, g, n, i, pos, z)
      BY <1>1, <1>4
    <2>2. b = LastBlock(fn) /\ c = g.blocks[Len(fn.blocks)]
      BY <1>6
    <2>3. v = c.insts[Len(b.insts) + 1]
      BY <1>6
    <2> QED BY <1>5, <2>1, <2>2, <2>3, InstsNext, SMTT(60)
  <1>9. PICK m : /\ Lies(bytes, pos, InstBytes(v), m) /\ m \in Nat /\ m <= z
                 /\ \A t, x : /\ Changes(fn.blocks, t.blocks, x) /\ t.values = fn.values
                              /\ x.name = b.name /\ x.params = b.params /\ Grows(b.insts, x.insts, v)
                              => InstsDue(bytes, t, g, n, i - 1, m, z)
    BY <1>8
  <1>10. /\ InstLegal(v.kind) /\ OptLegal(v.result) /\ v = [kind |-> v.kind, result |-> v.result]
         /\ InstBytes(v) = InstWritten(v.kind) \o Opt(v.result)
    BY <1>1, <1>8, AnInstLeast
  <1>11. Ends(pos, InstBytes(v), m)
    <2>1. m <= end
      BY <1>1, <1>2, <1>9
    <2> QED BY <1>1, <1>9, <2>1, EndsLies
  <1> DEFINE r == Res(v, m)
  <1>12. r.val = v /\ r.pos = m
    BY ResFacts
  <1>13. r = Res([kind |-> v.kind, result |-> v.result], r.pos)
    BY <1>10, <1>12
  <1> HIDE DEF r
  <1>14. IsInst(r, v.kind, v.result)
    BY <1>10, <1>11, <1>12, <1>13 DEF IsInst
  <1>15. r \in InstEntry
    BY <1>1, <1>14, InstRead
  <1>16. ASSUME NEW t, NEW U, NEW l, NEW x, But(fn, t, "blocks"), Changes(fn.blocks, t.blocks, x), Changes(F, U, t),
                But(b, x, "insts"), Grows(b.insts, x.insts, r.val),
                l.entries = left.entries, l.blocks = n, l.insts = i - 1
         PROVE  FunctionsDue(bytes, U, G, l, "insts", r.pos, end)
    <2>1. SameHead(fn, t) /\ t.values = fn.values
      BY <1>1, <1>16, SameSignature
    <2>2. SameHead(t, g)
      BY <1>4, <2>1 DEF SameHead
    <2>3. x.name = b.name /\ x.params = b.params
      BY <1>7, <1>16, BlkRest
    <2>4. InstsDue(bytes, t, g, n, i - 1, m, z)
      BY <1>9, <1>12, <1>16, <2>1, <2>3
    <2>5. FunctionDue(bytes, t, g, l, "insts", m, z)
      BY <1>16, <2>2, <2>4 DEF FunctionDue
    <2> QED BY <1>1, <1>2, <1>6, <1>12, <1>16, <2>5, FunctionsGoOn DEF C
  <1> QED BY <1>7, <1>15, <1>16 DEF fn, F, G, n, i

LEMMA ATermDue ==
    ASSUME Cursor, Shape, Room, Comes, stage = "insts", left.insts = 0
    PROVE  \E r \in TermEntry : \A t, U, l, x :
             /\ But(Fn, t, "blocks") /\ Changes(Fn.blocks, t.blocks, x) /\ Changes(out.functions, U, t)
             /\ But(Blk, x, "term") /\ x.term = r.val
             /\ l.entries = left.entries /\ l.blocks = left.blocks
             => FunctionsDue(bytes, U, source.functions, l, "blocks", r.pos, end)
  <1> DEFINE fn == Fn
             G == source.functions
             F == out.functions
             g == G[Len(F)]
             C == Functions(G, Len(G))
  <1>1. /\ FileOK /\ pos \in Nat /\ end \in Nat /\ pos <= end /\ section = 5 /\ FunctionShape(fn)
        /\ FunctionFits(g) /\ Known(g) /\ Begun(F, G, left.entries)
        /\ \E z : FunctionDue(bytes, fn, g, left, stage, pos, z) /\ z \in Nat /\ z <= end /\ Ahead(bytes, C, Len(F), z, end)
    BY FnComes DEF InFunctionStages
  <1>2. PICK z : FunctionDue(bytes, fn, g, left, stage, pos, z) /\ z \in Nat /\ z <= end /\ Ahead(bytes, C, Len(F), z, end)
    BY <1>1
  <1>3. left.blocks \in Nat /\ left.insts \in Nat /\ left.values \in Nat /\ left.entries \in Nat
    BY LeftFacts
  <1> DEFINE n == left.blocks
             b == LastBlock(fn)
             c == g.blocks[Len(fn.blocks)]
             v == c.term
  <1>4. SameHead(fn, g) /\ InstsDue(bytes, fn, g, n, 0, pos, z)
    BY <1>2 DEF FunctionDue
  <1>5. n \in Nat
    BY <1>3
  <1>6. g = G[Len(F)] /\ b = LastBlock(fn) /\ c = g.blocks[Len(fn.blocks)] /\ v = c.term
    OBVIOUS
  <1>7. Blk = b /\ IsRecord(b, BlockNames)
    <2>1. Len(Fn.blocks) > 0
      BY <1>4 DEF InstsDue, Begun
    <2>2. Len(out.functions) > 0
      BY DEF Shape, InFunctionStages
    <2>3. BlockShape(Blk)
      BY <2>1, <2>2, FnShape
    <2> QED BY <2>3 DEF Blk, LastBlock, BlockShape
  <1> HIDE DEF fn, G, F, g, n, C, b, c
  <1>8. /\ TermLegal(v)
        /\ \E m : /\ Lies(bytes, pos, TermWritten(v), m) /\ m \in Nat /\ m <= z
                  /\ \A t, x : /\ Changes(fn.blocks, t.blocks, x) /\ t.values = fn.values /\ IsRecord(x, BlockNames)
                               /\ x.name = b.name /\ x.params = b.params /\ x.insts = b.insts /\ x.term = v
                               => BlocksDue(bytes, t, g, n, m, z)
    BY <1>1, <1>4, <1>5, <1>6, TermNext
  <1> HIDE DEF v
  <1>9. PICK m : /\ Lies(bytes, pos, TermWritten(v), m) /\ m \in Nat /\ m <= z
                 /\ \A t, x : /\ Changes(fn.blocks, t.blocks, x) /\ t.values = fn.values /\ IsRecord(x, BlockNames)
                              /\ x.name = b.name /\ x.params = b.params /\ x.insts = b.insts /\ x.term = v
                              => BlocksDue(bytes, t, g, n, m, z)
    BY <1>8
  <1>10. Ends(pos, TermWritten(v), m)
    <2>1. m <= end
      BY <1>1, <1>2, <1>9
    <2> QED BY <1>1, <1>9, <2>1, EndsLies
  <1> DEFINE r == Res(v, m)
  <1>11. r.val = v /\ r.pos = m /\ Result(r, pos, v, TermWritten(v))
    BY <1>10, ResFacts
  <1> HIDE DEF r
  <1>12. r \in TermEntry
    BY <1>1, <1>8, <1>11, TermRead
  <1>13. ASSUME NEW t, NEW U, NEW l, NEW x, But(fn, t, "blocks"), Changes(fn.blocks, t.blocks, x), Changes(F, U, t),
                But(b, x, "term"), x.term = r.val, l.entries = left.entries, l.blocks = n
         PROVE  FunctionsDue(bytes, U, G, l, "blocks", r.pos, end)
    <2>1. SameHead(fn, t) /\ t.values = fn.values
      BY <1>1, <1>13, SameSignature
    <2>2. SameHead(t, g)
      BY <1>4, <2>1 DEF SameHead
    <2>3. IsRecord(x, BlockNames) /\ x.name = b.name /\ x.params = b.params /\ x.insts = b.insts
      BY <1>7, <1>13, BlkRest
    <2>4. BlocksDue(bytes, t, g, n, m, z)
      BY <1>9, <1>11, <1>13, <2>1, <2>3
    <2>5. FunctionDue(bytes, t, g, l, "blocks", m, z)
      BY <1>13, <2>2, <2>4 DEF FunctionDue
    <2> QED BY <1>1, <1>2, <1>6, <1>11, <1>13, <2>5, FunctionsGoOn DEF C
  <1> QED BY <1>7, <1>12, <1>13 DEF fn, F, G, n

LEMMA FunctionEndDue ==
    ASSUME Cursor, Shape, Room, Comes, stage = "blocks", left.blocks = 0
    PROVE  TableDue(bytes, 5, out, source, left.entries, pos, end)
  <1> DEFINE fn == Fn
             G == source.functions
             F == out.functions
             g == G[Len(F)]
             C == Functions(G, Len(G))
  <1>1. /\ FileOK /\ pos \in Nat /\ end \in Nat /\ pos <= end /\ section = 5 /\ FunctionShape(fn)
        /\ FunctionFits(g) /\ Known(g) /\ Begun(F, G, left.entries)
        /\ \E z : FunctionDue(bytes, fn, g, left, stage, pos, z) /\ z \in Nat /\ z <= end /\ Ahead(bytes, C, Len(F), z, end)
    BY FnComes DEF InFunctionStages
  <1>2. PICK z : FunctionDue(bytes, fn, g, left, stage, pos, z) /\ z \in Nat /\ z <= end /\ Ahead(bytes, C, Len(F), z, end)
    BY <1>1
  <1>3. left.blocks \in Nat /\ left.insts \in Nat /\ left.values \in Nat /\ left.entries \in Nat
    BY LeftFacts
  <1>4. SameHead(fn, g) /\ BlocksDue(bytes, fn, g, 0, pos, z) /\ IsRecord(fn, FunctionNames)
    BY <1>1, <1>2 DEF FunctionDue, FunctionShape
  <1>5. fn = F[Len(F)] /\ g = G[Len(F)]
    BY DEF Fn
  <1> HIDE DEF fn, g
  <1>6. fn = g /\ pos = z
    BY <1>1, <1>4, FunctionDone
  <1>7. Partly(F, G, left.entries)
    <2> DEFINE n == left.entries
    <2>1. Begun(F, G, n) /\ F[Len(F)] = G[Len(F)]
      BY <1>1, <1>5, <1>6
    <2> HIDE DEF n, F, G
    <2>2. Partly(F, G, n)
      BY <2>1, BegunDone
    <2> QED BY <2>2 DEF n
  <1>8. Due(bytes, C, F, G, left.entries, pos, end)
    BY <1>2, <1>6, <1>7 DEF Due
  <1> QED BY <1>8 DEF TableDue


\* The section that is read ends where it said, and is what was written.
LEMMA TableEnds ==
    ASSUME FileOK, NEW m, Typed(m), NEW i \in 1..5, NEW f, NEW o, NEW q, NEW e, TableDue(f, i, o, m, 0, q, e),
           Got(o, m, i - 1)
    PROVE  Got(o, m, i) /\ q = e
  <1>1. /\ ListOf(m.symbols, NameFits) /\ ListOf(m.types, TypeFits)
        /\ ListOf(m.constants, ConstFits) /\ ListOf(m.functions, FunctionFits)
    BY BodyTyped
  <1> DEFINE t2 == m.symbols
             t3 == m.types
             t4 == m.constants
             t5 == m.functions
  <1>2. /\ Encoded(SymbolNames(t2), 2) /\ Len(SymbolNames(t2)) = Len(t2)
        /\ Encoded(TypesOf(t3), 1) /\ Len(TypesOf(t3)) = Len(t3)
        /\ Encoded(ConstantsOf(t4), 3) /\ Len(ConstantsOf(t4)) = Len(t4)
    <2> HIDE DEF t2, t3, t4
    <2> QED BY <1>1, NamesFit, TypesFit, ConstantsFit DEF t2, t3, t4
  <1> DEFINE least == 13
  <1>3. Encoded(Functions(t5, Len(t5)), least) /\ Len(Functions(t5, Len(t5))) = Len(t5)
    BY <1>1, FunctionsFit
  <1> HIDE DEF t2, t3, t4, t5, least
  <1>4. CASE i = 1
    BY <1>4 DEF TableDue, Got
  <1>5. CASE i = 2
    <2>1. Due(f, SymbolNames(t2), o.symbols, t2, 0, q, e)
      BY <1>5 DEF TableDue, t2
    <2>2. o.symbols = t2 /\ q = e
      BY <1>2, <2>1, DueEnds
    <2> QED BY <1>5, <2>2 DEF Got, t2
  <1>6. CASE i = 3
    <2>1. Due(f, TypesOf(t3), o.types, t3, 0, q, e)
      BY <1>6 DEF TableDue, t3
    <2>2. o.types = t3 /\ q = e
      BY <1>2, <2>1, DueEnds
    <2> QED BY <1>6, <2>2 DEF Got, t3
  <1>7. CASE i = 4
    <2>1. Due(f, ConstantsOf(t4), o.constants, t4, 0, q, e)
      BY <1>7 DEF TableDue, t4
    <2>2. o.constants = t4 /\ q = e
      BY <1>2, <2>1, DueEnds
    <2> QED BY <1>7, <2>2 DEF Got, t4
  <1>8. CASE i = 5
    <2>1. Due(f, Functions(t5, Len(t5)), o.functions, t5, 0, q, e)
      BY <1>8 DEF TableDue, t5
    <2>2. o.functions = t5 /\ q = e
      BY <1>3, <2>1, DueEnds
    <2> QED BY <1>8, <2>2 DEF Got, t5
  <1> QED BY <1>4, <1>5, <1>6, <1>7, <1>8

LEMMA CloseDue ==
    ASSUME Cursor, Comes, stage = "entries", left.entries = 0
    PROVE  Closes /\ Got(out, source, section) /\ pos = end
  <1>1. FileOK /\ Typed(source) /\ section \in 1..5
    BY WrittenFacts
  <1>2. TableDue(bytes, section, out, source, 0, pos, end) /\ Got(out, source, section - 1)
    BY DEF Comes, Rest
  <1>3. Got(out, source, section) /\ pos = end
    BY <1>1, <1>2, TableEnds
  <1>4. ASSUME section = 2 PROVE SymbolExists(out.name)
    <2>1. out.symbols = source.symbols /\ out.name = source.name
      BY <1>3, <1>4 DEF Got
    <2>2. SymbolExists(source.name)
      BY <2>1, NamesKnown
    <2> QED BY <2>1, <2>2
  <1>5. ASSUME section = 5 PROVE end = Len(bytes)
    <2> DEFINE S == Sections(source)
               four == 4
    <2>1. Ahead(bytes, S, 5, end, Len(bytes))
      BY <1>5 DEF Comes, Place
    <2>2. Encoded(S, four) /\ Len(S) = 5
      BY <1>1, SectionsEncoded
    <2> HIDE DEF S, four
    <2> QED BY <2>1, <2>2, AheadEnds
  <1> QED BY <1>3, <1>4, <1>5 DEF Closes


-----------------------------------------------------------------------------
(* No step of the way leaves it                                            *)

LEMMA HeaderComes ==
    ASSUME Cursor, Comes, [Next]_vars, ReadHeader
    PROVE  Comes'
  <1>1. PICK r \in HeaderEntry : Advance(r, "open")
    BY DEF ReadHeader
  <1>2. stage = "header" /\ end' = end /\ section' = section /\ left' = left /\ out' = out
    BY DEF ReadHeader, At
  <1>3. \E d \in HeaderEntry : Ahead(bytes, Sections(source), 0, d.pos, end)
    BY <1>2, HeaderDue
  <1>4. One(HeaderEntry)
    BY WrittenFacts, HeadsOne
  <1>5. Ahead(bytes, Sections(source), 0, r.pos, end)
    BY <1>3, <1>4 DEF One
  <1>6. pos' = r.pos /\ stage' = "open" /\ status' = status
    BY <1>1 DEF Advance
  <1>7. section = 1 /\ end = Len(bytes) /\ left.entries = 0 /\ status # "rejected" /\ Got(out, source, section - 1)
    BY <1>2 DEF Comes, Place
  <1>8. Place(bytes, source, stage', section', pos', end')
    BY <1>2, <1>5, <1>6, <1>7 DEF Place
  <1>9. Rest(bytes, out', source, left', stage', section', pos', end')
    BY <1>6 DEF Rest, InFunctionStages
  <1> QED BY <1>2, <1>6, <1>7, <1>8, <1>9, ComesOn DEF Stages

LEMMA OpenComes ==
    ASSUME Cursor, Comes, [Next]_vars, OpenSection
    PROVE  Comes'
  <1>1. PICK r \in SectionEntry : Advance(r, "start") /\ end' = r.val
    BY DEF OpenSection
  <1>2. stage = "open" /\ section' = section /\ left' = left /\ out' = out
    BY DEF OpenSection, At
  <1>3. \E d \in SectionEntry : /\ Lies(bytes, d.pos, Body(source, section), d.val)
                                /\ Ahead(bytes, Sections(source), section, d.val, Len(bytes))
    BY <1>2, OpenDue
  <1>4. One(SectionEntry)
    BY WrittenFacts, HeadsOne
  <1>5. /\ Lies(bytes, r.pos, Body(source, section), r.val)
        /\ Ahead(bytes, Sections(source), section, r.val, Len(bytes))
    BY <1>3, <1>4 DEF One
  <1>6. pos' = r.pos /\ stage' = "start" /\ status' = status
    BY <1>1 DEF Advance
  <1>7. (section = 1 => left.entries = 0) /\ status # "rejected" /\ Got(out, source, section - 1)
    BY DEF Comes
  <1>8. Place(bytes, source, stage', section', pos', end')
    BY <1>1, <1>2, <1>5, <1>6 DEF Place
  <1>9. Rest(bytes, out', source, left', stage', section', pos', end')
    BY <1>1, <1>2, <1>5, <1>6 DEF Rest, InFunctionStages
  <1> QED BY <1>2, <1>6, <1>7, <1>8, <1>9, ComesOn DEF Stages

LEMMA ModuleComes ==
    ASSUME Cursor, Shape, Comes, [Next]_vars, ReadModule
    PROVE  Comes'
  <1>1. PICK r \in ModuleEntry :
           /\ Advance(r, "entries")
           /\ out' = [out EXCEPT !.major = r.val.major, !.minor = r.val.minor, !.name = r.val.name]
    BY DEF ReadModule
  <1>2. stage = "start" /\ section = 1 /\ section' = section /\ left' = left /\ end' = end
    BY DEF ReadModule, At
  <1>3. \E d \in ModuleEntry : /\ d.pos = end /\ d.val.major = source.major
                               /\ d.val.minor = source.minor /\ d.val.name = source.name
    BY <1>2, ModuleDue
  <1>4. One(ModuleEntry)
    BY WrittenFacts, HeadsOne
  <1>5. r.pos = end /\ r.val.major = source.major /\ r.val.minor = source.minor /\ r.val.name = source.name
    BY <1>3, <1>4 DEF One
  <1>6. pos' = r.pos /\ stage' = "entries" /\ status' = status
    BY <1>1 DEF Advance
  <1>7. out'.major = r.val.major /\ out'.minor = r.val.minor /\ out'.name = r.val.name
    <2>1. DOMAIN out = OutNames
      BY DEF Shape, IsRecord
    <2> QED BY <1>1, <2>1 DEF OutNames
  <1>8. left.entries = 0 /\ status # "rejected" /\ Place(bytes, source, stage, 1, pos, end)
    BY <1>2 DEF Comes
  <1>9. Place(bytes, source, stage', section', pos', end')
    BY <1>2, <1>6, <1>8 DEF Place
  <1>10. Rest(bytes, out', source, left', stage', section', pos', end')
    BY <1>2, <1>5, <1>6, <1>7 DEF Rest, TableDue, InFunctionStages
  <1>11. Got(out', source, section' - 1)
    BY <1>2 DEF Got
  <1> QED BY <1>2, <1>6, <1>8, <1>9, <1>10, <1>11, ComesOn DEF Stages

LEMMA CountComes ==
    ASSUME Cursor, Shape, Room, Fresh, Comes, [Next]_vars, ReadCount
    PROVE  Comes'
  <1>1. PICK r \in CountEntry : Advance(r, "entries") /\ left' = [left EXCEPT !.entries = r.val]
    BY DEF ReadCount
  <1>2. stage = "start" /\ section > 1 /\ section' = section /\ out' = out /\ end' = end /\ status = "reading"
    BY DEF ReadCount, At
  <1>3. \E d \in CountEntry : TableDue(bytes, section, out, source, d.val, d.pos, end)
    BY <1>2, CountDue DEF Cursor
  <1>4. One(CountEntry)
    BY WrittenFacts, HeadsOne
  <1>5. TableDue(bytes, section, out, source, r.val, r.pos, end)
    BY <1>3, <1>4 DEF One
  <1>6. pos' = r.pos /\ stage' = "entries" /\ status' = status
    BY <1>1 DEF Advance
  <1>7. left'.entries = r.val
    BY <1>1, LeftFacts
  <1>8. Got(out', source, section - 1)
    BY <1>2 DEF Comes
  <1> QED BY <1>2, <1>5, <1>6, <1>7, <1>8, EntryComes DEF InFunctionStages

LEMMA CloseComes ==
    ASSUME Cursor, Comes, [Next]_vars, CloseSection
    PROVE  Comes'
  <1>1. /\ stage = "entries" /\ left.entries = 0 /\ section < 5 /\ section \in 1..5
        /\ section' = section + 1 /\ end' = Len(bytes) /\ pos' = end /\ stage' = "open"
        /\ left' = left /\ out' = out /\ status' = status
    BY DEF CloseSection, At, Cursor
  <1>2. Got(out, source, section)
    BY <1>1, CloseDue
  <1>3. status # "rejected" /\ Ahead(bytes, Sections(source), section, end, Len(bytes))
    BY <1>1 DEF Comes, Place
  <1>4. section' - 1 = section
    BY <1>1
  <1>5. Place(bytes, source, stage', section', pos', end')
    BY <1>1, <1>3, <1>4 DEF Place
  <1>6. Rest(bytes, out', source, left', stage', section', pos', end')
    BY <1>1 DEF Rest, InFunctionStages
  <1> QED BY <1>1, <1>2, <1>3, <1>4, <1>5, <1>6, ComesOn DEF Stages

\* A table of the module grows by the entry that was due.
LEMMA GrownComes ==
    ASSUME Cursor, Shape, Comes, [Next]_vars, NEW k \in 2..4, section = k, section' = section, end' = end,
           stage = "entries", stage' = "entries", status' = "reading",
           NEW name, name = CASE k = 2 -> "symbols" [] k = 3 -> "types" [] k = 4 -> "constants",
           But(out, out', name), TableDue(bytes, k, out', source, left'.entries, pos', end)
    PROVE  Comes'
  <1>1. IsRecord(out, OutNames)
    BY DEF Shape
  <1>2. name \in {"symbols", "types", "constants", "functions"}
    OBVIOUS
  <1>3. (name = "symbols" => k = 2) /\ (name = "types" => k = 3) /\ (name = "constants" => k = 4)
    OBVIOUS
  <1> DEFINE j == k - 1
  <1>4. Got(out, source, j) /\ j \in 0..4
    BY DEF Comes
  <1>5. (name = "symbols" => j <= 1) /\ (name = "types" => j <= 2) /\ (name = "constants" => j <= 3)
    BY <1>3
  <1> HIDE DEF j
  <1>6. Got(out', source, j)
    BY <1>1, <1>2, <1>4, <1>5, GotRest
  <1>7. Got(out', source, section - 1)
    BY <1>6 DEF j
  <1> QED BY <1>7, EntryComes DEF InFunctionStages


LEMMA SymbolComes ==
    ASSUME Cursor, Shape, Room, Comes, [Next]_vars, ReadSymbol
    PROVE  Comes'
  <1>1. PICK r \in SymbolEntry : Advance(r, "entries") /\ ListGrew("symbols", r.val)
    BY ReadsSymbol
  <1>2. /\ stage = "entries" /\ section = 2 /\ left.entries > 0 /\ status = "reading"
        /\ section' = section /\ end' = end /\ left'.entries = left.entries - 1
    BY LeftFacts DEF ReadSymbol, At, OneLess
  <1>3. \E d \in SymbolEntry : \A u : Grows(out.symbols, u, d.val)
          => Due(bytes, SymbolNames(source.symbols), u, source.symbols, left.entries - 1, d.pos, end)
    BY <1>2, SymbolDue
  <1>4. One(SymbolEntry)
    BY WrittenFacts, TablesOne
  <1>5. \A u : Grows(out.symbols, u, r.val)
          => Due(bytes, SymbolNames(source.symbols), u, source.symbols, left.entries - 1, r.pos, end)
    BY <1>3, <1>4 DEF One
  <1>6. pos' = r.pos /\ stage' = "entries" /\ status' = "reading"
    BY <1>1, <1>2 DEF Advance
  <1>7. But(out, out', "symbols") /\ Grows(out.symbols, out'.symbols, r.val)
    BY <1>1 DEF ListGrew
  <1>8. TableDue(bytes, 2, out', source, left'.entries, pos', end)
    BY <1>2, <1>5, <1>6, <1>7 DEF TableDue
  <1> QED BY <1>2, <1>6, <1>7, <1>8, GrownComes

LEMMA TypeComes ==
    ASSUME Cursor, Shape, Room, Tables, Comes, [Next]_vars, ReadType
    PROVE  Comes'
  <1>1. PICK r \in TypeEntry : Advance(r, "entries") /\ ListGrew("types", r.val)
    BY ReadsAType DEF Tables
  <1>2. /\ stage = "entries" /\ section = 3 /\ left.entries > 0 /\ status = "reading"
        /\ section' = section /\ end' = end /\ left'.entries = left.entries - 1
    BY LeftFacts DEF ReadType, At, OneLess
  <1>3. \E d \in TypeEntry : \A u : Grows(out.types, u, d.val)
          => Due(bytes, TypesOf(source.types), u, source.types, left.entries - 1, d.pos, end)
    BY <1>2, TypeDue
  <1>4. One(TypeEntry)
    BY WrittenFacts, TablesOne
  <1>5. \A u : Grows(out.types, u, r.val)
          => Due(bytes, TypesOf(source.types), u, source.types, left.entries - 1, r.pos, end)
    BY <1>3, <1>4 DEF One
  <1>6. pos' = r.pos /\ stage' = "entries" /\ status' = "reading"
    BY <1>1, <1>2 DEF Advance
  <1>7. But(out, out', "types") /\ Grows(out.types, out'.types, r.val)
    BY <1>1 DEF ListGrew
  <1>8. TableDue(bytes, 3, out', source, left'.entries, pos', end)
    BY <1>2, <1>5, <1>6, <1>7 DEF TableDue
  <1> QED BY <1>2, <1>6, <1>7, <1>8, GrownComes

LEMMA ConstantComes ==
    ASSUME Cursor, Shape, Room, Comes, [Next]_vars, ReadConstant
    PROVE  Comes'
  <1>1. PICK r \in ConstantEntry : Advance(r, "entries") /\ ListGrew("constants", r.val)
    BY ReadsConstant
  <1>2. /\ stage = "entries" /\ section = 4 /\ left.entries > 0 /\ status = "reading"
        /\ section' = section /\ end' = end /\ left'.entries = left.entries - 1
    BY LeftFacts DEF ReadConstant, At, OneLess
  <1>3. \E d \in ConstantEntry : \A u : Grows(out.constants, u, d.val)
          => Due(bytes, ConstantsOf(source.constants), u, source.constants, left.entries - 1, d.pos, end)
    BY <1>2, ConstantDue
  <1>4. One(ConstantEntry)
    BY WrittenFacts, TablesOne
  <1>5. \A u : Grows(out.constants, u, r.val)
          => Due(bytes, ConstantsOf(source.constants), u, source.constants, left.entries - 1, r.pos, end)
    BY <1>3, <1>4 DEF One
  <1>6. pos' = r.pos /\ stage' = "entries" /\ status' = "reading"
    BY <1>1, <1>2 DEF Advance
  <1>7. But(out, out', "constants") /\ Grows(out.constants, out'.constants, r.val)
    BY <1>1 DEF ListGrew
  <1>8. TableDue(bytes, 4, out', source, left'.entries, pos', end)
    BY <1>2, <1>5, <1>6, <1>7 DEF TableDue
  <1> QED BY <1>2, <1>6, <1>7, <1>8, GrownComes

\* The functions go on, in this stage of the last one.
LEMMA FunctionComes ==
    ASSUME Cursor, Shape, Comes, [Next]_vars, section = 5, section' = section, end' = end,
           stage \notin {"header", "open"}, stage' \in InFunctionStages, status' = "reading",
           out' = out \/ But(out, out', "functions"),
           FunctionsDue(bytes, out'.functions, source.functions, left', stage', pos', end)
    PROVE  Comes'
  <1>1. IsRecord(out, OutNames)
    BY DEF Shape
  <1> DEFINE j == section - 1
  <1>2. Got(out, source, j) /\ j \in 0..4
    BY DEF Comes
  <1> HIDE DEF j
  <1>3. CASE out' = out
    BY <1>2, <1>3, EntryComes DEF j, InFunctionStages
  <1>4. CASE But(out, out', "functions")
    <2>1. Got(out', source, j)
      BY <1>1, <1>2, <1>4, GotRest
    <2> QED BY <2>1, EntryComes DEF j, InFunctionStages
  <1> QED BY <1>3, <1>4

LEMMA HeadComes ==
    ASSUME Cursor, Shape, Room, Comes, [Next]_vars, ReadFunction
    PROVE  Comes'
  <1>1. PICK r \in FunctionEntry :
           /\ Advance(r, "values") /\ ListGrew("functions", r.val.function)
           /\ left' = [left EXCEPT !.entries = @ - 1, !.values = r.val.values]
    BY ReadsFunction
  <1>2. /\ stage = "entries" /\ section = 5 /\ left.entries > 0 /\ status = "reading"
        /\ section' = section /\ end' = end
    BY DEF ReadFunction, At
  <1>3. \E d \in FunctionEntry : \A U, l :
          Grows(out.functions, U, d.val.function) /\ l.entries = left.entries - 1 /\ l.values = d.val.values
          => FunctionsDue(bytes, U, source.functions, l, "values", d.pos, end)
    BY <1>2, HeadDue
  <1>4. One(FunctionEntry)
    BY WrittenFacts, FunctionOne
  <1>5. \A U, l :
          Grows(out.functions, U, r.val.function) /\ l.entries = left.entries - 1 /\ l.values = r.val.values
          => FunctionsDue(bytes, U, source.functions, l, "values", r.pos, end)
    BY <1>3, <1>4 DEF One
  <1>6. pos' = r.pos /\ stage' = "values" /\ status' = "reading"
    BY <1>1, <1>2 DEF Advance
  <1>7. But(out, out', "functions") /\ Grows(out.functions, out'.functions, r.val.function)
    BY <1>1 DEF ListGrew
  <1>8. left'.entries = left.entries - 1 /\ left'.values = r.val.values
    BY <1>1, LeftFacts
  <1>9. FunctionsDue(bytes, out'.functions, source.functions, left', "values", pos', end)
    BY <1>5, <1>6, <1>7, <1>8
  <1> QED BY <1>2, <1>6, <1>7, <1>9, FunctionComes DEF InFunctionStages

LEMMA ValueComes ==
    ASSUME Cursor, Shape, Room, Comes, [Next]_vars, ReadValue
    PROVE  Comes'
  <1>1. PICK r \in ValueEntry : Advance(r, "values") /\ FnGrew("values", r.val)
    BY ReadsValue
  <1>2. /\ stage = "values" /\ section = 5 /\ left.values > 0 /\ status = "reading"
        /\ section' = section /\ end' = end
    BY DEF ReadValue, At, Room
  <1>3. \E d \in ValueEntry : \A t, U, l :
          /\ But(Fn, t, "values") /\ Grows(Fn.values, t.values, d.val) /\ Changes(out.functions, U, t)
          /\ l.entries = left.entries /\ l.values = left.values - 1
          => FunctionsDue(bytes, U, source.functions, l, "values", d.pos, end)
    BY <1>2, AValueDue
  <1>4. One(ValueEntry)
    BY WrittenFacts, ValueOne
  <1>5. \A t, U, l :
          /\ But(Fn, t, "values") /\ Grows(Fn.values, t.values, r.val) /\ Changes(out.functions, U, t)
          /\ l.entries = left.entries /\ l.values = left.values - 1
          => FunctionsDue(bytes, U, source.functions, l, "values", r.pos, end)
    BY <1>3, <1>4 DEF One
  <1>6. pos' = r.pos /\ stage' = "values" /\ status' = "reading"
    BY <1>1, <1>2 DEF Advance
  <1>7. /\ But(out, out', "functions") /\ But(Fn, Fn', "values") /\ Grows(Fn.values, Fn'.values, r.val)
        /\ Changes(out.functions, out'.functions, Fn')
    BY <1>1 DEF FnGrew, FnChanged
  <1>8. left'.entries = left.entries /\ left'.values = left.values - 1
    BY LeftFacts DEF ReadValue, OneLess
  <1>9. FunctionsDue(bytes, out'.functions, source.functions, left', "values", pos', end)
    BY <1>5, <1>6, <1>7, <1>8
  <1> QED BY <1>2, <1>6, <1>7, <1>9, FunctionComes DEF InFunctionStages


LEMMA BlockCountComes ==
    ASSUME Cursor, Shape, Room, Comes, [Next]_vars, ReadBlockCount
    PROVE  Comes'
  <1>1. PICK r \in Count(pos, MIN_BLOCK_LEN) : Advance(r, "blocks") /\ left' = [left EXCEPT !.blocks = r.val]
    BY DEF ReadBlockCount
  <1>2. /\ stage = "values" /\ section = 5 /\ left.values = 0 /\ status = "reading"
        /\ section' = section /\ end' = end /\ out' = out
    BY DEF ReadBlockCount, At, Room
  <1>3. \E d \in Count(pos, MIN_BLOCK_LEN) : \A l :
          l.entries = left.entries /\ l.blocks = d.val
          => FunctionsDue(bytes, out.functions, source.functions, l, "blocks", d.pos, end)
    BY <1>2, BlockCountDue
  <1>4. One(Count(pos, MIN_BLOCK_LEN))
    BY CountOne
  <1>5. \A l : l.entries = left.entries /\ l.blocks = r.val
          => FunctionsDue(bytes, out.functions, source.functions, l, "blocks", r.pos, end)
    BY <1>3, <1>4 DEF One
  <1>6. pos' = r.pos /\ stage' = "blocks" /\ status' = "reading"
    BY <1>1, <1>2 DEF Advance
  <1>7. left'.entries = left.entries /\ left'.blocks = r.val
    BY <1>1, LeftFacts
  <1>8. FunctionsDue(bytes, out'.functions, source.functions, left', "blocks", pos', end)
    BY <1>2, <1>5, <1>6, <1>7
  <1> QED BY <1>2, <1>6, <1>8, FunctionComes DEF InFunctionStages

LEMMA BlockComes ==
    ASSUME Cursor, Shape, Room, Comes, [Next]_vars, ReadBlock
    PROVE  Comes'
  <1>1. PICK r \in BlockEntry :
           /\ Advance(r, "insts") /\ FnGrew("blocks", r.val.block)
           /\ left' = [left EXCEPT !.blocks = @ - 1, !.insts = r.val.insts]
    BY ReadsBlock
  <1>2. /\ stage = "blocks" /\ section = 5 /\ left.blocks > 0 /\ status = "reading"
        /\ section' = section /\ end' = end
    BY DEF ReadBlock, At, Room
  <1>3. \E d \in BlockEntry : \A t, U, l :
          /\ But(Fn, t, "blocks") /\ Grows(Fn.blocks, t.blocks, d.val.block) /\ Changes(out.functions, U, t)
          /\ l.entries = left.entries /\ l.blocks = left.blocks - 1 /\ l.insts = d.val.insts
          => FunctionsDue(bytes, U, source.functions, l, "insts", d.pos, end)
    BY <1>2, ABlockDue
  <1>4. One(BlockEntry)
    BY WrittenFacts, BlockOne
  <1>5. \A t, U, l :
          /\ But(Fn, t, "blocks") /\ Grows(Fn.blocks, t.blocks, r.val.block) /\ Changes(out.functions, U, t)
          /\ l.entries = left.entries /\ l.blocks = left.blocks - 1 /\ l.insts = r.val.insts
          => FunctionsDue(bytes, U, source.functions, l, "insts", r.pos, end)
    BY <1>3, <1>4 DEF One
  <1>6. pos' = r.pos /\ stage' = "insts" /\ status' = "reading"
    BY <1>1, <1>2 DEF Advance
  <1>7. /\ But(out, out', "functions") /\ But(Fn, Fn', "blocks") /\ Grows(Fn.blocks, Fn'.blocks, r.val.block)
        /\ Changes(out.functions, out'.functions, Fn')
    BY <1>1 DEF FnGrew, FnChanged
  <1>8. left'.entries = left.entries /\ left'.blocks = left.blocks - 1 /\ left'.insts = r.val.insts
    BY <1>1, LeftFacts
  <1>9. FunctionsDue(bytes, out'.functions, source.functions, left', "insts", pos', end)
    BY <1>5, <1>6, <1>7, <1>8
  <1> QED BY <1>2, <1>6, <1>7, <1>9, FunctionComes DEF InFunctionStages

LEMMA InstComes ==
    ASSUME Cursor, Shape, Room, Comes, [Next]_vars, ReadInst
    PROVE  Comes'
  <1>1. PICK r \in InstEntry : Advance(r, "insts") /\ BlkGrew("insts", r.val)
    BY ReadsAnInst
  <1>2. /\ stage = "insts" /\ section = 5 /\ left.insts > 0 /\ status = "reading"
        /\ section' = section /\ end' = end
    BY DEF ReadInst, At, Room
  <1>3. \E d \in InstEntry : \A t, U, l, x :
          /\ But(Fn, t, "blocks") /\ Changes(Fn.blocks, t.blocks, x) /\ Changes(out.functions, U, t)
          /\ But(Blk, x, "insts") /\ Grows(Blk.insts, x.insts, d.val)
          /\ l.entries = left.entries /\ l.blocks = left.blocks /\ l.insts = left.insts - 1
          => FunctionsDue(bytes, U, source.functions, l, "insts", d.pos, end)
    BY <1>2, AnInstDue
  <1>4. One(InstEntry)
    BY WrittenFacts, InstOne
  <1>5. \A t, U, l, x :
          /\ But(Fn, t, "blocks") /\ Changes(Fn.blocks, t.blocks, x) /\ Changes(out.functions, U, t)
          /\ But(Blk, x, "insts") /\ Grows(Blk.insts, x.insts, r.val)
          /\ l.entries = left.entries /\ l.blocks = left.blocks /\ l.insts = left.insts - 1
          => FunctionsDue(bytes, U, source.functions, l, "insts", r.pos, end)
    BY <1>3, <1>4 DEF One
  <1>6. pos' = r.pos /\ stage' = "insts" /\ status' = "reading"
    BY <1>1, <1>2 DEF Advance
  <1>7. /\ But(out, out', "functions") /\ But(Fn, Fn', "blocks") /\ Changes(Fn.blocks, Fn'.blocks, Blk')
        /\ Changes(out.functions, out'.functions, Fn') /\ But(Blk, Blk', "insts") /\ Grows(Blk.insts, Blk'.insts, r.val)
    BY <1>1 DEF BlkGrew, BlkChanged, FnChanged
  <1>8. left'.entries = left.entries /\ left'.blocks = left.blocks /\ left'.insts = left.insts - 1
    BY LeftFacts DEF ReadInst, OneLess
  <1>9. FunctionsDue(bytes, out'.functions, source.functions, left', "insts", pos', end)
    BY <1>5, <1>6, <1>7, <1>8
  <1> QED BY <1>2, <1>6, <1>7, <1>9, FunctionComes DEF InFunctionStages

LEMMA TermComes ==
    ASSUME Cursor, Shape, Room, Comes, [Next]_vars, ReadTerm
    PROVE  Comes'
  <1>1. PICK r \in TermEntry : Advance(r, "blocks") /\ BlkChanged("term") /\ Blk.term' = r.val
    BY ReadsATerm
  <1>2. /\ stage = "insts" /\ section = 5 /\ left.insts = 0 /\ status = "reading"
        /\ section' = section /\ end' = end /\ left' = left
    BY DEF ReadTerm, At, Room
  <1>3. \E d \in TermEntry : \A t, U, l, x :
          /\ But(Fn, t, "blocks") /\ Changes(Fn.blocks, t.blocks, x) /\ Changes(out.functions, U, t)
          /\ But(Blk, x, "term") /\ x.term = d.val
          /\ l.entries = left.entries /\ l.blocks = left.blocks
          => FunctionsDue(bytes, U, source.functions, l, "blocks", d.pos, end)
    BY <1>2, ATermDue
  <1>4. One(TermEntry)
    BY WrittenFacts, TablesOne
  <1>5. \A t, U, l, x :
          /\ But(Fn, t, "blocks") /\ Changes(Fn.blocks, t.blocks, x) /\ Changes(out.functions, U, t)
          /\ But(Blk, x, "term") /\ x.term = r.val
          /\ l.entries = left.entries /\ l.blocks = left.blocks
          => FunctionsDue(bytes, U, source.functions, l, "blocks", r.pos, end)
    BY <1>3, <1>4 DEF One
  <1>6. pos' = r.pos /\ stage' = "blocks" /\ status' = "reading"
    BY <1>1, <1>2 DEF Advance
  <1>7. /\ But(out, out', "functions") /\ But(Fn, Fn', "blocks") /\ Changes(Fn.blocks, Fn'.blocks, Blk')
        /\ Changes(out.functions, out'.functions, Fn') /\ But(Blk, Blk', "term") /\ Blk'.term = r.val
    BY <1>1 DEF BlkChanged, FnChanged
  <1>8. FunctionsDue(bytes, out'.functions, source.functions, left', "blocks", pos', end)
    BY <1>2, <1>5, <1>6, <1>7
  <1> QED BY <1>2, <1>6, <1>7, <1>8, FunctionComes DEF InFunctionStages

LEMMA EndComes ==
    ASSUME Cursor, Shape, Room, Comes, [Next]_vars, EndFunction
    PROVE  Comes'
  <1>1. /\ stage = "blocks" /\ left.blocks = 0 /\ status = "reading" /\ section = 5
        /\ section' = section /\ end' = end /\ pos' = pos /\ out' = out /\ left' = left
        /\ stage' = "entries" /\ status' = "reading"
    BY DEF EndFunction, At, Room
  <1>2. TableDue(bytes, section, out', source, left'.entries, pos', end)
    BY <1>1, FunctionEndDue
  <1>3. Got(out', source, section - 1)
    BY <1>1 DEF Comes
  <1> QED BY <1>1, <1>2, <1>3, EntryComes DEF InFunctionStages

\* Nothing of the file is refused.
LEMMA NothingFails ==
    ASSUME Cursor, Shape, Room, Tables, Fresh, Comes
    PROVE  ~Fails
  <1>1. stage \in Stages /\ section \in 1..5 /\ (section = 1 => left.entries = 0)
    BY DEF Comes, Cursor
  <1>2. left.entries \in Nat /\ left.values \in Nat /\ left.blocks \in Nat /\ left.insts \in Nat
    BY LeftFacts
  <1>3. CASE stage = "header"
    BY <1>3, HeaderDue DEF Fails
  <1>4. CASE stage = "open"
    BY <1>4, OpenDue DEF Fails
  <1>5. CASE stage = "start"
    <2>1. section = 1 => ModuleEntry # {}
      BY <1>5, ModuleDue
    <2>2. ASSUME section # 1 PROVE CountEntry # {}
      <3>1. section \in 2..5
        BY <1>1, <2>2
      <3> QED BY <1>5, <3>1, CountDue
    <2> QED BY <1>5, <2>1, <2>2 DEF Fails
  <1>6. CASE stage = "entries" /\ left.entries = 0
    <2>1. Closes
      BY <1>6, CloseDue
    <2> QED BY <1>6, <2>1 DEF Fails
  <1>7. CASE stage = "entries" /\ left.entries # 0
    <2>1. left.entries > 0 /\ section \in 2..5
      BY <1>1, <1>2, <1>7
    <2> SUFFICES ~EntryFails
      BY <1>7 DEF Fails
    <2>2. CASE section = 2
      <3>1. SymbolEntry # {}
        BY <1>7, <2>1, <2>2, SymbolDue
      <3> QED BY <2>2, <3>1 DEF EntryFails
    <2>3. CASE section = 3
      <3>1. TypeEntry # {}
        BY <1>7, <2>1, <2>3, TypeDue
      <3> QED BY <2>3, <3>1 DEF EntryFails
    <2>4. CASE section = 4
      <3>1. ConstantEntry # {}
        BY <1>7, <2>1, <2>4, ConstantDue
      <3> QED BY <2>4, <3>1 DEF EntryFails
    <2>5. CASE section = 5
      <3>1. FunctionEntry # {}
        BY <1>7, <2>1, <2>5, HeadDue
      <3> QED BY <2>5, <3>1 DEF EntryFails
    <2> QED BY <2>1, <2>2, <2>3, <2>4, <2>5
  <1>8. CASE stage = "values"
    <2>1. left.values = 0 => Count(pos, MIN_BLOCK_LEN) # {}
      BY <1>8, BlockCountDue
    <2>2. left.values # 0 => ValueEntry # {}
      BY <1>2, <1>8, AValueDue
    <2> QED BY <1>8, <2>1, <2>2 DEF Fails
  <1>9. CASE stage = "blocks"
    <2>1. left.blocks > 0 => BlockEntry # {}
      BY <1>9, ABlockDue
    <2> QED BY <1>9, <2>1 DEF Fails
  <1>10. CASE stage = "insts"
    <2>1. left.insts = 0 => TermEntry # {}
      BY <1>10, ATermDue
    <2>2. left.insts # 0 => InstEntry # {}
      BY <1>2, <1>10, AnInstDue
    <2> QED BY <1>10, <2>1, <2>2 DEF Fails
  <1> QED BY <1>1, <1>3, <1>4, <1>5, <1>6, <1>7, <1>8, <1>9, <1>10 DEF Stages

\* The undamaged file of a storable module takes its way, and that is the whole of it.
ComesIn == intact /\ Storable(source) => Comes
LEMMA ComesInit == Init => ComesIn
  <1> SUFFICES ASSUME Init, intact, Storable(source) PROVE Comes
    BY DEF ComesIn
  <1>1. bytes = Write(source)
    BY Zenon DEF Init
  <1>2. sumFits
    BY Zenon DEF Init
  <1>3. status = "reading" /\ stage = "header" /\ section = 1 /\ end = Len(bytes) /\ left.entries = 0
    BY DEF Init
  <1> QED BY <1>1, <1>2, <1>3 DEF Comes, Got, Place, Rest, Stages, InFunctionStages
LEMMA ComesNext == Cursor /\ Shape /\ Room /\ Tables /\ Fresh /\ ComesIn /\ [Next]_vars => ComesIn'
  <1> SUFFICES ASSUME Cursor, Shape, Room, Tables, Fresh, ComesIn, [Next]_vars, intact', Storable(source)' PROVE Comes'
    BY DEF ComesIn
  <1>1. Comes
    BY FileStays DEF ComesIn
  <1>2. CASE ReadHeader \/ OpenSection \/ ReadModule \/ ReadCount \/ CloseSection
    BY <1>1, <1>2, HeaderComes, OpenComes, ModuleComes, CountComes, CloseComes
  <1>3. CASE ReadSymbol \/ ReadType \/ ReadConstant \/ ReadFunction
    BY <1>1, <1>3, SymbolComes, TypeComes, ConstantComes, HeadComes
  <1>4. CASE ReadValue \/ ReadBlockCount \/ ReadBlock \/ ReadInst \/ ReadTerm \/ EndFunction
    BY <1>1, <1>4, ValueComes, BlockCountComes, BlockComes, InstComes, TermComes, EndComes
  <1>5. ASSUME UNCHANGED <<file, pos, end, section, stage, left, out>>, status' # "rejected" PROVE Comes'
    <2>1. UNCHANGED <<source, bytes, sumFits>>
      BY FileStays
    <2> QED BY <1>1, <1>5, <2>1 DEF Comes
  <1>6. CASE Finish
    BY <1>5, <1>6 DEF Finish
  <1>7. CASE Reject
    BY <1>1, <1>7, NothingFails DEF Reject
  <1>8. CASE Returned \/ UNCHANGED vars
    <2>1. status # "rejected"
      BY <1>1 DEF Comes
    <2> QED BY <1>5, <1>8, <2>1 DEF Returned, vars
  <1> QED BY <1>2, <1>3, <1>4, <1>6, <1>7, <1>8 DEF Next
LEMMA ComesAlways == Spec => []ComesIn
  <1>1. Cursor /\ Shape /\ Room /\ Tables /\ Fresh /\ ComesIn /\ [Next]_vars => ComesIn'
    BY ComesNext
  <1> QED BY ComesInit, <1>1, CursorAlways, ShapeAlways, RoomAlways, TablesAlways, FreshAlways, PTL DEF Spec

\* RoundTrip: whatever storable module was written, its file is not refused at any step when
\* it comes back undamaged, and what is read of it is that module, in every field of every
\* entry.
THEOREM Lossless == Spec => []RoundTrip
  <1>1. Cursor /\ Shape /\ Laid /\ ComesIn => RoundTrip
    <2> SUFFICES ASSUME Cursor, Shape, Laid, ComesIn, intact, Storable(source)
                 PROVE  status # "rejected" /\ (status = "ok" => out = source)
      BY DEF RoundTrip
    <2>1. Comes
      BY DEF ComesIn
    <2>2. status # "rejected"
      BY <2>1 DEF Comes
    <2>3. ASSUME status = "ok" PROVE out = source
      <3>1. section = 5 /\ stage = "entries" /\ left.entries = 0
        BY <2>3 DEF Laid
      <3>2. Got(out, source, 5)
        BY <2>1, <3>1, CloseDue
      <3>3. Typed(source) /\ IsRecord(out, OutNames)
        BY <2>1, WrittenFacts DEF Shape
      <3> DEFINE m == source
                 o == out
      <3> HIDE DEF m, o
      <3>4. m = [major |-> m.major, minor |-> m.minor, name |-> m.name, symbols |-> m.symbols,
                 types |-> m.types, constants |-> m.constants, functions |-> m.functions]
        BY <3>3 DEF Typed, m
      <3>5. o = [x \in OutNames |-> o[x]] /\ DOMAIN o = OutNames
        BY <3>3 DEF IsRecord, o
      <3>6. /\ o.major = m.major /\ o.minor = m.minor /\ o.name = m.name /\ o.symbols = m.symbols
            /\ o.types = m.types /\ o.constants = m.constants /\ o.functions = m.functions
        BY <3>2 DEF Got, o, m
      <3>7. DOMAIN m = OutNames /\ m = [x \in OutNames |-> m[x]]
        BY <3>4 DEF OutNames
      <3>8. \A x \in OutNames : o[x] = m[x]
        BY <3>6 DEF OutNames
      <3>9. o = m
        BY <3>5, <3>7, <3>8
      <3> QED BY <3>9 DEF o, m
    <2> QED BY <2>2, <2>3
  <1> QED BY <1>1, ComesAlways, CursorAlways, ShapeAlways, LaidAlways, PTL
=============================================================================
