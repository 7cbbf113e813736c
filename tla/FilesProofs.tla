----------------------------- MODULE FilesProofs -----------------------------
(***************************************************************************)
(* The images of batches, for any batches, rows and limits: a file on disk *)
(* is known to whoever must remove it, and a download tells its own job's  *)
(* images and no other's; the rows of a job stay with the provider that    *)
(* made them.                                                              *)
(***************************************************************************)
EXTENDS BatchFiles, ImageProviders, FiniteSetTheorems, SequenceTheorems, WellFoundedInduction, TLAPS

-----------------------------------------------------------------------------
(*                          Sequences put together                         *)

\* A set of numbers has a least one.
LEMMA LeastNumber == ASSUME NEW S \in SUBSET Nat, S # {} PROVE \E m \in S : \A n \in S : m <= n
<1>1. PICK m \in S : \A n \in S : ~ (<<n, m>> \in OpToRel(<, Nat)) BY NatLessThanWellFounded, WFMin
<1>2. \A n \in S : ~ (n < m) BY <1>1 DEF OpToRel
<1> QED BY <1>2

Chains(seqs, m, f) == f = [i \in 1 .. m |-> IF i = 1 THEN seqs[i] ELSE f[i - 1] \o seqs[i]]
Closed(T) == \A s, t \in T : s \o t \in T

LEMMA ChainThere ==
  ASSUME NEW T, Closed(T), NEW seqs \in Seq(T), NEW n \in 0 .. Len(seqs)
  PROVE  \E f \in [1 .. n -> T] : Chains(seqs, n, f)
<1> DEFINE Bad == {m \in 0 .. Len(seqs) : ~ \E f \in [1 .. m -> T] : Chains(seqs, m, f)}
<1> SUFFICES ASSUME Bad # {} PROVE FALSE OBVIOUS
<1>1. PICK m \in Bad : \A k \in Bad : m <= k
  <2>1. Bad \in SUBSET Nat OBVIOUS
  <2> HIDE DEF Bad
  <2> QED BY <2>1, LeastNumber
<1>2. m \in 0 .. Len(seqs) /\ ~ \E f \in [1 .. m -> T] : Chains(seqs, m, f) BY <1>1
<1>3. m # 0
  <2>1. [i \in 1 .. 0 |-> <<>>] \in [1 .. 0 -> T] /\ Chains(seqs, 0, [i \in 1 .. 0 |-> <<>>]) BY DEF Chains
  <2> QED BY <2>1, <1>2
<1>4. m \in Nat /\ m - 1 \in 0 .. Len(seqs) /\ ~ (m <= m - 1) BY <1>2, <1>3
<1>5. m - 1 \notin Bad
  <2> HIDE DEF Bad
  <2> QED BY <1>1, <1>4
<1>6. PICK g \in [1 .. m - 1 -> T] : Chains(seqs, m - 1, g) BY <1>4, <1>5
<1>7. PICK f : f = [i \in 1 .. m |-> IF i = 1 THEN seqs[i] ELSE g[i - 1] \o seqs[i]] OBVIOUS
<1>8. \A i \in 1 .. m - 1 : g[i] = IF i = 1 THEN seqs[i] ELSE g[i - 1] \o seqs[i] BY <1>6 DEF Chains
<1>9. ASSUME NEW i \in 1 .. m - 1 PROVE f[i] = g[i]
  <2>1. i \in 1 .. m BY <1>2
  <2>2. f[i] = IF i = 1 THEN seqs[i] ELSE g[i - 1] \o seqs[i] BY <1>7, <2>1
  <2> QED BY <1>8, <2>2
<1>10. Chains(seqs, m, f)
  <2>1. \A i \in 1 .. m : f[i] = IF i = 1 THEN seqs[i] ELSE f[i - 1] \o seqs[i]
    <3> SUFFICES ASSUME NEW i \in 1 .. m, i # 1 PROVE f[i] = f[i - 1] \o seqs[i] BY <1>7
    <3>1. i - 1 \in 1 .. m - 1 BY <1>2
    <3> QED BY <3>1, <1>7, <1>9
  <2> QED BY ZenonT(60), <2>1, <1>7 DEF Chains
<1>11. f \in [1 .. m -> T] BY <1>7, <1>2 DEF Closed
<1> QED BY <1>2, <1>10, <1>11

\* What all pieces have and concatenation keeps, the whole has.
LEMMA FlattenClosed ==
  ASSUME NEW T, Closed(T), NEW seqs \in Seq(T), Len(seqs) # 0
  PROVE  FlattenSeq(seqs) \in T
<1> DEFINE n == Len(seqs)
           flat == CHOOSE f : Chains(seqs, n, f)
<1>1. n \in Nat OBVIOUS
<1>2. Chains(seqs, n, flat) BY <1>1, ChainThere
<1>3. FlattenSeq(seqs) = flat[n] BY DEF FlattenSeq, Chains
<1> HIDE DEF flat
<1> DEFINE Bad == {i \in 1 .. n : flat[i] \notin T}
<1>4. \A i \in 1 .. n : flat[i] = IF i = 1 THEN seqs[i] ELSE flat[i - 1] \o seqs[i] BY <1>2 DEF Chains
<1>5. Bad = {}
  <2> SUFFICES ASSUME Bad # {} PROVE FALSE OBVIOUS
  <2>1. PICK i \in Bad : \A k \in Bad : i <= k
    <3>1. Bad \in SUBSET Nat OBVIOUS
    <3> HIDE DEF Bad
    <3> QED BY <3>1, LeastNumber
  <2>2. i \in 1 .. n /\ flat[i] \notin T BY <2>1
  <2>3. i # 1 => flat[i - 1] \in T BY <1>1, <2>1, <2>2
  <2>4. seqs[i] \in T BY <2>2
  <2> QED BY <1>4, <2>2, <2>3, <2>4 DEF Closed
<1> QED BY <1>1, <1>3, <1>5

LEMMA FlattenIn == ASSUME NEW S, NEW seqs \in Seq(Seq(S)) PROVE FlattenSeq(seqs) \in Seq(S)
<1>1. CASE Len(seqs) = 0 BY <1>1 DEF FlattenSeq
<1>2. CASE Len(seqs) # 0 BY ConcatProperties, <1>2, FlattenClosed DEF Closed
<1> QED BY <1>1, <1>2

LEMMA FlattenSome ==
  ASSUME NEW S, NEW seqs \in Seq(Seq(S)), Len(seqs) # 0, \A i \in 1 .. Len(seqs) : seqs[i] # <<>>
  PROVE  FlattenSeq(seqs) # <<>>
<1> DEFINE T == {s \in Seq(S) : Len(s) > 0}
<1>1. Closed(T) BY ConcatProperties DEF Closed
<1>2. \A i \in 1 .. Len(seqs) : seqs[i] \in T OBVIOUS
<1> HIDE DEF T
<1>3. Len(seqs) \in Nat /\ seqs = [i \in 1 .. Len(seqs) |-> seqs[i]] OBVIOUS
<1>4. [i \in 1 .. Len(seqs) |-> seqs[i]] \in Seq(T) BY <1>2, <1>3, IsASeq
<1>5. FlattenSeq(seqs) \in T BY <1>1, <1>3, <1>4, FlattenClosed
<1> QED BY <1>5 DEF T

-----------------------------------------------------------------------------
(*                       The rows of a batch's images                      *)

Prompts == {item.prompt : item \in RequestedItems} \cup {"p9"}
IdParts == Nat \cup DOMAIN Safe \cup UNION {Range(item.id) : item \in RequestedItems}
Ids == {id \in Seq(IdParts) : id # <<>> /\ id[1] \in DOMAIN Safe}
Foreign == <<"foreign">>
FileNames == {OutputFilename(id) : id \in Ids} \cup {<<>>}
NamedItems == [id : Ids, prompt : Prompts]
ItemStatus == {"pending", "success", "failed", "cancelled"}
ItemRows == [id : Ids, prompt : Prompts, status : ItemStatus, file : FileNames]
LineRows == [id : Ids \cup {Foreign}, kind : LineKinds \cup {"malformed"}, prompt : Prompts]

LEMMA IdsKnown ==
  /\ Foreign \notin Ids
  /\ \A item \in RequestedItems : item.outputs \in Nat /\ (item.id # <<>> => item.id \in Ids)
  /\ \A i \in 1 .. Len(AutoNames) : <<AutoNames[i]>> \in Ids
  /\ \A id \in Ids, k \in Nat : Append(id, k) \in Ids
  /\ Archive \notin Ids
<1>1. Foreign \notin Ids BY FileAssumption DEF Foreign, Ids
<1>2. ASSUME NEW item \in RequestedItems, item.id # <<>> PROVE item.id \in Ids
  <2>1. IsId(item.id) BY <1>2, FileAssumption
  <2> DEFINE id == item.id
  <2>2. Len(id) \in Nat \ {0} /\ id = [k \in 1 .. Len(id) |-> id[k]] /\ id[1] \in DOMAIN Safe BY <2>1 DEF IsId
  <2>3. Range(id) \subseteq IdParts BY DEF IdParts
  <2> HIDE DEF id
  <2>4. DOMAIN id = 1 .. Len(id) BY <2>2
  <2>5. \A k \in 1 .. Len(id) : id[k] \in IdParts BY <2>3, <2>4 DEF Range
  <2>6. [k \in 1 .. Len(id) |-> id[k]] \in Seq(IdParts) BY <2>2, <2>5, IsASeq
  <2>7. id \in Seq(IdParts) BY <2>2, <2>6
  <2>8. id # <<>> BY <2>2, <2>7
  <2>9. id \in Ids BY <2>2, <2>7, <2>8 DEF Ids
  <2> QED BY <2>9 DEF id
<1>3. ASSUME NEW i \in 1 .. Len(AutoNames) PROVE <<AutoNames[i]>> \in Ids BY FileAssumption DEF IdParts, Ids
<1>4. ASSUME NEW id \in Ids, NEW k \in Nat PROVE Append(id, k) \in Ids
  <2>1. id \in Seq(IdParts) /\ id # <<>> /\ id[1] \in DOMAIN Safe /\ k \in IdParts BY DEF Ids, IdParts
  <2>2. Len(id) \in Nat /\ Len(id) >= 1 BY <2>1
  <2>3. Append(id, k) \in Seq(IdParts) /\ Append(id, k) # <<>> /\ Append(id, k)[1] = id[1] BY <2>1, <2>2, AppendProperties
  <2> QED BY <2>1, <2>3 DEF Ids
<1> QED BY <1>1, <1>2, <1>3, <1>4, FileAssumption DEF Ids, Archive

LEMMA ExpandTyped ==
  ASSUME NEW item \in RequestedItems, NEW position \in 1 .. Len(AutoNames)
  PROVE  Expand(item, position) \in Seq(NamedItems) /\ Expand(item, position) # <<>>
<1>1. PICK id \in Ids : id = IF item.id = <<>> THEN <<AutoNames[position]>> ELSE item.id BY IdsKnown
<1>2. item.prompt \in Prompts BY DEF Prompts
<1>3. OutputCount(item) \in Nat /\ OutputCount(item) # 0 BY IdsKnown DEF OutputCount
<1>4. ASSUME NEW name \in Ids PROVE [id |-> name, prompt |-> item.prompt] \in NamedItems BY <1>2 DEF NamedItems
<1>5. \A k \in 1 .. OutputCount(item) : [id |-> Append(id, k), prompt |-> item.prompt] \in NamedItems
  <2> SUFFICES ASSUME NEW k \in 1 .. OutputCount(item)
               PROVE  [id |-> Append(id, k), prompt |-> item.prompt] \in NamedItems
    OBVIOUS
  <2>1. Append(id, k) \in Ids BY <1>3, IdsKnown
  <2> QED BY <2>1, <1>4
<1>6. [k \in 1 .. OutputCount(item) |-> [id |-> Append(id, k), prompt |-> item.prompt]] \in Seq(NamedItems)
  BY <1>3, <1>5, IsASeq
<1>7. <<[id |-> id, prompt |-> item.prompt]>> \in Seq(NamedItems) BY <1>4
<1>8. [k \in 1 .. OutputCount(item) |-> [id |-> Append(id, k), prompt |-> item.prompt]] # <<>> BY <1>3
<1> QED BY <1>1, <1>6, <1>7, <1>8 DEF Expand

LEMMA ExpandedTyped ==
  ASSUME NEW items \in Seq(RequestedItems), Len(items) <= Len(AutoNames)
  PROVE  Expanded(items) \in Seq(NamedItems) /\ (items # <<>> => Expanded(items) # <<>>)
<1>1. ASSUME NEW i \in 1 .. Len(items)
      PROVE  Expand(items[i], i) \in Seq(NamedItems) /\ Expand(items[i], i) # <<>>
  BY FileAssumption, ExpandTyped
<1>2. PICK seqs : seqs = [i \in 1 .. Len(items) |-> Expand(items[i], i)] OBVIOUS
<1>3. DOMAIN items = 1 .. Len(items) /\ Len(items) \in Nat OBVIOUS
<1>4. seqs \in Seq(Seq(NamedItems)) /\ Len(seqs) = Len(items) BY <1>1, <1>3, IsASeq, <1>2
<1>5. Expanded(items) = FlattenSeq(seqs) BY <1>2, <1>3 DEF Expanded
<1>6. \A i \in 1 .. Len(seqs) : seqs[i] # <<>> BY <1>1, <1>2, <1>4
<1>7. items # <<>> => Len(seqs) # 0 BY <1>3, <1>4
<1> QED BY <1>4, <1>5, <1>6, <1>7, FlattenIn, FlattenSome

LEMMA SucceededIn ==
  ASSUME NEW S, itemRows \in Seq(ItemRows), \A i \in DOMAIN itemRows : itemRows[i].status = "success" => itemRows[i].file \in S
  PROVE  SucceededFiles \in Seq(S)
<1> DEFINE one(i) == IF itemRows[i].status = "success" THEN <<itemRows[i].file>> ELSE <<>>
<1>1. \A i \in 1 .. Len(itemRows) : one(i) \in Seq(S)
  <2> SUFFICES ASSUME NEW i \in 1 .. Len(itemRows) PROVE one(i) \in Seq(S) OBVIOUS
  <2>1. i \in DOMAIN itemRows OBVIOUS
  <2>2. CASE itemRows[i].status = "success" BY <2>1, <2>2
  <2>3. CASE itemRows[i].status # "success" BY <2>3
  <2> QED BY <2>2, <2>3
<1>2. Len(itemRows) \in Nat /\ DOMAIN itemRows = 1 .. Len(itemRows) OBVIOUS
<1> HIDE DEF one
<1>3. [i \in 1 .. Len(itemRows) |-> one(i)] \in Seq(Seq(S)) BY <1>1, <1>2, IsASeq
<1> USE DEF one
<1>4. SucceededFiles = FlattenSeq([i \in 1 .. Len(itemRows) |-> one(i)]) BY <1>2 DEF SucceededFiles
<1> HIDE DEF one
<1> QED BY <1>3, <1>4, FlattenIn

\* What a line of an item says: its kind is any, its prompt the item's.
ItemLines == {line \in LineRows : \E i \in DOMAIN itemRows : line.id = itemRows[i].id /\ line.prompt = itemRows[i].prompt}

LEMMA ReverseIn == ASSUME NEW S, NEW s \in Seq(S) PROVE Reverse(s) \in Seq(S) /\ Len(Reverse(s)) = Len(s)
<1> DEFINE other(i) == s[(Len(s) - i) + 1]
<1>1. Len(s) \in Nat OBVIOUS
<1>2. \A i \in 1 .. Len(s) : other(i) \in S BY <1>1, ElementOfSeq
<1> HIDE DEF other
<1>3. [i \in 1 .. Len(s) |-> other(i)] \in Seq(S) BY <1>1, <1>2, IsASeq
<1> USE DEF other
<1>4. Reverse(s) = [i \in 1 .. Len(s) |-> other(i)] BY DEF Reverse
<1> HIDE DEF other
<1> QED BY <1>1, <1>3, <1>4

LEMMA AnswerTold ==
  ASSUME itemRows \in Seq(ItemRows), itemRows # <<>>,
         NEW verdicts, verdicts \in [DOMAIN itemRows -> LineKinds], NEW extra \in ExtraLines
  PROVE  /\ AnswerLines(verdicts, extra) \in Seq(LineRows)
         /\ \A j \in DOMAIN AnswerLines(verdicts, extra) :
              LET line == AnswerLines(verdicts, extra)[j]
              IN  line \in ItemLines \/ line.id = Foreign \/ line.kind = "malformed"
<1> DEFINE told(i) == IF verdicts[i] = "nothing" THEN <<>> ELSE <<Line(itemRows[i].id, verdicts[i], itemRows[i].prompt)>>
<1>1. Len(itemRows) \in Nat /\ DOMAIN itemRows = 1 .. Len(itemRows) OBVIOUS
<1>2. \A i \in 1 .. Len(itemRows) : told(i) \in Seq(ItemLines)
  <2> SUFFICES ASSUME NEW i \in 1 .. Len(itemRows) PROVE told(i) \in Seq(ItemLines) OBVIOUS
  <2>1. itemRows[i] \in ItemRows /\ verdicts[i] \in LineKinds BY <1>1
  <2>2. PICK line : line = Line(itemRows[i].id, verdicts[i], itemRows[i].prompt) OBVIOUS
  <2>3. line \in LineRows /\ line.id = itemRows[i].id /\ line.prompt = itemRows[i].prompt
    BY <2>1, <2>2 DEF Line, LineRows, ItemRows
  <2>4. line \in ItemLines BY <2>3, <1>1 DEF ItemLines
  <2> QED BY <2>2, <2>4
<1> HIDE DEF told
<1>3. [i \in 1 .. Len(itemRows) |-> told(i)] \in Seq(Seq(ItemLines)) BY <1>1, <1>2, IsASeq
<1>4. PICK lines : lines = Reverse(FlattenSeq([i \in 1 .. Len(itemRows) |-> told(i)])) OBVIOUS
<1>5. lines \in Seq(ItemLines) BY <1>3, <1>4, FlattenIn, ReverseIn
<1>6. PICK last : last = CASE extra = "none" -> <<>>
                           [] extra = "foreign" -> <<Line(<<"foreign">>, "image", "p9")>>
                           [] extra = "malformed" -> <<Line(itemRows[1].id, "malformed", "p9")>>
                           [] extra = "duplicate" -> IF lines = <<>> THEN <<>> ELSE <<lines[1]>> OBVIOUS
<1>7. AnswerLines(verdicts, extra) = lines \o last BY <1>1, <1>4, <1>6 DEF AnswerLines, told
<1> DEFINE Useless == {line \in LineRows : line.id = Foreign \/ line.kind = "malformed"}
<1>8. last \in Seq(ItemLines \cup Useless)
  <2>1. CASE extra = "none" BY <2>1, <1>6
  <2>2. CASE extra = "foreign" BY <2>2, <1>6 DEF Line, LineRows, Foreign, LineKinds, Prompts
  <2>3. CASE extra = "malformed"
    <3>1. PICK line : line = Line(itemRows[1].id, "malformed", "p9") OBVIOUS
    <3>2. itemRows[1] \in ItemRows BY <1>1
    <3>3. line \in Useless BY <3>1, <3>2 DEF Line, LineRows, ItemRows, Prompts
    <3>4. last = <<line>> BY <2>3, <1>6, <3>1
    <3> HIDE DEF Useless
    <3> QED BY <3>3, <3>4
  <2>4. CASE extra = "duplicate"
    <3>1. last = IF lines = <<>> THEN <<>> ELSE <<lines[1]>> BY <2>4, <1>6
    <3>2. lines # <<>> => lines[1] \in ItemLines BY <1>5
    <3> HIDE DEF Useless
    <3>3. CASE lines = <<>> BY <3>1, <3>3
    <3>4. CASE lines # <<>> BY <3>2, <3>4, <3>1
    <3> QED BY <3>3, <3>4
  <2> QED BY <2>1, <2>2, <2>3, <2>4 DEF ExtraLines
<1>9. lines \in Seq(ItemLines \cup Useless) BY <1>5, SeqMonotonic
<1>10. lines \o last \in Seq(ItemLines \cup Useless) BY <1>8, <1>9, ConcatProperties
<1>11. ItemLines \cup Useless \subseteq LineRows BY DEF ItemLines
<1>12. lines \o last \in Seq(LineRows) BY <1>10, <1>11, SeqMonotonic
<1>13. \A j \in DOMAIN (lines \o last) : (lines \o last)[j] \in ItemLines \cup Useless
  BY <1>10, ElementOfSeq, LenProperties
<1> QED BY <1>7, <1>12, <1>13

LEMMA CountTyped == ASSUME NEW S, NEW rows \in Seq(S), NEW status PROVE CountRows(rows, status) \in Nat
<1>1. Len(rows) \in Nat /\ DOMAIN rows = 1 .. Len(rows) OBVIOUS
<1>2. IsFiniteSet(1 .. Len(rows)) BY <1>1, FS_Interval
<1>3. {i \in DOMAIN rows : rows[i].status = status} \subseteq 1 .. Len(rows) BY <1>1
<1>4. IsFiniteSet({i \in DOMAIN rows : rows[i].status = status}) BY <1>2, <1>3, FS_Subset
<1> QED BY <1>4, FS_CardinalityType DEF CountRows

BatchRows ==
  [status : BatchStatus, retries : Nat, success : Nat, failed : Nat, hidden : BOOLEAN, expired : BOOLEAN,
   downloaded : BOOLEAN, removing : BOOLEAN]
RemoteRows == [objects : Seq(Seq(LineRows)), told : Seq(LineRows)]
ImageMaps == UNION {[S -> Prompts] : S \in SUBSET FileNames}
DiskRows ==
  [there : BOOLEAN, result : SUBSET Seq(LineRows), fetched : Seq(LineRows), images : ImageMaps, part : Nat, zip : Nat]
FoundRows == [id : Ids, file : FileNames]
IndexerRows == [pc : {"idle", "fetch", "lines"}, at : Nat, found : Seq(FoundRows)]
RemovalPlaces == {"idle", "remote", "files", "directory", "mark"}

BatchTypes ==
  /\ batch \in BatchRows /\ itemRows \in Seq(ItemRows) /\ DifferentIds(itemRows)
  /\ batch.status # "none" => itemRows # <<>>
  /\ remote \in RemoteRows /\ disk \in DiskRows /\ indexer \in IndexerRows
  /\ removals \in [Removers -> RemovalPlaces]
BudgetTypes == fileBudget \in FileBudgets /\ \A items \in fileBudget.requests : Len(items) <= Len(AutoNames)

Served == {"completed", "output_deleted"}
Charged == {"settling"} \cup Served

\* An item's line with an image has the item's own prompt.
ToldOwn ==
  \A j \in DOMAIN remote.told, i \in DOMAIN itemRows :
    remote.told[j].id = itemRows[i].id /\ remote.told[j].kind = "image" => remote.told[j].prompt = itemRows[i].prompt
Alone(lines) == [i \in DOMAIN lines |-> <<lines[i]>>]
ObjectsTold == batch.status \notin Served => remote.objects \in {<<remote.told>>, Alone(remote.told)}
\* Nothing is fetched before the provider has answered.
EarlyClean ==
  batch.status \in {"none", "created", "queued"} =>
    indexer.pc = "idle" /\ disk.result = {} /\ DOMAIN disk.images = {} /\ remote.told = <<>>
FirstLines(lines, n) == Len(lines) = n /\ \A i \in 1 .. n : lines[i] = remote.told[i]
FetchedInOrder ==
  indexer.pc = "fetch" =>
    /\ indexer.found = <<>>
    /\ \/ /\ remote.objects = <<remote.told>>
          /\ \/ indexer.at = 1 /\ disk.fetched = <<>>
             \/ indexer.at = 2 /\ disk.fetched = remote.told
       \/ /\ remote.objects = Alone(remote.told)
          /\ indexer.at \in 1 .. Len(remote.told) + 1 /\ FirstLines(disk.fetched, indexer.at - 1)
ImagesOwn ==
  \A i \in DOMAIN itemRows :
    OutputFilename(itemRows[i].id) \in DOMAIN disk.images =>
      disk.images[OutputFilename(itemRows[i].id)] = itemRows[i].prompt
FileOf(line) == IF line.kind = "image" THEN OutputFilename(line.id) ELSE <<>>
Matches(line, row) == line.id = row.id /\ FileOf(line) = row.file
\* What was found is what the lines read so far say.
IndexedSoFar ==
  indexer.pc = "lines" =>
    /\ disk.result = {remote.told} /\ indexer.at \in 1 .. Len(remote.told) + 1
    /\ \A k \in DOMAIN indexer.found :
         /\ \E j \in 1 .. indexer.at - 1 : Matches(remote.told[j], indexer.found[k])
         /\ indexer.found[k].file # <<>> => indexer.found[k].file \in DOMAIN disk.images
    /\ \A j \in 1 .. indexer.at - 1 :
         Expects(remote.told[j].id) => \E k \in DOMAIN indexer.found : Matches(remote.told[j], indexer.found[k])
IndexerThere == indexer.pc # "idle" => batch.status \in {"indexing", "cancelled"} /\ disk.there
ResultTold == disk.result \subseteq {remote.told}
IndexInv == ToldOwn /\ ObjectsTold /\ EarlyClean /\ FetchedInOrder /\ ImagesOwn /\ IndexedSoFar /\ IndexerThere /\ ResultTold

RowsFiled ==
  batch.status \in Charged =>
    /\ disk.there \/ batch.removing
    /\ \A i \in DOMAIN itemRows : itemRows[i].status = "success" =>
         itemRows[i].file = OutputFilename(itemRows[i].id) /\ (itemRows[i].file \in DOMAIN disk.images \/ batch.removing)
RemovalKnows(x) ==
  /\ removals[x] # "idle" => batch.status \in Served
  /\ removals[x] \in {"files", "directory", "mark"} => remote.objects = <<>>
  /\ removals[x] \in {"directory", "mark"} => batch.removing
  /\ removals[x] = "mark" => ~disk.there
RemovalsKnow == (\A x \in Removers : RemovalKnows(x)) /\ (batch.removing => batch.status \in Served) /\ DeletedIsGone

ContentInv == BatchTypes /\ BudgetTypes /\ IndexInv /\ RowsMatchAnswer /\ RowsFiled /\ RemovalsKnow

\* Rows are marked, their items stay.
SameItems(rows) ==
  DOMAIN rows = DOMAIN itemRows /\ \A i \in DOMAIN itemRows : rows[i].id = itemRows[i].id /\ rows[i].prompt = itemRows[i].prompt

FileCounters == {"downloads", "removals", "faults", "cancels", "drops", "edits", "restarts"}
LEMMA FileBudgetSpent ==
  ASSUME BudgetTypes
  PROVE  /\ \A which \in FileCounters : Spend(which) => BudgetTypes'
         /\ \A happens : IfFault(happens) => BudgetTypes'
         /\ UNCHANGED fileBudget => BudgetTypes'
<1>1. ASSUME NEW which \in FileCounters, Spend(which) PROVE BudgetTypes'
  <2>1. fileBudget \in FileBudgets /\ fileBudget[which] > 0 /\ fileBudget' = [fileBudget EXCEPT ![which] = @ - 1]
    BY <1>1 DEF BudgetTypes, Spend
  <2>2. fileBudget[which] \in Nat BY <2>1 DEF FileBudgets, FileCounters
  <2>3. fileBudget[which] - 1 \in Nat BY <2>1, <2>2
  <2>4. fileBudget' \in FileBudgets BY <2>1, <2>3 DEF FileBudgets, FileCounters
  <2>5. fileBudget'.requests = fileBudget.requests BY <2>1 DEF FileBudgets, FileCounters
  <2> QED BY <2>4, <2>5 DEF BudgetTypes
<1>2. UNCHANGED fileBudget => BudgetTypes' BY DEF BudgetTypes
<1>3. ASSUME NEW happens, IfFault(happens) PROVE BudgetTypes' BY <1>1, <1>2, <1>3 DEF FileCounters, IfFault
<1> QED BY <1>1, <1>2, <1>3

LEMMA SameDifferent ==
  ASSUME DifferentIds(itemRows), NEW rows, SameItems(rows) PROVE DifferentIds(rows)
BY DEF SameItems, DifferentIds

\* Between the answer and the charge, what was told and is stored stays the items' own.
LEMMA OwnStays ==
  ASSUME ToldOwn, ImagesOwn, SameItems(itemRows'), remote'.told = remote.told,
         DOMAIN disk'.images \subseteq DOMAIN disk.images,
         \A f \in DOMAIN disk'.images : disk'.images[f] = disk.images[f]
  PROVE  ToldOwn' /\ ImagesOwn' /\ \A id : Expects(id)' <=> Expects(id)
<1>1. ToldOwn' BY DEF ToldOwn, SameItems
<1>2. ImagesOwn' BY DEF ImagesOwn, OutputFilename, SameItems
<1>3. \A id : Expects(id)' <=> Expects(id) BY DEF Expects, SameItems
<1> QED BY <1>1, <1>2, <1>3

\* A job that is not to be charged has nothing to match.
LEMMA NotCharged ==
  ASSUME ContentInv, batch.status \notin Served, batch'.status \notin Charged, batch'.removing = batch.removing,
         removals' = removals
  PROVE  RowsMatchAnswer' /\ RowsFiled' /\ RemovalsKnow'
<1>1. ~batch.removing /\ \A x \in Removers : removals[x] = "idle" BY DEF ContentInv, RemovalsKnow, RemovalKnows
<1>2. \A x \in Removers : RemovalKnows(x)' BY <1>1 DEF RemovalKnows
<1>3. RemovalsKnow' BY <1>1, <1>2 DEF RemovalsKnow, DeletedIsGone, Charged, Served
<1> QED BY <1>3 DEF RowsMatchAnswer, RowsFiled, Charged, Served

LEMMA FileInitInv == FileInit => ContentInv
<1> SUFFICES ASSUME FileInit PROVE ContentInv OBVIOUS
<1>1. batch = NoBatch /\ itemRows = <<>> /\ disk = EmptyDisk /\ indexer = NotIndexing
      /\ remote = [objects |-> <<>>, told |-> <<>>] /\ removals = [x \in Removers |-> "idle"]
  BY DEF FileInit
<1>2. BatchTypes
  <2>1. NoBatch \in BatchRows BY DEF NoBatch, BatchRows, BatchStatus, Unfinished
  <2>2. EmptyDisk \in DiskRows
    <3>1. [f \in {} |-> 0] \in [{} -> Prompts] OBVIOUS
    <3>2. [f \in {} |-> 0] \in ImageMaps BY <3>1 DEF ImageMaps
    <3>3. \A empty \in ImageMaps :
            [there |-> FALSE, result |-> {}, fetched |-> <<>>, images |-> empty, part |-> 0, zip |-> 0] \in DiskRows
      BY DEF DiskRows
    <3> QED BY <3>2, <3>3 DEF EmptyDisk
  <2>3. NotIndexing \in IndexerRows BY DEF NotIndexing, IndexerRows
  <2>4. remote \in RemoteRows BY <1>1 DEF RemoteRows
  <2>5. DifferentIds(itemRows) BY <1>1 DEF DifferentIds, IsInjective
  <2> QED BY <1>1, <2>1, <2>2, <2>3, <2>4, <2>5 DEF BatchTypes, RemovalPlaces, NoBatch
<1>3. BudgetTypes BY FileAssumption DEF FileInit, BudgetTypes
<1>4. IndexInv
  <2>1. Alone(<<>>) = <<>> BY DEF Alone
  <2>2. DOMAIN disk.images = {} /\ disk.result = {} BY <1>1 DEF EmptyDisk
  <2>3. indexer.pc = "idle" BY <1>1 DEF NotIndexing
  <2>4. remote.told = <<>> /\ remote.objects = <<>> /\ DOMAIN itemRows = {} BY <1>1
  <2> QED BY <2>1, <2>2, <2>3, <2>4
       DEF IndexInv, ToldOwn, ObjectsTold, EarlyClean, FetchedInOrder, ImagesOwn, IndexedSoFar, IndexerThere, ResultTold
<1>5. RowsMatchAnswer /\ RowsFiled /\ RemovalsKnow
  BY <1>1 DEF RowsMatchAnswer, RowsFiled, RemovalsKnow, RemovalKnows, DeletedIsGone, NoBatch, Charged, Served
<1> QED BY <1>2, <1>3, <1>4, <1>5 DEF ContentInv

LEMMA BatchSorts == ASSUME NEW b \in BatchRows PROVE b.status \in BatchStatus /\ b.removing \in BOOLEAN
BY DEF BatchRows

LEMMA SubmitKeeps == ASSUME ContentInv, SubmitBatch PROVE ContentInv'
<1> PICK items \in fileBudget.requests :
      /\ NormalizeSubmit(items)
      /\ itemRows' = [i \in DOMAIN Expanded(items) |->
                        [id |-> Expanded(items)[i].id, prompt |-> Expanded(items)[i].prompt,
                         status |-> "pending", file |-> <<>>]]
  BY DEF SubmitBatch
<1>1. /\ batch.status = "none" /\ batch' = [NoBatch EXCEPT !.status = "created"]
      /\ UNCHANGED <<remote, disk, indexer, removals, fileBudget>>
  BY DEF SubmitBatch
<1>2. items \in Seq(RequestedItems) /\ Len(items) <= Len(AutoNames) BY DEF ContentInv, BudgetTypes, FileBudgets
<1>3. items # <<>> /\ DifferentIds(Expanded(items)) BY DEF NormalizeSubmit
<1>4. PICK named \in Seq(NamedItems) : named = Expanded(items) /\ named # <<>> BY <1>2, <1>3, ExpandedTyped
<1>5. Len(named) \in Nat /\ DOMAIN named = 1 .. Len(named) /\ \A i \in 1 .. Len(named) : named[i] \in NamedItems OBVIOUS
<1> DEFINE row(i) == [id |-> named[i].id, prompt |-> named[i].prompt, status |-> "pending", file |-> <<>>]
<1>6. itemRows' = [i \in 1 .. Len(named) |-> row(i)] BY <1>4, <1>5
<1>7. \A i \in 1 .. Len(named) : row(i) \in ItemRows /\ row(i).id = named[i].id
  BY <1>5 DEF NamedItems, ItemRows, ItemStatus, FileNames
<1> HIDE DEF row
<1>8. itemRows' \in Seq(ItemRows) /\ itemRows' # <<>> BY <1>5, <1>7, IsASeq, <1>4, <1>6
<1>9. DifferentIds(itemRows')
  <2>1. [i \in DOMAIN itemRows' |-> itemRows'[i].id] = [i \in DOMAIN named |-> named[i].id] BY <1>5, <1>6, <1>7
  <2> QED BY <2>1, <1>3, <1>4 DEF DifferentIds
<1>10. batch' \in BatchRows /\ batch'.status = "created" /\ ~batch'.removing
  BY <1>1 DEF NoBatch, BatchRows, BatchStatus, Unfinished
<1>11. BatchTypes' BY <1>1, <1>8, <1>9, <1>10 DEF ContentInv, BatchTypes, DifferentIds
<1>12. EarlyClean /\ ObjectsTold /\ ResultTold /\ ~batch.removing
  BY <1>1 DEF ContentInv, IndexInv, RemovalsKnow, Served
<1>13. indexer.pc = "idle" /\ disk.result = {} /\ DOMAIN disk.images = {} /\ remote.told = <<>>
  BY <1>1, <1>12 DEF EarlyClean
<1>14. IndexInv'
  <2>1. EarlyClean' BY <1>1, <1>13 DEF EarlyClean
  <2>2. ObjectsTold' BY <1>1, <1>12 DEF ObjectsTold, Served
  <2>3. ToldOwn' /\ ImagesOwn' BY <1>1, <1>13 DEF ToldOwn, ImagesOwn
  <2>4. FetchedInOrder' /\ IndexedSoFar' /\ IndexerThere' /\ ResultTold'
    BY <1>1, <1>12, <1>13 DEF FetchedInOrder, IndexedSoFar, IndexerThere, ResultTold
  <2> QED BY <2>1, <2>2, <2>3, <2>4 DEF IndexInv
<1>15. RowsMatchAnswer' /\ RowsFiled' /\ RemovalsKnow'
  BY <1>1, <1>10, <1>12, BatchSorts, NotCharged DEF Charged, Served, ContentInv, BatchTypes
<1>16. BudgetTypes' BY <1>1, FileBudgetSpent DEF ContentInv
<1> QED BY <1>11, <1>14, <1>15, <1>16 DEF ContentInv

\* A job that ends without a charge keeps its items.
LEMMA FinishedRows ==
  ASSUME BatchTypes, NEW b \in BatchRows, NEW status \in {"failed", "cancelled"}, FinishRows(b, status)
  PROVE  /\ batch' \in BatchRows /\ batch'.status = status /\ batch'.removing = b.removing
         /\ itemRows' \in Seq(ItemRows) /\ SameItems(itemRows')
<1> DEFINE row(i) == IF itemRows[i].status = "pending" THEN [itemRows[i] EXCEPT !.status = status] ELSE itemRows[i]
<1>1. PICK rows : rows = [i \in DOMAIN itemRows |-> row(i)] OBVIOUS
<1>2. /\ itemRows' = rows
      /\ batch' = [b EXCEPT !.status = status, !.success = CountRows(rows, "success"), !.failed = CountRows(rows, "failed")]
  BY <1>1 DEF FinishRows
<1>3. Len(itemRows) \in Nat /\ DOMAIN itemRows = 1 .. Len(itemRows) /\ \A i \in DOMAIN itemRows : itemRows[i] \in ItemRows
  BY DEF BatchTypes
<1>4. \A i \in DOMAIN itemRows : row(i) \in ItemRows /\ row(i).id = itemRows[i].id /\ row(i).prompt = itemRows[i].prompt
  BY <1>3 DEF ItemRows, ItemStatus
<1> HIDE DEF row
<1>5. rows \in Seq(ItemRows) BY <1>3, <1>4, IsASeq, <1>1
<1>6. CountRows(rows, "success") \in Nat /\ CountRows(rows, "failed") \in Nat BY <1>5, CountTyped
<1>7. SameItems(rows) BY <1>1, <1>4 DEF SameItems
<1>8. status \in BatchStatus BY DEF BatchStatus
<1> HIDE <1>1
<1>9. batch' \in BatchRows /\ batch'.status = status /\ batch'.removing = b.removing
  BY <1>2, <1>6, <1>8 DEF BatchRows
<1> QED BY <1>2, <1>5, <1>7, <1>9

\* What a step keeps that leaves a job's answer, files and items, before its charge.
LEMMA EndedKeeps ==
  ASSUME ContentInv, batch.status \notin Served \cup {"none"}, batch' \in BatchRows, batch'.removing = batch.removing,
         batch'.status \in {"failed", "cancelled", batch.status}, batch'.status \notin Charged,
         itemRows' \in Seq(ItemRows), SameItems(itemRows'), UNCHANGED <<remote, disk, removals>>,
         \/ indexer' = indexer /\ (indexer.pc = "idle" \/ batch'.status \in {"cancelled", batch.status})
         \/ indexer' = NotIndexing
  PROVE  BatchTypes' /\ IndexInv' /\ RowsMatchAnswer' /\ RowsFiled' /\ RemovalsKnow'
<1>1. BatchTypes /\ IndexInv BY DEF ContentInv
<1>2. NotIndexing \in IndexerRows /\ NotIndexing.pc = "idle" BY DEF NotIndexing, IndexerRows
<1>3. BatchTypes'
  <2>1. DifferentIds(itemRows') BY <1>1, SameDifferent DEF BatchTypes
  <2>2. itemRows' # <<>> BY <1>1 DEF BatchTypes, SameItems
  <2>3. DifferentIds(itemRows)' BY <2>1 DEF DifferentIds
  <2> QED BY <1>1, <1>2, <2>2, <2>3 DEF BatchTypes
<1>4. ToldOwn' /\ ImagesOwn' /\ \A id : Expects(id)' <=> Expects(id) BY <1>1, OwnStays DEF IndexInv
<1>5. EarlyClean' BY <1>1, <1>2 DEF IndexInv, EarlyClean
<1>6. IndexedSoFar'
  <2>1. indexer'.pc = "lines" => indexer' = indexer BY <1>2
  <2> QED BY <2>1, <1>1, <1>4 DEF IndexInv, IndexedSoFar, Matches, FileOf, OutputFilename
<1>7. FetchedInOrder' /\ IndexerThere' /\ ResultTold' /\ ObjectsTold'
  <2>1. indexer'.pc \in {"fetch", "lines"} => indexer' = indexer BY <1>2
  <2>2. FetchedInOrder' BY <1>1, <2>1 DEF IndexInv, FetchedInOrder, FirstLines, Alone
  <2>3. IndexerThere' BY <1>1, <1>2 DEF IndexInv, IndexerThere
  <2>4. ResultTold' /\ ObjectsTold' BY <1>1 DEF IndexInv, ResultTold, ObjectsTold, Alone, Charged
  <2> QED BY <2>2, <2>3, <2>4
<1>8. RowsMatchAnswer' /\ RowsFiled' /\ RemovalsKnow' BY NotCharged
<1> QED BY <1>3, <1>4, <1>5, <1>6, <1>7, <1>8 DEF IndexInv

LEMMA SendKeeps == ASSUME ContentInv, SendBatch PROVE ContentInv'
<1>1. batch.status = "created" /\ UNCHANGED <<remote, disk, indexer, removals>> BY DEF SendBatch
<1>2. batch \in BatchRows /\ itemRows \in Seq(ItemRows) /\ indexer.pc = "idle" /\ IndexInv /\ BatchTypes /\ BudgetTypes
  BY <1>1 DEF ContentInv, BatchTypes, IndexInv, EarlyClean
<1>3. CASE Spend("faults") /\ FinishRows(batch, "failed")
  <2>1. /\ batch' \in BatchRows /\ batch'.status = "failed" /\ batch'.removing = batch.removing
        /\ itemRows' \in Seq(ItemRows) /\ SameItems(itemRows')
    BY <1>2, <1>3, FinishedRows
  <2>2. BudgetTypes' BY <1>2, <1>3, FileBudgetSpent DEF FileCounters
  <2>3. batch.status \notin Served \cup {"none"} /\ batch'.status \notin Charged BY <1>1, <2>1 DEF Served, Charged
  <2> QED BY <1>1, <1>2, <2>1, <2>2, <2>3, EndedKeeps DEF ContentInv
<1>4. CASE batch' = [batch EXCEPT !.status = "queued"] /\ UNCHANGED <<itemRows, fileBudget>>
  <2>1. batch' \in BatchRows /\ batch'.status = "queued" /\ batch'.removing = batch.removing
    BY <1>2, <1>4 DEF BatchRows, BatchStatus, Unfinished
  <2>2. batch.status \notin Served /\ batch'.status \notin Charged BY <1>1, <2>1 DEF Served, Charged
  <2>3. RowsMatchAnswer' /\ RowsFiled' /\ RemovalsKnow' BY <1>1, <2>1, <2>2, NotCharged
  <2>4. BatchTypes' BY <1>1, <1>2, <1>4, <2>1 DEF BatchTypes, DifferentIds
  <2>5. SameItems(itemRows') BY <1>4 DEF SameItems
  <2>6. ToldOwn' /\ ImagesOwn' BY <1>1, <1>2, <2>5, OwnStays DEF IndexInv
  <2>7. IndexInv'
    BY <1>1, <1>2, <2>1, <2>2, <2>6
    DEF IndexInv, ObjectsTold, Alone, EarlyClean, FetchedInOrder, IndexedSoFar, IndexerThere, ResultTold
  <2> QED BY <1>2, <1>4, <2>3, <2>4, <2>7, FileBudgetSpent DEF ContentInv
<1> QED BY <1>3, <1>4 DEF SendBatch

LEMMA CancelKeeps == ASSUME ContentInv, CancelBatch PROVE ContentInv'
<1>1. batch.status \in Unfinished /\ UNCHANGED <<remote, disk, indexer, removals>> BY DEF CancelBatch
<1>2. Spend("cancels") /\ FinishRows(batch, "cancelled") BY DEF CancelBatch
<1>3. batch \in BatchRows /\ BatchTypes /\ BudgetTypes BY DEF ContentInv, BatchTypes
<1>4. /\ batch' \in BatchRows /\ batch'.status = "cancelled" /\ batch'.removing = batch.removing
      /\ itemRows' \in Seq(ItemRows) /\ SameItems(itemRows')
  BY <1>2, <1>3, FinishedRows
<1>5. BudgetTypes' BY <1>2, <1>3, FileBudgetSpent DEF FileCounters
<1>6. batch.status \notin Served \cup {"none"} /\ batch'.status \notin Charged BY <1>1, <1>4 DEF Served, Charged, Unfinished
<1> QED BY <1>1, <1>4, <1>5, <1>6, EndedKeeps DEF ContentInv

\* The provider answers each item with its own prompt.
LEMMA AnswersKeep == ASSUME ContentInv, ProviderAnswers PROVE ContentInv'
<1>1. PICK verdicts \in [DOMAIN itemRows -> fileBudget.verdicts], extra \in fileBudget.extras :
        remote' = [told |-> AnswerLines(verdicts, extra),
                   objects |-> IF fileBudget.several THEN [i \in DOMAIN AnswerLines(verdicts, extra) |-> <<AnswerLines(verdicts, extra)[i]>>]
                               ELSE <<AnswerLines(verdicts, extra)>>]
  BY DEF ProviderAnswers
<1>2. /\ batch.status = "queued" /\ batch' = [batch EXCEPT !.status = "indexing"]
      /\ UNCHANGED <<itemRows, disk, indexer, removals, fileBudget>>
  BY DEF ProviderAnswers
<1>3. BatchTypes /\ BudgetTypes /\ IndexInv BY DEF ContentInv
<1>4. verdicts \in [DOMAIN itemRows -> LineKinds] /\ extra \in ExtraLines BY <1>3 DEF BudgetTypes, FileBudgets
<1>5. itemRows \in Seq(ItemRows) /\ itemRows # <<>> /\ batch \in BatchRows BY <1>2, <1>3 DEF BatchTypes
<1>6. PICK lines : lines = AnswerLines(verdicts, extra) OBVIOUS
<1>7. /\ lines \in Seq(LineRows)
      /\ \A j \in DOMAIN lines : lines[j] \in ItemLines \/ lines[j].id = Foreign \/ lines[j].kind = "malformed"
  BY <1>4, <1>5, <1>6, AnswerTold
<1>8. /\ remote'.told = lines /\ remote'.objects \in {<<lines>>, Alone(lines)}
      /\ remote' = [told |-> remote'.told, objects |-> remote'.objects]
  BY <1>1, <1>6 DEF Alone
<1>9. Alone(lines) \in Seq(Seq(LineRows))
  <2>1. Len(lines) \in Nat /\ DOMAIN lines = 1 .. Len(lines) BY <1>7
  <2>2. \A i \in 1 .. Len(lines) : <<lines[i]>> \in Seq(LineRows) BY <1>7, <2>1
  <2>3. [i \in 1 .. Len(lines) |-> <<lines[i]>>] \in Seq(Seq(LineRows)) BY <2>1, <2>2, IsASeq
  <2> QED BY <2>1, <2>3 DEF Alone
<1>10. remote' \in RemoteRows
  <2>1. <<lines>> \in Seq(Seq(LineRows)) BY <1>7
  <2>2. remote'.objects \in Seq(Seq(LineRows)) BY <2>1, <1>8, <1>9
  <2> QED BY <2>2, <1>7, <1>8 DEF RemoteRows
<1>11. batch' \in BatchRows /\ batch'.status = "indexing" /\ batch'.removing = batch.removing
  BY <1>2, <1>5 DEF BatchRows, BatchStatus, Unfinished
<1>12. BatchTypes' BY <1>2, <1>3, <1>5, <1>10, <1>11 DEF BatchTypes, DifferentIds
<1>13. batch.status \notin Served /\ batch'.status \notin Charged BY <1>2, <1>11 DEF Served, Charged
<1>14. RowsMatchAnswer' /\ RowsFiled' /\ RemovalsKnow' BY <1>2, <1>11, <1>13, NotCharged
<1>15. ASSUME NEW j \in DOMAIN lines, NEW i \in DOMAIN itemRows, lines[j].id = itemRows[i].id, lines[j].kind = "image"
       PROVE  lines[j].prompt = itemRows[i].prompt
  <2>1. itemRows[i].id \in Ids
    <3>1. DOMAIN itemRows = 1 .. Len(itemRows) BY <1>5
    <3>2. itemRows[i] \in ItemRows BY <1>5, <3>1
    <3> QED BY <3>2 DEF ItemRows
  <2>2. lines[j] \in ItemLines BY <1>7, <1>15, <2>1, IdsKnown
  <2>3. PICK k \in DOMAIN itemRows : lines[j].id = itemRows[k].id /\ lines[j].prompt = itemRows[k].prompt BY <2>2 DEF ItemLines
  <2>4. k = i BY <1>3, <1>15, <2>3 DEF BatchTypes, DifferentIds, IsInjective
  <2> QED BY <2>3, <2>4
<1>16. indexer.pc = "idle" /\ disk.result = {} /\ DOMAIN disk.images = {} BY <1>2, <1>3 DEF IndexInv, EarlyClean
<1>17. IndexInv'
  <2>1. ObjectsTold' BY <1>8 DEF ObjectsTold, Alone
  <2>2. ImagesOwn' BY <1>2, <1>16 DEF ImagesOwn
  <2>3. EarlyClean' /\ FetchedInOrder' /\ IndexedSoFar' /\ IndexerThere' /\ ResultTold'
    BY <1>2, <1>11, <1>16 DEF EarlyClean, FetchedInOrder, IndexedSoFar, IndexerThere, ResultTold
  <2>4. ToldOwn' BY <1>2, <1>8, <1>15 DEF ToldOwn
  <2> QED BY <2>1, <2>2, <2>3, <2>4 DEF IndexInv
<1>18. BudgetTypes' BY <1>2, <1>3, FileBudgetSpent
<1> QED BY <1>12, <1>14, <1>17, <1>18 DEF ContentInv

\* An index that goes on leaves the rows and the answer.
LEMMA IndexGoesOn ==
  ASSUME ContentInv, batch.status \in {"indexing", "cancelled"}, UNCHANGED <<batch, itemRows, remote, removals>>,
         disk' \in DiskRows, indexer' \in IndexerRows, disk'.there, ResultTold', ImagesOwn', FetchedInOrder', IndexedSoFar'
  PROVE  BatchTypes' /\ IndexInv' /\ RowsMatchAnswer' /\ RowsFiled' /\ RemovalsKnow'
<1>1. BatchTypes /\ IndexInv BY DEF ContentInv
<1>2. BatchTypes' BY <1>1 DEF BatchTypes, DifferentIds
<1>3. batch.status \notin Served /\ batch'.status \notin Charged BY DEF Served, Charged
<1>4. RowsMatchAnswer' /\ RowsFiled' /\ RemovalsKnow' BY <1>3, NotCharged
<1>5. ToldOwn' /\ ObjectsTold' /\ EarlyClean' /\ IndexerThere'
  BY <1>1 DEF IndexInv, ToldOwn, ObjectsTold, Alone, EarlyClean, IndexerThere
<1> QED BY <1>2, <1>4, <1>5 DEF IndexInv

LEMMA ErrorKeeps ==
  ASSUME ContentInv, indexer.pc # "idle", IndexError, UNCHANGED <<remote, disk, removals>>
  PROVE  BatchTypes' /\ IndexInv' /\ RowsMatchAnswer' /\ RowsFiled' /\ RemovalsKnow'
<1>1. BatchTypes /\ IndexInv BY DEF ContentInv
<1>2. batch.status \in {"indexing", "cancelled"} /\ batch \in BatchRows /\ itemRows \in Seq(ItemRows)
  BY <1>1 DEF IndexInv, IndexerThere, BatchTypes
<1>3. indexer' = NotIndexing BY DEF IndexError
<1>4. batch.status \notin Served \cup {"none"} BY <1>2 DEF Served
<1>5. /\ batch' \in BatchRows /\ batch'.removing = batch.removing
      /\ batch'.status \in {"failed", batch.status}
      /\ itemRows' \in Seq(ItemRows) /\ SameItems(itemRows')
  <2>1. CASE batch.status \notin Unfinished BY <2>1, <1>2 DEF IndexError, SameItems
  <2>2. CASE batch.status \in Unfinished BY <1>2, <2>2, <1>1, FinishedRows DEF BatchRows, IndexError, SameItems
  <2> QED BY <2>1, <2>2
<1>6. batch'.status \notin Charged BY <1>2, <1>5 DEF Charged, Served
<1> QED BY <1>3, <1>4, <1>5, <1>6, EndedKeeps

LEMMA StartKeeps == ASSUME ContentInv, IndexStart PROVE ContentInv'
<1>1. /\ indexer.pc = "idle" /\ batch.status = "indexing" /\ UNCHANGED <<batch, itemRows, remote, removals, fileBudget>>
      /\ disk' = [disk EXCEPT !.there = TRUE, !.fetched = IF disk.result = {} THEN <<>> ELSE @]
      /\ indexer' = [NotIndexing EXCEPT !.pc = IF disk.result = {} THEN "fetch" ELSE "lines", !.at = 1]
  BY DEF IndexStart
<1>2. BatchTypes /\ IndexInv /\ BudgetTypes BY DEF ContentInv
<1>3. disk \in DiskRows /\ remote \in RemoteRows BY <1>2 DEF BatchTypes
<1>0. PICK fetched, pc : fetched = (IF disk.result = {} THEN <<>> ELSE disk.fetched)
                         /\ pc = (IF disk.result = {} THEN "fetch" ELSE "lines") OBVIOUS
<1>33. disk.fetched \in Seq(LineRows) /\ fetched \in Seq(LineRows) /\ pc \in {"fetch", "lines"}
  BY <1>0, <1>3 DEF DiskRows
<1>44. /\ disk' = [disk EXCEPT !.there = TRUE, !.fetched = fetched]
       /\ indexer' = [NotIndexing EXCEPT !.pc = pc, !.at = 1]
  BY <1>0, <1>1
<1>4. disk' \in DiskRows /\ disk'.there /\ disk'.images = disk.images /\ disk'.result = disk.result /\ disk'.fetched = fetched
  BY <1>3, <1>33, <1>44 DEF DiskRows
<1>5. disk.result = {} => disk'.fetched = <<>> BY <1>0, <1>4
<1>66. indexer' \in IndexerRows /\ indexer'.at = 1 /\ indexer'.found = <<>> /\ indexer'.pc = pc
  <2>1. indexer' = [pc |-> pc, at |-> 1, found |-> <<>>] BY <1>44 DEF NotIndexing
  <2>2. pc \in {"idle", "fetch", "lines"} /\ 1 \in Nat /\ <<>> \in Seq(FoundRows) BY <1>33
  <2> QED BY <2>1, <2>2 DEF IndexerRows
<1>6. /\ indexer' \in IndexerRows /\ indexer'.at = 1 /\ indexer'.found = <<>>
      /\ indexer'.pc = IF disk.result = {} THEN "fetch" ELSE "lines"
  BY <1>0, <1>66
<1>7. ResultTold' /\ ImagesOwn' BY <1>1, <1>2, <1>4 DEF IndexInv, ResultTold, ImagesOwn, OutputFilename
<1>8. Len(remote.told) \in Nat BY <1>3 DEF RemoteRows
<1>9. FetchedInOrder' BY <1>5, <1>6, <1>1, <1>2, <1>8 DEF FetchedInOrder, IndexInv, ObjectsTold, Served, FirstLines, Alone
<1>10. IndexedSoFar' BY <1>1, <1>2, <1>4, <1>6, <1>8 DEF IndexedSoFar, IndexInv, ResultTold
<1>11. BatchTypes' /\ IndexInv' /\ RowsMatchAnswer' /\ RowsFiled' /\ RemovalsKnow'
  BY <1>1, <1>4, <1>6, <1>7, <1>9, <1>10, IndexGoesOn
<1> QED BY <1>1, <1>2, <1>11, FileBudgetSpent DEF ContentInv

LEMMA PartKeeps == ASSUME ContentInv, FetchPart PROVE ContentInv'
<1>1. /\ indexer.pc = "fetch" /\ indexer.at <= Len(remote.objects)
      /\ UNCHANGED <<batch, itemRows, remote, removals, fileBudget>>
      /\ disk' = [disk EXCEPT !.fetched = @ \o remote.objects[indexer.at]]
      /\ indexer' = [indexer EXCEPT !.at = @ + 1]
  BY DEF FetchPart
<1>2. BatchTypes /\ IndexInv /\ BudgetTypes BY DEF ContentInv
<1>3. disk \in DiskRows /\ remote \in RemoteRows /\ indexer \in IndexerRows BY <1>2 DEF BatchTypes
<1>4. batch.status \in {"indexing", "cancelled"} /\ disk.there BY <1>1, <1>2 DEF IndexInv, IndexerThere
<1>5. /\ disk.fetched \in Seq(LineRows) /\ remote.objects \in Seq(Seq(LineRows)) /\ remote.told \in Seq(LineRows)
      /\ indexer.at \in Nat
  BY <1>3 DEF DiskRows, RemoteRows, IndexerRows
<1>6. Len(remote.told) \in Nat /\ DOMAIN remote.told = 1 .. Len(remote.told) BY <1>5
<1>7. PICK fetched : fetched = disk.fetched \o remote.objects[indexer.at] OBVIOUS
<1>8. /\ indexer.at \in 1 .. Len(remote.objects) /\ fetched \in Seq(LineRows)
      /\ \/ remote.objects = <<remote.told>> /\ indexer.at + 1 = 2 /\ fetched = remote.told
         \/ /\ remote.objects = Alone(remote.told)
            /\ indexer.at + 1 \in 1 .. Len(remote.told) + 1 /\ FirstLines(fetched, indexer.at)
  <2>1. CASE remote.objects = <<remote.told>>
    <3>0. Len(remote.objects) = 1 BY <2>1
    <3>1. indexer.at # 2 BY <1>1, <1>5, <3>0
    <3>2. indexer.at = 1 => fetched = disk.fetched \o remote.told
      <4>1. remote.objects[1] = remote.told BY <2>1
      <4> QED BY <1>7, <4>1
    <3>3. CASE indexer.at = 1 /\ disk.fetched = <<>> BY <3>2, <3>3, <1>5, ConcatEmptySeq, <2>1
    <3>4. CASE indexer.at = 2 BY <3>1, <3>4
    <3>5. CASE remote.objects = Alone(remote.told) /\ indexer.at \in 1 .. Len(remote.told) + 1
               /\ FirstLines(disk.fetched, indexer.at - 1)
      <4>1. Len(remote.objects) = 1 /\ Len(Alone(remote.told)) = Len(remote.told)
        BY <2>1, <1>6 DEF Alone
      <4>2. indexer.at = 1 BY <1>1, <3>5, <4>1
      <4>3. disk.fetched = <<>> BY <1>5, <3>5, <4>2 DEF FirstLines
      <4> QED BY <3>3, <4>2, <4>3
    <3> QED BY <1>1, <1>2, <3>3, <3>4, <3>5 DEF IndexInv, FetchedInOrder
  <2>2. CASE remote.objects # <<remote.told>>
    <3>1. /\ remote.objects = Alone(remote.told) /\ indexer.at \in 1 .. Len(remote.told) + 1
          /\ FirstLines(disk.fetched, indexer.at - 1)
      BY <1>1, <1>2, <2>2 DEF IndexInv, FetchedInOrder
    <3>2. Len(Alone(remote.told)) = Len(remote.told) BY <1>6 DEF Alone
    <3>3. indexer.at \in 1 .. Len(remote.told) BY <1>1, <1>6, <3>1, <3>2
    <3>4. remote.objects[indexer.at] = <<remote.told[indexer.at]>> BY <1>6, <3>1, <3>3 DEF Alone
    <3>5. remote.told[indexer.at] \in LineRows BY <1>5, <3>3
    <3>6. PICK line \in LineRows : line = remote.told[indexer.at] BY <3>5
    <3>7. fetched = disk.fetched \o <<line>> /\ <<line>> \in Seq(LineRows) /\ Len(<<line>>) = 1 BY <1>7, <3>4, <3>6
    <3>8. Len(disk.fetched) = indexer.at - 1 /\ \A i \in 1 .. indexer.at - 1 : disk.fetched[i] = remote.told[i]
      BY <3>1 DEF FirstLines
    <3>9. /\ fetched \in Seq(LineRows) /\ Len(fetched) = Len(disk.fetched) + 1
          /\ \A i \in 1 .. Len(disk.fetched) + 1 :
               fetched[i] = IF i <= Len(disk.fetched) THEN disk.fetched[i] ELSE <<line>>[i - Len(disk.fetched)]
      BY <1>5, <3>7, ConcatProperties
    <3>10. Len(fetched) = indexer.at BY <1>5, <3>8, <3>9
    <3>11. \A i \in 1 .. indexer.at : fetched[i] = remote.told[i]
      <4> SUFFICES ASSUME NEW i \in 1 .. indexer.at PROVE fetched[i] = remote.told[i] OBVIOUS
      <4>1. CASE i <= indexer.at - 1 BY <1>5, <4>1, <3>8, <3>9
      <4>2. CASE ~ (i <= indexer.at - 1)
        <5>1. i = indexer.at BY <1>5, <4>2
        <5>2. i - Len(disk.fetched) = 1 /\ i \in 1 .. Len(disk.fetched) + 1 /\ ~ (i <= Len(disk.fetched))
          BY SMTT(30), <1>5, <3>8, <5>1
        <5>3. fetched[i] = <<line>>[1] BY SMTT(30), <3>9, <5>2
        <5> QED BY <5>1, <5>3, <3>6
      <4> QED BY <4>1, <4>2
    <3> QED BY <1>6, <3>1, <3>2, <3>3, <3>9, <3>10, <3>11 DEF FirstLines
  <2> QED BY <2>1, <2>2
<1>9. disk' \in DiskRows /\ disk'.there /\ disk'.images = disk.images /\ disk'.result = disk.result /\ disk'.fetched = fetched
  BY <1>1, <1>3, <1>4, <1>7, <1>8 DEF DiskRows
<1>10. /\ indexer' \in IndexerRows /\ indexer'.at = indexer.at + 1 /\ indexer'.pc = "fetch"
       /\ indexer'.found = <<>>
  <2>1. indexer.found = <<>> BY <1>1, <1>2 DEF IndexInv, FetchedInOrder
  <2>2. indexer.at + 1 \in Nat BY <1>5
  <2> QED BY <1>1, <1>3, <2>1, <2>2 DEF IndexerRows
<1>11. ResultTold' /\ ImagesOwn' BY <1>1, <1>2, <1>9 DEF IndexInv, ResultTold, ImagesOwn, OutputFilename
<1>12. IndexedSoFar' BY <1>10 DEF IndexedSoFar
<1>13. FetchedInOrder'
  <2>1. remote' = remote /\ (indexer.at + 1) - 1 = indexer.at BY <1>1, <1>5
  <2>2. FirstLines(fetched, indexer.at) => FirstLines(disk.fetched, indexer.at - 1)' BY <1>9, <1>10, <2>1 DEF FirstLines
  <2> QED BY <1>8, <1>9, <1>10, <2>1, <2>2 DEF FetchedInOrder, Alone
<1>14. BatchTypes' /\ IndexInv' /\ RowsMatchAnswer' /\ RowsFiled' /\ RemovalsKnow'
  BY <1>1, <1>4, <1>9, <1>10, <1>11, <1>12, <1>13, IndexGoesOn
<1> QED BY <1>1, <1>2, <1>14, FileBudgetSpent DEF ContentInv

LEMMA WholeKeeps == ASSUME ContentInv, FetchWhole PROVE ContentInv'
<1>1. /\ indexer.pc = "fetch" /\ indexer.at > Len(remote.objects) /\ remote.objects # <<>>
      /\ UNCHANGED <<batch, itemRows, remote, removals, fileBudget>>
      /\ disk' = [disk EXCEPT !.result = {disk.fetched}, !.fetched = <<>>]
      /\ indexer' = [indexer EXCEPT !.pc = "lines", !.at = 1]
  BY DEF FetchWhole
<1>2. BatchTypes /\ IndexInv /\ BudgetTypes BY DEF ContentInv
<1>3. disk \in DiskRows /\ remote \in RemoteRows /\ indexer \in IndexerRows BY <1>2 DEF BatchTypes
<1>4. batch.status \in {"indexing", "cancelled"} /\ disk.there BY <1>1, <1>2 DEF IndexInv, IndexerThere
<1>5. /\ disk.fetched \in Seq(LineRows) /\ remote.told \in Seq(LineRows) /\ indexer.at \in Nat
  BY <1>3 DEF DiskRows, RemoteRows, IndexerRows
<1>6. Len(remote.told) \in Nat /\ DOMAIN remote.told = 1 .. Len(remote.told) BY <1>5
<1>7. disk.fetched = remote.told
  <2>1. CASE remote.objects = <<remote.told>> /\ (indexer.at = 1 \/ (indexer.at = 2 /\ disk.fetched = remote.told))
    BY <2>1, <1>1
  <2>2. CASE /\ remote.objects = Alone(remote.told)
             /\ indexer.at \in 1 .. Len(remote.told) + 1 /\ FirstLines(disk.fetched, indexer.at - 1)
    <3>1. Len(Alone(remote.told)) = Len(remote.told) BY <1>6 DEF Alone
    <3>2. indexer.at - 1 = Len(remote.told) BY <1>1, <1>6, <2>2, <3>1
    <3> QED BY <1>5, <1>6, <2>2, <3>2, SeqEqual DEF FirstLines
  <2> QED BY <1>1, <1>2, <2>1, <2>2 DEF IndexInv, FetchedInOrder
<1>8. disk' \in DiskRows /\ disk'.there /\ disk'.images = disk.images /\ disk'.result = {remote.told}
  <2>1. PICK result \in SUBSET Seq(LineRows) : result = {remote.told} BY <1>5
  <2>2. disk' = [disk EXCEPT !.result = result, !.fetched = <<>>] BY <1>1, <1>7, <2>1
  <2>3. <<>> \in Seq(LineRows) OBVIOUS
  <2> QED BY <1>3, <1>4, <2>1, <2>2, <2>3 DEF DiskRows
<1>9. indexer' \in IndexerRows /\ indexer'.at = 1 /\ indexer'.pc = "lines" /\ indexer'.found = indexer.found
  BY <1>1, <1>3 DEF IndexerRows
<1>10. ResultTold' /\ ImagesOwn' BY <1>1, <1>2, <1>8 DEF IndexInv, ResultTold, ImagesOwn, OutputFilename
<1>11. FetchedInOrder' BY <1>9 DEF FetchedInOrder
<1>12. IndexedSoFar'
  <2>1. indexer'.at \in 1 .. Len(remote'.told) + 1 BY <1>1, <1>6, <1>9
  <2>2. 1 .. indexer'.at - 1 = {} BY <1>9
  <2>3. DOMAIN indexer'.found = {} BY <1>1, <1>2, <1>9 DEF IndexInv, FetchedInOrder
  <2> QED BY <1>1, <1>8, <2>1, <2>2, <2>3 DEF IndexedSoFar
<1>13. BatchTypes' /\ IndexInv' /\ RowsMatchAnswer' /\ RowsFiled' /\ RemovalsKnow'
  BY <1>1, <1>4, <1>8, <1>9, <1>10, <1>11, <1>12, IndexGoesOn
<1> QED BY <1>1, <1>2, <1>13, FileBudgetSpent DEF ContentInv

LEMMA FailsKeep == ASSUME ContentInv, ResultFails PROVE ContentInv'
BY FileBudgetSpent, ErrorKeeps DEF ResultFails, ContentInv

\* The lines that are read are those that were told.
LEMMA LinesTold == ASSUME disk.result = {remote.told} PROVE Lines = remote.told
BY DEF Lines

LEMMA LineKeeps == ASSUME ContentInv, IndexLine PROVE ContentInv'
<1>1. indexer.pc = "lines" /\ indexer.at <= Len(Lines) /\ UNCHANGED <<remote, removals, fileBudget>> BY DEF IndexLine
<1>2. BatchTypes /\ IndexInv /\ BudgetTypes BY DEF ContentInv
<1>3. /\ disk.result = {remote.told} /\ indexer.at \in 1 .. Len(remote.told) + 1
      /\ \A k \in DOMAIN indexer.found :
           /\ \E j \in 1 .. indexer.at - 1 : Matches(remote.told[j], indexer.found[k])
           /\ indexer.found[k].file # <<>> => indexer.found[k].file \in DOMAIN disk.images
      /\ \A j \in 1 .. indexer.at - 1 :
           Expects(remote.told[j].id) => \E k \in DOMAIN indexer.found : Matches(remote.told[j], indexer.found[k])
  BY <1>1, <1>2 DEF IndexInv, IndexedSoFar
<1>4. Lines = remote.told BY <1>3, LinesTold
<1>5. disk \in DiskRows /\ remote \in RemoteRows /\ indexer \in IndexerRows BY <1>2 DEF BatchTypes
<1>6. batch.status \in {"indexing", "cancelled"} /\ disk.there BY <1>1, <1>2 DEF IndexInv, IndexerThere
<1>7. remote.told \in Seq(LineRows) /\ indexer.found \in Seq(FoundRows) /\ indexer.at \in Nat
  BY <1>5 DEF RemoteRows, IndexerRows
<1>8. indexer.at \in 1 .. Len(remote.told) /\ Len(remote.told) \in Nat BY <1>7, <1>1, <1>4, <1>3
<1>9. PICK line \in LineRows : line = remote.told[indexer.at] BY <1>7, <1>8
<1>10. PICK at : at = indexer.at + 1 OBVIOUS
<1>11. at \in 1 .. Len(remote.told) + 1 /\ at \in Nat /\ 1 .. at - 1 = 1 .. indexer.at
       /\ \A j \in 1 .. at - 1 : j \in 1 .. indexer.at - 1 \/ j = indexer.at
  BY <1>7, <1>8, <1>10
<1>12. UNCHANGED <<remote, batch, itemRows>> => \A id : Expects(id)' <=> Expects(id) BY DEF Expects
<1>13. CASE IndexError /\ UNCHANGED disk BY <1>1, <1>2, <1>13, FileBudgetSpent, ErrorKeeps DEF ContentInv
<1>14. CASE ~Expects(line.id) /\ indexer' = [indexer EXCEPT !.at = at] /\ UNCHANGED <<batch, itemRows, disk>>
  <2>1. indexer' \in IndexerRows /\ indexer'.at = at /\ indexer'.pc = "lines" /\ indexer'.found = indexer.found
    BY <1>1, <1>5, <1>11, <1>14 DEF IndexerRows
  <2>2. ResultTold' /\ ImagesOwn' BY <1>1, <1>2, <1>14 DEF IndexInv, ResultTold, ImagesOwn, OutputFilename
  <2>3. FetchedInOrder' BY <2>1 DEF FetchedInOrder
  <2>4. \A k \in DOMAIN indexer.found :
          /\ \E j \in 1 .. at - 1 : Matches(remote.told[j], indexer.found[k])
          /\ indexer.found[k].file # <<>> => indexer.found[k].file \in DOMAIN disk.images
    BY <1>7, <1>10, <1>3
  <2>5. \A j \in 1 .. at - 1 :
          Expects(remote.told[j].id) => \E k \in DOMAIN indexer.found : Matches(remote.told[j], indexer.found[k])
    BY <1>3, <1>9, <1>11, <1>14
  <2>6. IndexedSoFar'
    BY <1>1, <1>3, <1>11, <1>12, <1>14, <2>1, <2>4, <2>5 DEF IndexedSoFar, Matches, FileOf, OutputFilename
  <2>7. BatchTypes' /\ IndexInv' /\ RowsMatchAnswer' /\ RowsFiled' /\ RemovalsKnow'
    BY <1>1, <1>5, <1>6, <1>14, <2>1, <2>2, <2>3, <2>6, IndexGoesOn
  <2> QED BY <1>1, <1>2, <2>7, FileBudgetSpent DEF ContentInv
\* A line of one of the job's items is noted.
<1>15. ASSUME Expects(line.id), line.kind # "malformed", NEW found \in FoundRows, Matches(line, found),
              indexer' = [indexer EXCEPT !.at = at, !.found = Append(indexer.found, found)],
              UNCHANGED <<batch, itemRows>>, disk' \in DiskRows, disk'.there, disk'.result = disk.result,
              DOMAIN disk.images \subseteq DOMAIN disk'.images, ImagesOwn',
              found.file # <<>> => found.file \in DOMAIN disk'.images
       PROVE  ContentInv'
  <2>1. PICK all : all = Append(indexer.found, found) OBVIOUS
  <2>2. /\ all \in Seq(FoundRows) /\ Len(all) = Len(indexer.found) + 1
        /\ \A k \in 1 .. Len(indexer.found) : all[k] = indexer.found[k]
        /\ all[Len(indexer.found) + 1] = found
    BY <1>7, <2>1, AppendProperties
  <2>3. Len(indexer.found) \in Nat /\ DOMAIN indexer.found = 1 .. Len(indexer.found) /\ DOMAIN all = 1 .. Len(indexer.found) + 1
    BY <1>7, <2>2
  <2>4. indexer' \in IndexerRows /\ indexer'.at = at /\ indexer'.pc = "lines" /\ indexer'.found = all
    BY <1>1, <1>5, <1>11, <1>15, <2>1, <2>2 DEF IndexerRows
  <2>5. ResultTold' BY <1>1, <1>2, <1>15 DEF IndexInv, ResultTold
  <2>6. FetchedInOrder' BY <2>4 DEF FetchedInOrder
  <2>7. ASSUME NEW k \in DOMAIN all
        PROVE  /\ \E j \in 1 .. at - 1 : Matches(remote.told[j], all[k])
               /\ all[k].file # <<>> => all[k].file \in DOMAIN disk'.images
    <3>1. CASE k \in DOMAIN indexer.found
      <4>1. all[k] = indexer.found[k] BY <2>2, <2>3, <3>1
      <4>2. \A j \in 1 .. indexer.at - 1 : j \in 1 .. at - 1 BY <1>7, <1>10
      <4> QED BY <1>3, <1>15, <3>1, <4>1, <4>2
    <3>2. CASE k = Len(indexer.found) + 1
      <4>1. all[k] = found /\ indexer.at \in 1 .. at - 1 BY <2>2, <3>2, <1>8, <1>11
      <4> QED BY <1>9, <1>15, <4>1
    <3> QED BY <2>3, <3>1, <3>2
  <2>8. ASSUME NEW j \in 1 .. at - 1, Expects(remote.told[j].id)
        PROVE  \E k \in DOMAIN all : Matches(remote.told[j], all[k])
    <3>1. CASE j \in 1 .. indexer.at - 1
      <4>1. PICK k \in DOMAIN indexer.found : Matches(remote.told[j], indexer.found[k]) BY <1>3, <2>8, <3>1
      <4>2. k \in DOMAIN all /\ all[k] = indexer.found[k] BY <2>2, <2>3
      <4> QED BY <4>1, <4>2
    <3>2. CASE j = indexer.at BY <2>3, <1>9, <1>15, <2>2, <3>2
    <3> QED BY <1>11, <3>1, <3>2
  <2>9. IndexedSoFar'
    <3>1. remote' = remote /\ disk'.result = {remote'.told} /\ indexer'.at \in 1 .. Len(remote'.told) + 1
      BY <1>1, <1>3, <1>11, <1>15, <2>4
    <3>2. \A id : Expects(id)' <=> Expects(id) BY <1>12, <1>15, <3>1
    <3>3. \A k \in DOMAIN indexer'.found :
            /\ \E j \in 1 .. indexer'.at - 1 : Matches(remote'.told[j], indexer'.found[k])
            /\ indexer'.found[k].file # <<>> => indexer'.found[k].file \in DOMAIN disk'.images
      BY <2>4, <2>7, <3>1
    <3>4. \A j \in 1 .. indexer'.at - 1 :
            Expects(remote'.told[j].id) => \E k \in DOMAIN indexer'.found : Matches(remote'.told[j], indexer'.found[k])
      BY <2>4, <2>8, <3>1
    <3>5. ASSUME NEW j \in 1 .. indexer'.at - 1, NEW id, id = remote'.told[j].id, Expects(id)'
          PROVE  \E k \in DOMAIN indexer'.found : Matches(remote'.told[j], indexer'.found[k])
      BY <3>2, <3>4, <3>5
    <3> QED BY <3>1, <3>3, <3>5 DEF IndexedSoFar, Expects, Matches, FileOf, OutputFilename
  <2>10. BatchTypes' /\ IndexInv' /\ RowsMatchAnswer' /\ RowsFiled' /\ RemovalsKnow'
    BY <1>1, <1>6, <1>15, <2>4, <2>5, <2>6, <2>9, IndexGoesOn
  <2> QED BY <1>1, <1>2, <2>10, FileBudgetSpent DEF ContentInv
<1>16. Expects(line.id) => line.id \in Ids
  <2> SUFFICES ASSUME NEW i \in DOMAIN itemRows, itemRows[i].id = line.id PROVE line.id \in Ids BY DEF Expects
  <2>1. itemRows \in Seq(ItemRows) /\ DOMAIN itemRows = 1 .. Len(itemRows) BY <1>2 DEF BatchTypes
  <2>2. itemRows[i] \in ItemRows BY <2>1
  <2> QED BY <2>2 DEF ItemRows
<1>17. CASE /\ Expects(line.id) /\ line.kind = "image"
            /\ disk' = [disk EXCEPT !.images = [f \in DOMAIN @ \cup {OutputFilename(line.id)} |->
                                                  IF f = OutputFilename(line.id) THEN line.prompt ELSE @[f]]]
            /\ indexer' = [indexer EXCEPT !.at = at, !.found = Append(indexer.found, [id |-> line.id, file |-> OutputFilename(line.id)])]
            /\ UNCHANGED <<batch, itemRows>>
  <2>1. PICK file : file = OutputFilename(line.id) OBVIOUS
  <2>2. file \in FileNames /\ line.prompt \in Prompts /\ line.id \in Ids BY <1>16, <1>17, <2>1 DEF FileNames, LineRows
  <2>3. PICK found : found = [id |-> line.id, file |-> file] OBVIOUS
  <2>4. found \in FoundRows /\ Matches(line, found) /\ found.file = file
    BY <1>17, <2>1, <2>2, <2>3 DEF FoundRows, Matches, FileOf
  <2>5. PICK images : images = [f \in DOMAIN disk.images \cup {file} |-> IF f = file THEN line.prompt ELSE disk.images[f]] OBVIOUS
  <2>6. images \in ImageMaps
    <3>1. PICK S \in SUBSET FileNames : disk.images \in [S -> Prompts] BY <1>5 DEF DiskRows, ImageMaps
    <3>2. images \in [S \cup {file} -> Prompts] /\ S \cup {file} \in SUBSET FileNames BY <2>2, <2>5, <3>1
    <3> QED BY <3>2 DEF ImageMaps
  <2>7. disk' = [disk EXCEPT !.images = images] BY <1>17, <2>1, <2>5
  <2>8. disk' \in DiskRows /\ disk'.there /\ disk'.result = disk.result /\ disk'.images = images
    BY <1>5, <1>6, <2>6, <2>7 DEF DiskRows
  <2>9. DOMAIN disk.images \subseteq DOMAIN images /\ file \in DOMAIN images BY <2>5
  <2>10. ImagesOwn'
    <3> SUFFICES ASSUME NEW i \in DOMAIN itemRows, OutputFilename(itemRows[i].id) \in DOMAIN images
                 PROVE  images[OutputFilename(itemRows[i].id)] = itemRows[i].prompt
      BY <1>17, <2>8 DEF ImagesOwn, OutputFilename
    <3>1. CASE OutputFilename(itemRows[i].id) = file
      <4>1. itemRows[i].id = line.id BY <2>1, <3>1 DEF OutputFilename
      <4>2. line.prompt = itemRows[i].prompt
        <5>1. indexer.at \in DOMAIN remote.told BY <1>7, <1>8
        <5> QED BY <1>2, <1>9, <1>17, <4>1, <5>1 DEF IndexInv, ToldOwn
      <4> QED BY <2>5, <2>9, <3>1, <4>2
    <3>2. CASE OutputFilename(itemRows[i].id) # file BY <2>5, <3>2, <1>2 DEF IndexInv, ImagesOwn
    <3> QED BY <3>1, <3>2
  <2>11. indexer' = [indexer EXCEPT !.at = at, !.found = Append(indexer.found, found)] BY <1>17, <2>1, <2>3
  <2>12. Expects(line.id) /\ line.kind # "malformed" /\ UNCHANGED <<batch, itemRows>> BY <1>17
  <2>13. found.file # <<>> => found.file \in DOMAIN disk'.images BY <2>4, <2>8, <2>9
  <2>14. DOMAIN disk.images \subseteq DOMAIN disk'.images BY <2>8, <2>9
  <2> QED BY <1>15, <2>4, <2>8, <2>10, <2>11, <2>12, <2>13, <2>14
<1>18. CASE /\ Expects(line.id) /\ line.kind \notin {"image", "malformed"}
            /\ indexer' = [indexer EXCEPT !.at = at, !.found = Append(indexer.found, [id |-> line.id, file |-> <<>>])]
            /\ UNCHANGED <<batch, itemRows, disk>>
  <2>1. PICK found : found = [id |-> line.id, file |-> <<>>] OBVIOUS
  <2>2. found \in FoundRows /\ Matches(line, found) /\ found.file = <<>>
    BY <1>16, <1>18, <2>1 DEF FoundRows, Matches, FileOf, FileNames
  <2>3. ImagesOwn' BY <1>2, <1>18 DEF IndexInv, ImagesOwn, OutputFilename
  <2>4. indexer' = [indexer EXCEPT !.at = at, !.found = Append(indexer.found, found)] BY <1>18, <2>1
  <2> QED BY <1>5, <1>6, <1>15, <1>18, <2>2, <2>3, <2>4
<1>20. CASE ~Expects(line.id) BY <1>4, <1>9, <1>20, <1>10, <1>14 DEF IndexLine
<1>21. CASE Expects(line.id) /\ (line.id \in SeenIds \/ line.kind = "malformed") BY <1>4, <1>9, <1>21, <1>13 DEF IndexLine
<1>22. CASE Expects(line.id) /\ line.id \notin SeenIds /\ line.kind = "image"
  BY <1>4, <1>9, <1>22, <1>10, <1>17 DEF IndexLine
<1>23. CASE Expects(line.id) /\ line.id \notin SeenIds /\ line.kind \notin {"image", "malformed"}
  BY <1>4, <1>9, <1>23, <1>10, <1>18 DEF IndexLine
<1> QED BY <1>20, <1>21, <1>22, <1>23

\* The verdict on an item is what the lines said of it.
LEMMA VerdictTold ==
  ASSUME BatchTypes, IndexedSoFar, indexer.pc = "lines", indexer.at > Len(remote.told), NEW i \in DOMAIN itemRows,
         NEW row, row = Verdict(itemRows[i])
  PROVE  /\ row \in ItemRows /\ row.id = itemRows[i].id /\ row.prompt = itemRows[i].prompt
         /\ row.status = IF \E j \in DOMAIN remote.told : remote.told[j].id = itemRows[i].id /\ remote.told[j].kind = "image"
                         THEN "success" ELSE "failed"
         /\ row.status = "success" => row.file = OutputFilename(row.id) /\ row.file \in DOMAIN disk.images
<1>1. /\ remote.told \in Seq(LineRows) /\ indexer.found \in Seq(FoundRows) /\ indexer.at \in Nat /\ itemRows \in Seq(ItemRows)
  BY DEF BatchTypes, RemoteRows, IndexerRows
<1>2. indexer.at \in 1 .. Len(remote.told) + 1 /\ Len(remote.told) \in Nat /\ DOMAIN remote.told = 1 .. Len(remote.told)
  BY <1>1 DEF IndexedSoFar
<1>3. 1 .. indexer.at - 1 = DOMAIN remote.told BY <1>1, <1>2
<1>4. itemRows[i] \in ItemRows BY <1>1
<1>5. PICK item : item = itemRows[i] OBVIOUS
<1>6. PICK files : files = {indexer.found[k].file : k \in {j \in DOMAIN indexer.found : indexer.found[j].id = item.id}} \ {<<>>}
  OBVIOUS
<1>7. row = IF files = {} THEN [item EXCEPT !.status = "failed", !.file = <<>>]
            ELSE [item EXCEPT !.status = "success", !.file = CHOOSE f \in files : TRUE]
  BY <1>5, <1>6 DEF Verdict
<1>8. ASSUME NEW f \in files
      PROVE  /\ f = OutputFilename(item.id) /\ f \in DOMAIN disk.images
             /\ \E j \in DOMAIN remote.told : remote.told[j].id = item.id /\ remote.told[j].kind = "image"
  BY <1>6, <1>3 DEF IndexedSoFar, Matches, FileOf
<1>9. ASSUME NEW j \in DOMAIN remote.told, remote.told[j].id = item.id, remote.told[j].kind = "image" PROVE files # {}
  <2>1. Expects(remote.told[j].id) BY <1>5, <1>9 DEF Expects
  <2>2. PICK k \in DOMAIN indexer.found : Matches(remote.told[j], indexer.found[k]) BY <1>3, <2>1 DEF IndexedSoFar
  <2>3. indexer.found[k].id = item.id /\ indexer.found[k].file = OutputFilename(item.id)
    BY <1>9, <2>2 DEF Matches, FileOf
  <2>4. OutputFilename(item.id) # <<>> BY DEF OutputFilename
  <2> QED BY <1>6, <2>3, <2>4
<1>10. item \in ItemRows /\ item.id \in Ids BY <1>4, <1>5 DEF ItemRows
<1>11. OutputFilename(item.id) \in FileNames /\ <<>> \in FileNames BY <1>10 DEF FileNames
<1>12. CASE files = {}
  <2>1. row = [item EXCEPT !.status = "failed", !.file = <<>>] BY <1>7, <1>12
  <2>2. row \in ItemRows /\ row.id = item.id /\ row.prompt = item.prompt /\ row.status = "failed"
    BY <1>10, <1>11, <2>1 DEF ItemRows, ItemStatus
  <2> QED BY <1>5, <1>9, <1>12, <2>2
<1>13. CASE files # {}
  <2>1. PICK file : file = CHOOSE f \in files : TRUE OBVIOUS
  <2>2. file \in files BY <1>13, <2>1
  <2>3. /\ file = OutputFilename(item.id) /\ file \in DOMAIN disk.images
        /\ \E j \in DOMAIN remote.told : remote.told[j].id = item.id /\ remote.told[j].kind = "image"
    BY <1>8, <2>2
  <2>4. row = [item EXCEPT !.status = "success", !.file = file] BY <1>7, <1>13, <2>1
  <2>5. file \in FileNames BY <1>11, <2>3
  <2>6. row \in ItemRows /\ row.id = item.id /\ row.prompt = item.prompt /\ row.status = "success" /\ row.file = file
    BY <1>10, <2>4, <2>5 DEF ItemRows, ItemStatus
  <2> QED BY <1>5, <2>3, <2>6
<1> QED BY <1>12, <1>13

LEMMA CommitKeeps == ASSUME ContentInv, IndexCommit PROVE ContentInv'
<1>1. /\ indexer.pc = "lines" /\ indexer.at > Len(Lines)
      /\ itemRows' = [i \in DOMAIN itemRows |-> Verdict(itemRows[i])]
      /\ batch' = IF batch.status # "indexing" THEN batch
                  ELSE [batch EXCEPT !.status = "settling", !.success = CountRows(itemRows', "success"),
                                     !.failed = CountRows(itemRows', "failed")]
      /\ indexer' = NotIndexing /\ UNCHANGED <<remote, disk, removals, fileBudget>>
  BY DEF IndexCommit
<1>2. BatchTypes /\ IndexInv /\ BudgetTypes BY DEF ContentInv
<1>3. IndexedSoFar /\ indexer.at > Len(remote.told) /\ batch.status \in {"indexing", "cancelled"} /\ disk.there
  BY <1>1, <1>2, LinesTold DEF IndexInv, IndexedSoFar, IndexerThere
<1>4. batch \in BatchRows /\ itemRows \in Seq(ItemRows) BY <1>2 DEF BatchTypes
<1>5. DOMAIN itemRows = 1 .. Len(itemRows) /\ Len(itemRows) \in Nat /\ DOMAIN itemRows' = DOMAIN itemRows BY <1>1, <1>4
<1>6. ASSUME NEW i \in DOMAIN itemRows
      PROVE  /\ itemRows'[i] \in ItemRows /\ itemRows'[i].id = itemRows[i].id /\ itemRows'[i].prompt = itemRows[i].prompt
             /\ itemRows'[i].status = IF \E j \in DOMAIN remote.told : remote.told[j].id = itemRows[i].id /\ remote.told[j].kind = "image"
                                      THEN "success" ELSE "failed"
             /\ itemRows'[i].status = "success" =>
                  itemRows'[i].file = OutputFilename(itemRows'[i].id) /\ itemRows'[i].file \in DOMAIN disk.images
  BY <1>1, <1>2, <1>3, VerdictTold
<1>7. itemRows' \in Seq(ItemRows) BY <1>1, <1>5, <1>6, IsASeq
<1>8. SameItems(itemRows') BY <1>5, <1>6 DEF SameItems
<1>9. BudgetTypes' BY <1>1, <1>2, FileBudgetSpent
<1>10. CASE batch.status = "cancelled"
  <2>1. batch' = batch BY <1>1, <1>10
  <2>2. batch.status \notin Served \cup {"none"} /\ batch'.status \notin Charged BY <1>10, <2>1 DEF Served, Charged
  <2> QED BY <1>1, <1>4, <1>7, <1>8, <1>9, <2>1, <2>2, EndedKeeps DEF ContentInv
<1>11. CASE batch.status = "indexing"
  <2>1. PICK success, failed : success = CountRows(itemRows', "success") /\ failed = CountRows(itemRows', "failed") OBVIOUS
  <2>2. success \in Nat /\ failed \in Nat BY <1>7, <2>1, CountTyped
  <2>3. batch' = [batch EXCEPT !.status = "settling", !.success = success, !.failed = failed] BY <1>1, <1>11, <2>1
  <2>4. batch' \in BatchRows /\ batch'.status = "settling" /\ batch'.removing = batch.removing
        /\ batch'.success = success /\ batch'.failed = failed
    BY <1>4, <2>2, <2>3 DEF BatchRows, BatchStatus, Unfinished
  <2>5. NotIndexing \in IndexerRows /\ NotIndexing.pc = "idle" BY DEF NotIndexing, IndexerRows
  <2>6. BatchTypes'
    <3>1. DifferentIds(itemRows') BY <1>2, <1>8, SameDifferent DEF BatchTypes
    <3>2. DifferentIds(itemRows)' BY <3>1 DEF DifferentIds
    <3>3. itemRows # <<>> BY <1>2, <1>11 DEF BatchTypes
    <3>4. itemRows' # <<>> BY <1>4, <1>5, <3>3
    <3> QED BY <1>1, <1>2, <1>7, <2>4, <2>5, <3>2, <3>4 DEF BatchTypes
  <2>7. ToldOwn' /\ ImagesOwn' BY <1>1, <1>2, <1>8, OwnStays DEF IndexInv
  <2>8. IndexInv'
    <3>1. ObjectsTold' BY <1>1, <1>2, <1>11 DEF IndexInv, ObjectsTold, Served, Alone
    <3>2. EarlyClean' BY <2>4 DEF EarlyClean
    <3>3. FetchedInOrder' /\ IndexedSoFar' /\ IndexerThere' BY <1>1, <2>5 DEF FetchedInOrder, IndexedSoFar, IndexerThere
    <3>4. ResultTold' BY <1>1, <1>2 DEF IndexInv, ResultTold
    <3> QED BY <2>7, <3>1, <3>2, <3>3, <3>4 DEF IndexInv
  <2>9. RowsMatchAnswer' BY <2>1, <2>4, <1>1, <1>5, <1>6 DEF CountRows, RowsMatchAnswer
  <2>10. RowsFiled' BY <1>1, <1>3, <1>5, <1>6 DEF RowsFiled, OutputFilename
  <2>11. ~batch.removing /\ \A x \in Removers : removals[x] = "idle"
    BY <1>11 DEF ContentInv, RemovalsKnow, RemovalKnows, Served
  <2>12. RemovalsKnow' BY <1>1, <2>4, <2>11 DEF RemovalsKnow, RemovalKnows, DeletedIsGone, Served
  <2> QED BY <1>9, <2>6, <2>8, <2>9, <2>10, <2>12 DEF ContentInv
<1> QED BY <1>3, <1>10, <1>11

\* What a step keeps that only marks the job's row, moves the archive's names, or drops the indexer.
LEMMA MarkKeeps ==
  ASSUME ContentInv, batch' \in BatchRows, batch'.status = batch.status, batch'.success = batch.success,
         batch'.failed = batch.failed, batch'.removing = batch.removing, UNCHANGED <<itemRows, remote>>,
         indexer' \in {indexer, NotIndexing}, disk' \in DiskRows, disk'.there = disk.there,
         disk'.result = disk.result, disk'.fetched = disk.fetched, disk'.images = disk.images,
         removals' \in [Removers -> RemovalPlaces],
         \A x \in Removers : removals'[x] \in {removals[x], "idle"} \/ (removals'[x] = "remote" /\ batch.status \in Served)
  PROVE  BatchTypes' /\ IndexInv' /\ RowsMatchAnswer' /\ RowsFiled' /\ RemovalsKnow'
<1>1. BatchTypes /\ IndexInv BY DEF ContentInv
<1>2. NotIndexing \in IndexerRows /\ NotIndexing.pc = "idle" BY DEF NotIndexing, IndexerRows
<1>3. BatchTypes' BY <1>1, <1>2 DEF BatchTypes, DifferentIds
<1>4. ToldOwn' /\ ImagesOwn' /\ (\A id : Expects(id)' <=> Expects(id)) BY <1>1, OwnStays DEF SameItems, IndexInv
<1>5. ObjectsTold' /\ EarlyClean' /\ ResultTold' /\ IndexerThere'
  BY <1>1, <1>2 DEF IndexInv, ObjectsTold, Alone, EarlyClean, ResultTold, IndexerThere
<1>6. FetchedInOrder' BY <1>2, <1>1 DEF IndexInv, FetchedInOrder, Alone, FirstLines
<1>7. IndexedSoFar' BY <1>2, <1>1, <1>4 DEF IndexInv, IndexedSoFar, Matches, FileOf, OutputFilename
<1>8. RowsMatchAnswer' BY DEF ContentInv, RowsMatchAnswer, CountRows
<1>9. RowsFiled' BY DEF ContentInv, RowsFiled, OutputFilename
<1>10. RemovalsKnow'
  <2>1. ASSUME NEW x \in Removers PROVE RemovalKnows(x)' BY DEF ContentInv, RemovalsKnow, RemovalKnows
  <2> QED BY <2>1 DEF ContentInv, RemovalsKnow, DeletedIsGone
<1> QED BY <1>3, <1>4, <1>5, <1>6, <1>7, <1>8, <1>9, <1>10 DEF IndexInv

\* What a step keeps that serves a charged job's outputs, or removes them.
LEMMA ServedKeeps ==
  ASSUME ContentInv, batch.status \in Charged, indexer.pc = "idle", batch' \in BatchRows, batch'.status \in Served,
         batch'.success = batch.success, batch'.failed = batch.failed, UNCHANGED <<itemRows, indexer>>,
         remote' \in RemoteRows, remote'.told = remote.told, disk' \in DiskRows, disk'.result \subseteq disk.result,
         DOMAIN disk'.images \subseteq DOMAIN disk.images, \A f \in DOMAIN disk'.images : disk'.images[f] = disk.images[f],
         removals' \in [Removers -> RemovalPlaces]
  PROVE  BatchTypes' /\ IndexInv' /\ RowsMatchAnswer'
<1>1. BatchTypes /\ IndexInv /\ RowsMatchAnswer BY DEF ContentInv
<1>2. itemRows # <<>> BY <1>1 DEF BatchTypes, Charged, Served
<1>3. BatchTypes' BY <1>1, <1>2 DEF BatchTypes, DifferentIds
<1>4. ToldOwn' /\ ImagesOwn' BY <1>1, OwnStays DEF SameItems, IndexInv
<1>5. ObjectsTold' /\ EarlyClean' BY DEF ObjectsTold, EarlyClean, Served
<1>6. FetchedInOrder' /\ IndexedSoFar' /\ IndexerThere' BY DEF FetchedInOrder, IndexedSoFar, IndexerThere
<1>7. ResultTold' BY <1>1 DEF IndexInv, ResultTold
<1>8. RowsMatchAnswer' BY <1>1 DEF RowsMatchAnswer, CountRows, Charged, Served
<1> QED BY <1>3, <1>4, <1>5, <1>6, <1>7, <1>8 DEF IndexInv

LEMMA SettleKeeps == ASSUME ContentInv, SettleBatch PROVE ContentInv'
<1>1. /\ indexer.pc = "idle" /\ batch.status = "settling" /\ batch' = [batch EXCEPT !.status = "completed"]
      /\ UNCHANGED <<itemRows, remote, disk, indexer, removals, fileBudget>>
  BY DEF SettleBatch
<1>2. batch \in BatchRows /\ remote \in RemoteRows /\ disk \in DiskRows /\ removals \in [Removers -> RemovalPlaces]
  BY DEF ContentInv, BatchTypes
<1>3. batch' \in BatchRows /\ batch'.status = "completed" /\ batch'.success = batch.success /\ batch'.failed = batch.failed
      /\ batch'.removing = batch.removing
  BY <1>1, <1>2 DEF BatchRows, BatchStatus
<1>4. batch.status \in Charged /\ batch'.status \in Served /\ batch.status \notin Served BY <1>1, <1>3 DEF Charged, Served
<1>5. BatchTypes' /\ IndexInv' /\ RowsMatchAnswer' BY <1>1, <1>2, <1>3, <1>4, ServedKeeps
<1>6. RowsFiled' BY <1>1, <1>3, <1>4 DEF ContentInv, RowsFiled, OutputFilename
<1>7. ~batch.removing /\ \A x \in Removers : removals[x] = "idle" BY <1>4 DEF ContentInv, RemovalsKnow, RemovalKnows
<1>8. RemovalsKnow' BY <1>1, <1>3, <1>7 DEF RemovalsKnow, RemovalKnows, DeletedIsGone
<1>9. BudgetTypes' BY <1>1, FileBudgetSpent DEF ContentInv
<1> QED BY <1>5, <1>6, <1>8, <1>9 DEF ContentInv

LEMMA HideKeeps == ASSUME ContentInv, HideRecord PROVE ContentInv'
BY FileBudgetSpent, MarkKeeps DEF HideRecord, ContentInv, BatchTypes, BatchRows, FileCounters

LEMMA ExpireKeeps == ASSUME ContentInv, OutputsExpire PROVE ContentInv'
BY FileBudgetSpent, MarkKeeps DEF OutputsExpire, ContentInv, BatchTypes, BatchRows, FileCounters

LEMMA RestartKeeps == ASSUME ContentInv, FilesRestart PROVE ContentInv'
BY FileBudgetSpent, MarkKeeps DEF FilesRestart, ContentInv, BatchTypes, RemovalPlaces, FileCounters

\* A removal works on a job whose outputs are served, and which is not indexed any more.
LEMMA RemovalTurn ==
  ASSUME ContentInv, NEW x \in Removers, NEW pc \in RemovalPlaces, Turn(x, pc)
  PROVE  /\ removals' \in [Removers -> RemovalPlaces] /\ removals'[x] = pc
         /\ \A y \in Removers : y # x => removals'[y] = removals[y]
         /\ removals[x] # "idle" => batch.status \in Served /\ indexer.pc = "idle"
<1>1. removals \in [Removers -> RemovalPlaces] BY DEF ContentInv, BatchTypes
<1>2. removals' = [removals EXCEPT ![x] = pc] BY DEF Turn
<1>3. removals[x] # "idle" => batch.status \in Served BY DEF ContentInv, RemovalsKnow, RemovalKnows
<1>4. batch.status \in Served => indexer.pc = "idle" BY DEF ContentInv, IndexInv, IndexerThere, Served
<1> QED BY <1>1, <1>2, <1>3, <1>4

LEMMA RemovalStartKeeps == ASSUME ContentInv, NEW x \in Removers, RemovalStart(x) PROVE ContentInv'
BY FileBudgetSpent, RemovalTurn, MarkKeeps DEF RemovalStart, ContentInv, BatchTypes, RemovalPlaces, Served, FileCounters

LEMMA RemoveRemoteKeeps == ASSUME ContentInv, NEW x \in Removers, RemoveRemote(x) PROVE ContentInv'
<1>1. removals[x] = "remote" /\ UNCHANGED <<batch, itemRows, disk, indexer>> BY DEF RemoveRemote
<1>2. PICK n \in 0 .. Len(remote.objects) :
        /\ remote' = [remote EXCEPT !.objects = SubSeq(@, n + 1, Len(@))]
        /\ IfFault(n < Len(remote.objects))
        /\ Turn(x, IF n = Len(remote.objects) THEN "files" ELSE "idle")
  BY DEF RemoveRemote
<1>3. batch \in BatchRows /\ disk \in DiskRows /\ remote \in RemoteRows BY DEF ContentInv, BatchTypes
<1>4. remote.objects \in Seq(Seq(LineRows)) /\ remote.told \in Seq(LineRows) /\ Len(remote.objects) \in Nat
  BY <1>3 DEF RemoteRows
<1>5. PICK left : left = SubSeq(remote.objects, n + 1, Len(remote.objects)) OBVIOUS
<1>6. left \in Seq(Seq(LineRows)) /\ (n = Len(remote.objects) => left = <<>>) /\ (remote.objects = <<>> => left = <<>>)
  <2>1. \A i \in n + 1 .. Len(remote.objects) : remote.objects[i] \in Seq(LineRows) BY <1>4
  <2>2. left \in Seq(Seq(LineRows)) /\ Len(left) = (IF n + 1 <= Len(remote.objects) THEN Len(remote.objects) - (n + 1) + 1 ELSE 0)
    BY <1>4, <1>5, SubSeqProperties
  <2>3. n = Len(remote.objects) => Len(left) = 0 BY <1>4, <2>2
  <2>4. remote.objects = <<>> => n = Len(remote.objects) BY <1>4
  <2> QED BY <2>2, <2>3, <2>4
<1>7. remote' = [remote EXCEPT !.objects = left] BY <1>2, <1>5
<1>8. remote' \in RemoteRows /\ remote'.told = remote.told /\ remote'.objects = left BY <1>3, <1>6, <1>7 DEF RemoteRows
<1>9. PICK pc : pc = IF n = Len(remote.objects) THEN "files" ELSE "idle" OBVIOUS
<1>10. pc \in RemovalPlaces /\ Turn(x, pc) BY <1>2, <1>9 DEF RemovalPlaces
<1>11. /\ removals' \in [Removers -> RemovalPlaces] /\ removals'[x] = pc
       /\ \A y \in Removers : y # x => removals'[y] = removals[y]
       /\ batch.status \in Served /\ indexer.pc = "idle"
  BY <1>1, <1>10, RemovalTurn
<1>12. BatchTypes' /\ IndexInv' /\ RowsMatchAnswer' BY <1>1, <1>3, <1>8, <1>11, ServedKeeps DEF Charged
<1>13. RowsFiled' BY <1>1 DEF ContentInv, RowsFiled, OutputFilename
<1>14. RemovalsKnow'
  <2>1. ASSUME NEW y \in Removers PROVE RemovalKnows(y)'
    BY <1>1, <1>6, <1>8, <1>9, <1>11 DEF ContentInv, RemovalsKnow, RemovalKnows
  <2> QED BY <1>1, <1>6, <1>8, <2>1 DEF ContentInv, RemovalsKnow, DeletedIsGone
<1>15. BudgetTypes' BY <1>2, FileBudgetSpent DEF ContentInv
<1> QED BY <1>12, <1>13, <1>14, <1>15 DEF ContentInv

LEMMA RemoveFilesKeeps == ASSUME ContentInv, NEW x \in Removers, RemoveFiles(x) PROVE ContentInv'
<1>1. /\ removals[x] = "files" /\ disk' = [EmptyDisk EXCEPT !.there = disk.there]
      /\ batch' = [batch EXCEPT !.removing = TRUE] /\ Turn(x, "directory")
      /\ UNCHANGED <<itemRows, remote, indexer, fileBudget>>
  BY DEF RemoveFiles
<1>2. batch \in BatchRows /\ disk \in DiskRows /\ remote \in RemoteRows BY DEF ContentInv, BatchTypes
<1>3. batch' \in BatchRows /\ batch'.status = batch.status /\ batch'.success = batch.success
      /\ batch'.failed = batch.failed /\ batch'.removing
  BY <1>1, <1>2 DEF BatchRows
<1>4. disk' \in DiskRows /\ disk'.there = disk.there /\ disk'.result = {} /\ DOMAIN disk'.images = {}
  <2>1. PICK empty : empty = [f \in {} |-> 0] OBVIOUS
  <2>2. empty \in [{} -> Prompts] /\ DOMAIN empty = {} BY <2>1
  <2>3. empty \in ImageMaps BY <2>2 DEF ImageMaps
  <2>4. disk' = [there |-> disk.there, result |-> {}, fetched |-> <<>>, images |-> empty, part |-> 0, zip |-> 0]
    BY <1>1, <2>1 DEF EmptyDisk
  <2>5. disk.there \in BOOLEAN BY <1>2 DEF DiskRows
  <2> QED BY <2>2, <2>3, <2>4, <2>5 DEF DiskRows
<1>5. /\ removals' \in [Removers -> RemovalPlaces] /\ removals'[x] = "directory"
      /\ \A y \in Removers : y # x => removals'[y] = removals[y]
      /\ batch.status \in Served /\ indexer.pc = "idle"
  BY <1>1, RemovalTurn DEF RemovalPlaces
<1>6. BatchTypes' /\ IndexInv' /\ RowsMatchAnswer' BY <1>1, <1>2, <1>3, <1>4, <1>5, ServedKeeps DEF Charged
<1>7. RowsFiled' BY <1>1, <1>3 DEF ContentInv, RowsFiled, OutputFilename
<1>8. RemovalsKnow'
  <2>1. ASSUME NEW y \in Removers PROVE RemovalKnows(y)' BY <1>1, <1>3, <1>5, <1>4 DEF ContentInv, RemovalsKnow, RemovalKnows
  <2> QED BY <1>1, <1>3, <1>4, <1>5, <2>1 DEF ContentInv, RemovalsKnow, DeletedIsGone
<1>9. BudgetTypes' BY <1>1, FileBudgetSpent DEF ContentInv
<1> QED BY <1>6, <1>7, <1>8, <1>9 DEF ContentInv

LEMMA RemoveDirectoryKeeps == ASSUME ContentInv, NEW x \in Removers, RemoveDirectory(x) PROVE ContentInv'
<1>1. /\ removals[x] = "directory" /\ UNCHANGED <<batch, itemRows, remote, indexer, fileBudget>>
      /\ \/ Turn(x, "idle") /\ UNCHANGED disk
         \/ Turn(x, "mark") /\ disk' = [disk EXCEPT !.there = FALSE]
  BY DEF RemoveDirectory
<1>2. batch \in BatchRows /\ disk \in DiskRows /\ remote \in RemoteRows BY DEF ContentInv, BatchTypes
<1>3. PICK pc \in {"idle", "mark"} :
        Turn(x, pc) /\ (pc = "idle" => disk' = disk) /\ (pc = "mark" => disk' = [disk EXCEPT !.there = FALSE])
  BY <1>1
<1>4. /\ disk' \in DiskRows /\ disk'.there \in {disk.there, FALSE} /\ disk'.result = disk.result /\ disk'.images = disk.images
      /\ pc = "mark" => ~disk'.there
  BY <1>2, <1>3 DEF DiskRows
<1>5. /\ removals' \in [Removers -> RemovalPlaces] /\ removals'[x] = pc
      /\ \A y \in Removers : y # x => removals'[y] = removals[y]
      /\ batch.status \in Served /\ indexer.pc = "idle"
  BY <1>1, <1>3, RemovalTurn DEF RemovalPlaces
<1>6. BatchTypes' /\ IndexInv' /\ RowsMatchAnswer' BY <1>1, <1>2, <1>4, <1>5, ServedKeeps DEF Charged
<1>7. batch.removing BY <1>1 DEF ContentInv, RemovalsKnow, RemovalKnows
<1>8. RowsFiled' BY <1>1, <1>7 DEF ContentInv, RowsFiled, OutputFilename
<1>9. RemovalsKnow'
  <2>1. ASSUME NEW y \in Removers PROVE RemovalKnows(y)' BY <1>1, <1>4, <1>5, <1>7 DEF ContentInv, RemovalsKnow, RemovalKnows
  <2> QED BY <1>1, <1>4, <1>5, <2>1 DEF ContentInv, RemovalsKnow, DeletedIsGone
<1>10. BudgetTypes' BY <1>1, FileBudgetSpent DEF ContentInv
<1> QED BY <1>6, <1>8, <1>9, <1>10 DEF ContentInv

LEMMA MarkRemovedKeeps == ASSUME ContentInv, NEW x \in Removers, MarkRemoved(x) PROVE ContentInv'
<1>1. /\ removals[x] = "mark" /\ Turn(x, "idle") /\ UNCHANGED <<itemRows, remote, disk, indexer, fileBudget>>
      /\ batch' = IF batch.status = "completed" THEN [batch EXCEPT !.status = "output_deleted"] ELSE batch
  BY DEF MarkRemoved
<1>2. batch \in BatchRows /\ disk \in DiskRows /\ remote \in RemoteRows BY DEF ContentInv, BatchTypes
<1>3. /\ removals' \in [Removers -> RemovalPlaces] /\ removals'[x] = "idle"
      /\ \A y \in Removers : y # x => removals'[y] = removals[y]
      /\ batch.status \in Served /\ indexer.pc = "idle"
  BY <1>1, RemovalTurn DEF RemovalPlaces
<1>4. batch' \in BatchRows /\ batch'.status = "output_deleted" /\ batch'.success = batch.success
      /\ batch'.failed = batch.failed /\ batch'.removing = batch.removing
  BY <1>1, <1>2, <1>3 DEF BatchRows, BatchStatus, Served
<1>5. BatchTypes' /\ IndexInv' /\ RowsMatchAnswer' BY <1>1, <1>2, <1>3, <1>4, ServedKeeps DEF Charged, Served
<1>6. ~disk.there /\ remote.objects = <<>> /\ batch.removing BY <1>1 DEF ContentInv, RemovalsKnow, RemovalKnows
<1>7. RowsFiled' BY <1>1, <1>3, <1>4 DEF ContentInv, RowsFiled, OutputFilename, Charged
<1>8. RemovalsKnow'
  <2>1. ASSUME NEW y \in Removers PROVE RemovalKnows(y)'
    BY <1>3, <1>1, <1>4 DEF ContentInv, RemovalsKnow, RemovalKnows, Served
  <2> QED BY <1>1, <1>4, <1>6, <2>1 DEF RemovalsKnow, DeletedIsGone, Served
<1>9. BudgetTypes' BY <1>1, FileBudgetSpent DEF ContentInv
<1> QED BY <1>5, <1>7, <1>8, <1>9 DEF ContentInv

-----------------------------------------------------------------------------
(*                     The downloads of a batch's images                   *)

DownloadPlaces == {"idle", "row", "items", "create", "write", "rename", "stat", "open", "send", "done"}
DownloadAnswers == {"none", "sent", "cut", "gone", "failed", "refused", "left"}
\* A file has finitely many pieces.
ArchiveFiles == {pieces \in SUBSET Nat : \E n \in Nat : \A k \in pieces : k <= n}
DownloadRows ==
  [pc : DownloadPlaces, want : Ids \cup {Archive}, entries : Seq(FileNames), at : Nat, inode : Nat, length : Nat,
   got : Seq(BOOLEAN \cup Prompts), left : BOOLEAN, answer : DownloadAnswers, crossed : BOOLEAN]
DownloadTypes == downloads \in [Downloaders -> DownloadRows] /\ archives \in Seq(ArchiveFiles)

Dots == \E i \in DOMAIN itemRows : itemRows[i].id[1] \in Dotted
Excused(d) == batch.removing \/ d.crossed \/ Dots
\* What a handler has read and given is the job's.
DownloadKnows(d) ==
  /\ d.pc # "idle" => batch.status \in Served
  /\ d.pc # "done" => d.answer = "none"
  /\ d.pc \notin {"send", "done"} => d.got = <<>>
  /\ d.pc = "row" => d.want # Archive
  /\ d.pc \in {"items", "create", "write", "rename", "send"} => d.want = Archive
  /\ d.pc \in {"create", "write", "rename", "stat", "open", "send"} =>
       IF d.want = Archive THEN d.entries = SucceededFiles
       ELSE \E i \in DOMAIN itemRows :
              itemRows[i].id = d.want /\ itemRows[i].status = "success" /\ d.entries = <<itemRows[i].file>>
  /\ d.answer = "sent" =>
       IF d.want = Archive THEN d.crossed \/ d.got = [k \in Pieces(d) |-> TRUE]
       ELSE \E i \in DOMAIN itemRows : itemRows[i].id = d.want /\ d.got = <<itemRows[i].prompt>>
  /\ d.answer \in {"failed", "gone", "cut"} => Excused(d)
DownloadsKnow == \A q \in Downloaders : DownloadKnows(downloads[q])

Whole == 1 .. Len(SucceededFiles) + 1
\* An archive that no other build has disturbed is built, waited for or sent.
Late(q) ==
  downloads[q].want = Archive /\ downloads[q].pc \in {"write", "rename", "stat", "open", "send"} /\ ~downloads[q].crossed
Undisturbed == \E q \in Downloaders : Late(q)
Sends(q) == downloads[q].pc = "send"
\* What the archive's two names refer to.
Names ==
  /\ disk.part \in 0 .. Len(archives) /\ disk.zip \in 0 .. Len(archives)
  /\ disk.part # 0 => disk.part # disk.zip
  /\ \A q \in Building : downloads[q].inode \in 1 .. Len(archives)
  /\ \A q \in Downloaders : Sends(q) => downloads[q].inode \in 1 .. Len(archives) /\ downloads[q].inode # disk.part
\* A build that is alone has written the pieces up to its place, in a file that nobody else reads.
ProperBuild(p) ==
  /\ \A x \in Building : x = p
  /\ disk.part = downloads[p].inode \/ (disk.part = 0 /\ batch.removing)
  /\ disk.zip # downloads[p].inode
  /\ \A q \in Downloaders : Sends(q) => downloads[q].inode # downloads[p].inode
  /\ IF downloads[p].pc = "rename" THEN downloads[p].at = Len(SucceededFiles) + 2
     ELSE downloads[p].at \in 1 .. Len(SucceededFiles) + 1
  /\ archives[downloads[p].inode] = 1 .. downloads[p].at - 1
WholeRead(q) ==
  /\ downloads[q].pc \in {"stat", "open"} =>
       IF disk.zip = 0 THEN batch.removing ELSE archives[disk.zip] = Whole
  /\ downloads[q].pc \in {"open", "send"} => downloads[q].length = Len(SucceededFiles) + 1
  /\ downloads[q].pc = "send" =>
       /\ archives[downloads[q].inode] = Whole
       /\ Len(downloads[q].got) <= downloads[q].length
       /\ downloads[q].got = [k \in 1 .. Len(downloads[q].got) |-> TRUE]
ArchivesWhole ==
  /\ Undisturbed => \A p \in Building : ProperBuild(p)
  /\ \A q \in Downloaders : Late(q) => WholeRead(q)

DownloadInv == DownloadTypes /\ DownloadsKnow /\ Names /\ ArchivesWhole
FileInv == ContentInv /\ DownloadInv

LEMMA MaxThere == ASSUME NEW pieces \in ArchiveFiles, pieces # {} PROVE Max(pieces) \in pieces
<1> DEFINE Above == {n \in Nat : \A k \in pieces : k <= n}
<1>1. Above \in SUBSET Nat /\ Above # {} BY DEF ArchiveFiles
<1>2. PICK m \in Above : \A n \in Above : m <= n BY <1>1, LeastNumber
<1>3. m \in Nat /\ \A k \in pieces : k \in Nat /\ k <= m BY DEF ArchiveFiles
<1>4. m \in pieces BY <1>3, <1>2
<1>5. \E x \in pieces : \A y \in pieces : x >= y BY <1>3, <1>4
<1> QED BY <1>5 DEF Max

LEMMA LengthTyped == ASSUME NEW pieces \in ArchiveFiles PROVE FileLength(pieces) \in Nat
BY MaxThere DEF FileLength, ArchiveFiles

LEMMA PieceAdded ==
  /\ {} \in ArchiveFiles
  /\ \A pieces \in ArchiveFiles, k \in Nat : pieces \cup {k} \in ArchiveFiles
<1>1. {} \in ArchiveFiles BY DEF ArchiveFiles
<1>2. ASSUME NEW pieces \in ArchiveFiles, NEW k \in Nat PROVE pieces \cup {k} \in ArchiveFiles
  <2>1. PICK n \in Nat : \A x \in pieces : x <= n BY DEF ArchiveFiles
  <2>2. \A x \in pieces \cup {k} : x \in Nat BY DEF ArchiveFiles
  <2>3. n + k \in Nat /\ \A x \in pieces \cup {k} : x <= n + k BY <2>2, <2>1
  <2> QED BY <2>2, <2>3 DEF ArchiveFiles
<1> QED BY <1>1, <1>2

\* The rows do not change under a download.
LEMMA FilesStay ==
  ASSUME UNCHANGED itemRows
  PROVE  SucceededFiles' = SucceededFiles /\ Whole' = Whole /\ (Dots' <=> Dots)
BY DEF SucceededFiles, Whole, Dots

LEMMA SucceededTyped == ASSUME ContentInv PROVE SucceededFiles \in Seq(FileNames) /\ Len(SucceededFiles) \in Nat
<1>1. itemRows \in Seq(ItemRows) /\ DOMAIN itemRows = 1 .. Len(itemRows) BY DEF ContentInv, BatchTypes
<1>4. \A i \in DOMAIN itemRows : itemRows[i] \in ItemRows BY <1>1
<1>2. \A i \in DOMAIN itemRows : itemRows[i].file \in FileNames BY <1>4 DEF ItemRows
<1>3. SucceededFiles \in Seq(FileNames) BY <1>1, <1>2, SucceededIn
<1> QED BY <1>3

\* What a handler knows stays true while the job is served.
LEMMA KnowsOn ==
  ASSUME NEW d, DownloadKnows(d), UNCHANGED itemRows, batch.status \in Served => batch'.status \in Served,
         batch.removing => batch'.removing
  PROVE  DownloadKnows(d)'
BY FilesStay DEF DownloadKnows, Excused, Pieces

\* Before a job is served there are no downloads.
LEMMA IdleKeeps ==
  ASSUME DownloadInv, batch.status \notin Served, UNCHANGED <<downloads, archives>>,
         disk'.part = disk.part, disk'.zip = disk.zip
  PROVE  DownloadInv'
<1>1. \A q \in Downloaders : downloads[q].pc = "idle" /\ downloads[q].answer = "none" /\ downloads[q].got = <<>>
  BY DEF DownloadInv, DownloadsKnow, DownloadKnows
<1>2. DownloadsKnow' BY <1>1 DEF DownloadsKnow, DownloadKnows
<1>3. \A q \in Downloaders : ~Sends(q)' /\ ~Late(q)' BY <1>1 DEF Sends, Late
<1>4. \A q \in Downloaders : q \notin Building' BY <1>1 DEF Building
<1>5. Building' \subseteq Downloaders BY DEF Building
<1>6. Names' BY <1>3, <1>4, <1>5 DEF DownloadInv, Names
<1>7. ArchivesWhole' BY <1>3 DEF ArchivesWhole, Undisturbed
<1> QED BY <1>2, <1>6, <1>7 DEF DownloadInv, DownloadTypes

\* A job that stays served, or whose outputs are being removed, disturbs no download.
LEMMA StillKeeps ==
  ASSUME DownloadInv, UNCHANGED <<downloads, archives, itemRows>>,
         batch.status \in Served => batch'.status \in Served, batch.removing => batch'.removing,
         \/ disk'.part = disk.part /\ disk'.zip = disk.zip
         \/ disk'.part = 0 /\ disk'.zip = 0 /\ batch'.removing
  PROVE  DownloadInv'
<1>1. DownloadsKnow' BY KnowsOn DEF DownloadInv, DownloadsKnow
<1>2. Building' = Building /\ (\A q \in Downloaders : (Sends(q)' <=> Sends(q)) /\ (Late(q)' <=> Late(q)))
  BY DEF Building, Sends, Late
<1>3. Building \subseteq Downloaders BY DEF Building
<1>4. archives \in Seq(ArchiveFiles) /\ Len(archives) \in Nat BY DEF DownloadInv, DownloadTypes
<1>5. Names' BY <1>2, <1>3, <1>4 DEF DownloadInv, Names
<1>6. ASSUME NEW p \in Building, ProperBuild(p) PROVE ProperBuild(p)'
  BY <1>6, <1>4, <1>2, FilesStay DEF DownloadInv, Names, ProperBuild
<1>7. \A q \in Downloaders : WholeRead(q) => WholeRead(q)' BY FilesStay DEF WholeRead
<1>8. ArchivesWhole' BY <1>2, <1>6, <1>7 DEF DownloadInv, ArchivesWhole, Undisturbed
<1> QED BY <1>1, <1>5, <1>8 DEF DownloadInv, DownloadTypes

LEMMA NoDownloadTyped ==
  /\ NoDownload \in DownloadRows
  /\ NoDownload.pc = "idle" /\ NoDownload.answer = "none" /\ NoDownload.got = <<>> /\ NoDownload.inode = 0
BY DEF NoDownload, DownloadRows, DownloadPlaces, DownloadAnswers

\* At the start, and after a restart, there are no handlers.
LEMMA ResetKeeps ==
  ASSUME downloads' = [q \in Downloaders |-> NoDownload], archives' \in Seq(ArchiveFiles),
         disk'.part \in 0 .. Len(archives'), disk'.zip \in 0 .. Len(archives'), disk'.part # 0 => disk'.part # disk'.zip
  PROVE  DownloadInv'
<1>1. downloads' \in [Downloaders -> DownloadRows] BY NoDownloadTyped
<1>2. \A q \in Downloaders : downloads'[q].pc = "idle" /\ downloads'[q].answer = "none" /\ downloads'[q].got = <<>>
  BY NoDownloadTyped
<1>3. DownloadsKnow' BY <1>2 DEF DownloadsKnow, DownloadKnows
<1>4. (\A q \in Downloaders : ~Sends(q)' /\ ~Late(q)') /\ Building' = {} BY <1>2 DEF Sends, Late, Building
<1>5. Names' BY <1>4 DEF Names
<1>6. ArchivesWhole' BY <1>4 DEF ArchivesWhole, Undisturbed
<1> QED BY <1>1, <1>3, <1>5, <1>6 DEF DownloadInv, DownloadTypes

LEMMA DownloadInitInv == FileInit => DownloadInv
<1> SUFFICES ASSUME FileInit PROVE DownloadInv OBVIOUS
<1>1. downloads = [q \in Downloaders |-> NoDownload] /\ archives = <<>> /\ disk.part = 0 /\ disk.zip = 0
  BY DEF FileInit, EmptyDisk
<1>2. downloads \in [Downloaders -> DownloadRows] /\ archives \in Seq(ArchiveFiles) /\ Len(archives) = 0
  BY <1>1, NoDownloadTyped
<1>3. \A q \in Downloaders : downloads[q].pc = "idle" /\ downloads[q].answer = "none" /\ downloads[q].got = <<>>
  BY <1>1, NoDownloadTyped
<1>4. DownloadsKnow BY <1>3 DEF DownloadsKnow, DownloadKnows
<1>5. (\A q \in Downloaders : ~Sends(q) /\ ~Late(q)) /\ Building = {} BY <1>3 DEF Sends, Late, Building
<1>6. Names BY <1>1, <1>2, <1>5 DEF Names
<1>7. ArchivesWhole BY <1>5 DEF ArchivesWhole, Undisturbed
<1> QED BY <1>2, <1>4, <1>6, <1>7 DEF DownloadInv, DownloadTypes

LEMMA SetTurn ==
  ASSUME DownloadInv, NEW q \in Downloaders, NEW e \in DownloadRows, Set(q, e)
  PROVE  /\ downloads' \in [Downloaders -> DownloadRows] /\ downloads'[q] = e
         /\ \A p \in Downloaders : p # q => downloads'[p] = downloads[p]
BY DEF Set, DownloadInv, DownloadTypes

LEMMA EndedTyped ==
  ASSUME NEW d \in DownloadRows, NEW answer \in DownloadAnswers, NEW e, e = Ended(d, answer)
  PROVE  /\ e \in DownloadRows /\ e.pc = "done" /\ e.want = d.want /\ e.got = d.got /\ e.answer = answer
         /\ e.crossed = d.crossed /\ e.entries = d.entries
BY DEF Ended, NoDownload, DownloadRows, DownloadPlaces

\* What a download's step keeps of the job.
LEMMA ContentStays ==
  ASSUME ContentInv, BudgetTypes', batch' \in {batch, [batch EXCEPT !.downloaded = TRUE]},
         UNCHANGED <<itemRows, remote, indexer, removals>>,
         NEW part \in Nat, NEW zip \in Nat, disk' \in {disk, [disk EXCEPT !.part = part, !.zip = zip]}
  PROVE  ContentInv' /\ batch'.status = batch.status /\ batch'.removing = batch.removing
BY MarkKeeps DEF ContentInv, BatchTypes, BatchRows, DiskRows

LEMMA TurnKnows ==
  ASSUME DownloadInv, NEW q \in Downloaders, NEW e \in DownloadRows, Set(q, e), DownloadKnows(e), UNCHANGED itemRows,
         batch'.status = batch.status, batch'.removing = batch.removing
  PROVE  DownloadsKnow'
<1>1. downloads'[q] = e /\ \A p \in Downloaders : p # q => downloads'[p] = downloads[p] BY SetTurn
<1>2. \A p \in Downloaders : DownloadKnows(downloads[p]) BY DEF DownloadInv, DownloadsKnow
<1>3. \A d : DownloadKnows(d) => DownloadKnows(d)' BY KnowsOn
<1> SUFFICES ASSUME NEW p \in Downloaders PROVE DownloadKnows(downloads[p])' BY DEF DownloadsKnow
<1>4. PICK d : d = downloads'[p] OBVIOUS
<1>5. DownloadKnows(d)' BY <1>1, <1>2, <1>3, <1>4
<1> QED BY <1>4, <1>5 DEF DownloadKnows, Excused, Pieces

\* A handler that is not at the archive's files, or leaves them, disturbs nobody.
LEMMA AsideKeeps ==
  ASSUME DownloadInv, NEW q \in Downloaders, NEW e \in DownloadRows, Set(q, e), DownloadKnows(e), UNCHANGED <<itemRows, archives>>,
         batch'.status = batch.status, batch'.removing = batch.removing, disk'.part = disk.part, disk'.zip = disk.zip,
         e.pc \notin {"write", "rename", "send"}, e.want = Archive => e.pc \notin {"stat", "open"}
  PROVE  DownloadInv'
<1>1. /\ downloads' \in [Downloaders -> DownloadRows] /\ downloads'[q] = e
      /\ \A p \in Downloaders : p # q => downloads'[p] = downloads[p]
  BY SetTurn
<1>2. DownloadsKnow' BY TurnKnows
<1>3. /\ Building' \subseteq Building /\ Building \subseteq Downloaders /\ q \notin Building'
      /\ \A p \in Downloaders : (Sends(p)' => Sends(p) /\ p # q) /\ (Late(p)' => Late(p) /\ p # q)
  BY <1>1 DEF Building, Sends, Late
<1>4. Names' BY <1>1, <1>3 DEF DownloadInv, Names
<1>5. ASSUME NEW p \in Building', ProperBuild(p) PROVE ProperBuild(p)' BY <1>1, <1>3, <1>5, FilesStay DEF ProperBuild
<1>6. ASSUME NEW p \in Downloaders, p # q, WholeRead(p) PROVE WholeRead(p)'
  BY <1>1, <1>6, FilesStay DEF WholeRead
<1>7. ArchivesWhole' BY <1>3, <1>5, <1>6 DEF DownloadInv, ArchivesWhole, Undisturbed
<1> QED BY <1>1, <1>2, <1>4, <1>7 DEF DownloadInv, DownloadTypes

\* A handler that has failed is excused.
LEMMA FailedKnows ==
  ASSUME NEW d \in DownloadRows, DownloadKnows(d), d.pc # "idle", NEW answer \in {"failed", "gone", "cut"}, Excused(d), NEW e,
         e = Ended(d, answer)
  PROVE  e \in DownloadRows /\ DownloadKnows(e) /\ e.pc = "done"
BY EndedTyped DEF DownloadAnswers, DownloadKnows, Excused

LEMMA LeftKnows ==
  ASSUME NEW d \in DownloadRows, DownloadKnows(d), d.pc # "idle", NEW answer \in {"left", "refused"}, NEW e,
         e = Ended(d, answer)
  PROVE  e \in DownloadRows /\ DownloadKnows(e) /\ e.pc = "done"
BY EndedTyped DEF DownloadAnswers, DownloadKnows

LEMMA DownloadStartKeeps == ASSUME FileInv, NEW q \in Downloaders, DownloadStart(q) PROVE FileInv'
<1>1. /\ Spend("downloads") /\ batch.status = "completed" /\ UNCHANGED <<batch, itemRows, remote, disk, archives, indexer, removals>>
  BY DEF DownloadStart
<1>2. PICK w \in {itemRows[i].id : i \in DOMAIN itemRows} \cup {Archive} :
        Set(q, [NoDownload EXCEPT !.pc = IF w = Archive THEN "items" ELSE "row", !.want = w])
  BY DEF DownloadStart
<1>3. w \in Ids \cup {Archive}
  <2>1. itemRows \in Seq(ItemRows) /\ DOMAIN itemRows = 1 .. Len(itemRows) BY DEF FileInv, ContentInv, BatchTypes
  <2>2. \A i \in DOMAIN itemRows : itemRows[i] \in ItemRows BY <2>1
  <2> QED BY <2>2 DEF ItemRows
<1>4. PICK pc : pc = IF w = Archive THEN "items" ELSE "row" OBVIOUS
<1>5. PICK e : e = [NoDownload EXCEPT !.pc = pc, !.want = w] OBVIOUS
<1>11. pc \in {"items", "row"} /\ Set(q, e) BY <1>2, <1>4, <1>5
<1>6. e \in DownloadRows /\ e.pc = pc /\ e.want = w /\ e.answer = "none" /\ e.got = <<>>
  BY <1>3, <1>5, <1>11, NoDownloadTyped DEF DownloadRows, DownloadPlaces
<1>7. DownloadKnows(e) BY <1>1, <1>4, <1>6, <1>11 DEF DownloadKnows, Served
<1>8. BudgetTypes' BY <1>1, FileBudgetSpent DEF FileInv, ContentInv, FileCounters
<1>9. ContentInv' BY <1>1, <1>8, ContentStays DEF FileInv
<1>10. DownloadInv' BY <1>1, <1>6, <1>7, <1>11, AsideKeeps DEF FileInv
<1> QED BY <1>9, <1>10 DEF FileInv

\* The file of an item that has succeeded is its own, and there, as long as nobody removes it.
LEMMA FileThere ==
  ASSUME ContentInv, batch.status \in Served, NEW i \in DOMAIN itemRows, itemRows[i].status = "success"
  PROVE  /\ itemRows[i].file \in FileNames /\ itemRows[i].file = OutputFilename(itemRows[i].id)
         /\ itemRows[i].file \in DOMAIN disk.images \/ batch.removing
         /\ itemRows[i].file \in DOMAIN disk.images => disk.images[itemRows[i].file] = itemRows[i].prompt
         /\ itemRows[i].prompt \in Prompts
         /\ Stored(itemRows[i].file) \/ Dots
<1>1. itemRows \in Seq(ItemRows) /\ DOMAIN itemRows = 1 .. Len(itemRows) BY DEF ContentInv, BatchTypes
<1>2. itemRows[i] \in ItemRows BY <1>1
<1>3. /\ itemRows[i].file \in FileNames /\ itemRows[i].prompt \in Prompts /\ itemRows[i].id \in Ids
      /\ itemRows[i].id[1] \in DOMAIN Safe
  BY <1>2 DEF ItemRows, Ids
<1>4. itemRows[i].file = OutputFilename(itemRows[i].id) /\ (itemRows[i].file \in DOMAIN disk.images \/ batch.removing)
  BY DEF ContentInv, RowsFiled, Charged
<1>5. itemRows[i].file \in DOMAIN disk.images => disk.images[itemRows[i].file] = itemRows[i].prompt
  BY <1>4 DEF ContentInv, IndexInv, ImagesOwn
<1>6. Stored(itemRows[i].file) \/ Dots BY <1>4, <1>3, FileAssumption DEF OutputFilename, Stored, Dots
<1> QED BY <1>3, <1>4, <1>5, <1>6

LEMMA DownloadRowKeeps == ASSUME FileInv, NEW q \in Downloaders, DownloadRow(q) PROVE FileInv'
<1>1. PICK d : d = downloads[q] OBVIOUS
<1>2. d.pc = "row" /\ UNCHANGED <<itemRows, remote, disk, archives, indexer, removals, fileBudget>> BY <1>1 DEF DownloadRow
<1>3. PICK i \in DOMAIN itemRows :
        /\ itemRows[i].id = d.want
        /\ CASE itemRows[i].status # "success" -> Set(q, Ended(d, "refused")) /\ UNCHANGED batch
             [] itemRows[i].status = "success" /\ ~Stored(itemRows[i].file) -> Set(q, Ended(d, "failed")) /\ UNCHANGED batch
             [] OTHER -> /\ batch' = [batch EXCEPT !.downloaded = TRUE]
                         /\ Set(q, [d EXCEPT !.pc = "stat", !.entries = <<itemRows[i].file>>])
  BY <1>1 DEF DownloadRow
<1>4. d \in DownloadRows /\ DownloadKnows(d) /\ ContentInv /\ DownloadInv
  BY <1>1 DEF FileInv, DownloadInv, DownloadTypes, DownloadsKnow
<1>5. batch.status \in Served /\ d.got = <<>> /\ d.answer = "none" /\ d.want # Archive BY <1>2, <1>4 DEF DownloadKnows
<1>6. BudgetTypes' BY <1>2, <1>4, FileBudgetSpent DEF ContentInv
<1>7. batch' \in {batch, [batch EXCEPT !.downloaded = TRUE]} BY <1>3
<1>8. ContentInv' /\ batch'.status = batch.status /\ batch'.removing = batch.removing BY <1>2, <1>4, <1>6, <1>7, ContentStays
<1>9. ASSUME NEW e \in DownloadRows, Set(q, e), DownloadKnows(e), e.pc \in {"done", "stat"}, e.want # Archive \/ e.pc = "done"
      PROVE  DownloadInv'
  BY <1>2, <1>4, <1>8, <1>9, AsideKeeps
<1>10. CASE itemRows[i].status # "success"
  <2>1. PICK e : e = Ended(d, "refused") OBVIOUS
  <2>2. Set(q, e) BY <1>3, <1>10, <2>1
  <2>3. e \in DownloadRows /\ DownloadKnows(e) /\ e.pc = "done" BY <1>2, <1>4, <2>1, LeftKnows
  <2> QED BY <1>8, <1>9, <2>2, <2>3 DEF FileInv
<1>11. CASE itemRows[i].status = "success" /\ ~Stored(itemRows[i].file)
  <2>1. PICK e : e = Ended(d, "failed") OBVIOUS
  <2>2. Set(q, e) BY <1>3, <1>11, <2>1
  <2>3. Excused(d) BY <1>4, <1>5, <1>11, FileThere DEF Excused
  <2>4. e \in DownloadRows /\ DownloadKnows(e) /\ e.pc = "done" BY <1>2, <1>4, <2>1, <2>3, FailedKnows
  <2> QED BY <1>8, <1>9, <2>2, <2>4 DEF FileInv
<1>12. CASE itemRows[i].status = "success" /\ Stored(itemRows[i].file)
  <2>1. PICK e : e = [d EXCEPT !.pc = "stat", !.entries = <<itemRows[i].file>>] OBVIOUS
  <2>2. Set(q, e) BY <1>3, <1>12, <2>1
  <2>3. itemRows[i].file \in FileNames BY <1>4, <1>5, <1>12, FileThere
  <2>4. <<itemRows[i].file>> \in Seq(FileNames) BY <2>3
  <2>5. /\ e \in DownloadRows /\ e.pc = "stat" /\ e.want = d.want /\ e.got = d.got /\ e.answer = d.answer
        /\ e.entries = <<itemRows[i].file>>
    BY <1>4, <2>1, <2>4 DEF DownloadRows, DownloadPlaces
  <2>6. DownloadKnows(e) BY <1>3, <1>5, <1>12, <2>5 DEF DownloadKnows
  <2> QED BY <1>5, <1>8, <1>9, <2>2, <2>5, <2>6 DEF FileInv
<1> QED BY <1>10, <1>11, <1>12

LEMMA DownloadItemsKeeps == ASSUME FileInv, NEW q \in Downloaders, DownloadItems(q) PROVE FileInv'
<1>1. PICK d : d = downloads[q] OBVIOUS
<1>2. PICK e : e = [d EXCEPT !.entries = SucceededFiles] OBVIOUS
<1>3. /\ d.pc = "items" /\ UNCHANGED <<batch, itemRows, remote, disk, archives, indexer, removals, fileBudget>>
      /\ IF \E i \in DOMAIN e.entries : ~Stored(e.entries[i]) THEN Set(q, Ended(e, "failed"))
         ELSE Set(q, [e EXCEPT !.pc = "create"])
  BY <1>1, <1>2 DEF DownloadItems
<1>4. d \in DownloadRows /\ DownloadKnows(d) /\ ContentInv /\ DownloadInv
  BY <1>1 DEF FileInv, DownloadInv, DownloadTypes, DownloadsKnow
<1>5. batch.status \in Served /\ d.got = <<>> /\ d.answer = "none" /\ d.want = Archive BY <1>3, <1>4 DEF DownloadKnows
<1>6. /\ e \in DownloadRows /\ e.pc = "items" /\ e.want = Archive /\ e.got = <<>> /\ e.answer = "none"
      /\ e.entries = SucceededFiles
  BY <1>2, <1>3, <1>4, <1>5, SucceededTyped DEF DownloadRows
<1>7. DownloadKnows(e) BY <1>5, <1>6 DEF DownloadKnows
<1>8. BudgetTypes' BY <1>3, <1>4, FileBudgetSpent DEF ContentInv
<1>9. ContentInv' BY <1>3, <1>4, <1>8, ContentStays
<1>10. CASE \E i \in DOMAIN e.entries : ~Stored(e.entries[i])
  <2>1. PICK i \in DOMAIN e.entries : ~Stored(e.entries[i]) BY <1>10
  <2>2. PICK S : S = {itemRows[k].file : k \in {j \in DOMAIN itemRows : itemRows[j].status = "success"}} OBVIOUS
  <2>3. itemRows \in Seq(ItemRows) BY <1>4 DEF ContentInv, BatchTypes
  <2>4. SucceededFiles \in Seq(S) BY <2>2, <2>3, SucceededIn
  <2>5. e.entries[i] \in S BY <1>6, <2>1, <2>4
  <2>6. PICK k \in DOMAIN itemRows : itemRows[k].status = "success" /\ itemRows[k].file = e.entries[i] BY <2>2, <2>5
  <2>7. Excused(e) BY <1>4, <1>5, <2>1, <2>6, FileThere DEF Excused
  <2>8. PICK f : f = Ended(e, "failed") OBVIOUS
  <2>9. f \in DownloadRows /\ DownloadKnows(f) /\ f.pc = "done" BY <1>6, <1>7, <2>7, <2>8, FailedKnows
  <2>10. Set(q, f) BY <1>3, <1>10, <2>8
  <2>11. DownloadInv' BY <1>3, <1>4, <2>9, <2>10, AsideKeeps
  <2> QED BY <1>9, <2>11 DEF FileInv
<1>11. CASE ~ \E i \in DOMAIN e.entries : ~Stored(e.entries[i])
  <2>1. PICK f : f = [e EXCEPT !.pc = "create"] OBVIOUS
  <2>2. Set(q, f) BY <1>3, <1>11, <2>1
  <2>3. /\ f \in DownloadRows /\ f.pc = "create" /\ f.want = Archive /\ f.got = <<>> /\ f.answer = "none"
        /\ f.entries = SucceededFiles
    BY <1>6, <2>1 DEF DownloadRows, DownloadPlaces
  <2>4. DownloadKnows(f) BY <1>5, <2>3 DEF DownloadKnows
  <2>5. DownloadInv' BY <1>3, <1>4, <2>2, <2>3, <2>4, AsideKeeps
  <2> QED BY <1>9, <2>5 DEF FileInv
<1> QED BY <1>10, <1>11

\* A new build empties the temporary file, or starts a new one: nobody else's file if it is alone.
LEMMA CreateKeeps == ASSUME FileInv, NEW q \in Downloaders, ArchiveCreate(q) PROVE FileInv'
<1>1. PICK d : d = downloads[q] OBVIOUS
<1>2. d.pc = "create" /\ UNCHANGED <<batch, itemRows, remote, indexer, removals, fileBudget>> BY <1>1 DEF ArchiveCreate
<1>3. d \in DownloadRows /\ DownloadKnows(d) /\ ContentInv /\ DownloadInv /\ BatchTypes
  BY <1>1 DEF FileInv, ContentInv, DownloadInv, DownloadTypes, DownloadsKnow
<1>4. batch.status \in Served /\ d.got = <<>> /\ d.answer = "none" /\ d.want = Archive /\ d.entries = SucceededFiles
  BY <1>2, <1>3 DEF DownloadKnows
<1>5. BudgetTypes' BY <1>2, <1>3, FileBudgetSpent DEF ContentInv
<1>6. CASE ~disk.there
  <2>1. PICK e : e = Ended(d, "failed") OBVIOUS
  <2>2. Set(q, e) /\ UNCHANGED <<disk, archives>> BY <1>1, <1>6, <2>1 DEF ArchiveCreate
  <2>3. batch.removing BY <1>3, <1>4, <1>6 DEF ContentInv, RowsFiled, Charged
  <2>4. e \in DownloadRows /\ DownloadKnows(e) /\ e.pc = "done" BY <1>2, <1>3, <2>1, <2>3, FailedKnows DEF Excused
  <2>5. DownloadInv' BY <1>2, <1>3, <2>2, <2>4, AsideKeeps
  <2>6. ContentInv' BY <1>2, <1>3, <1>5, <2>2, ContentStays
  <2> QED BY <2>5, <2>6 DEF FileInv
<1>7. CASE disk.there
  <2>1. PICK t : t = Temporary OBVIOUS
  <2>2. /\ disk' = [disk EXCEPT !.part = t]
        /\ archives' = IF disk.part = 0 THEN Append(archives, {}) ELSE [archives EXCEPT ![disk.part] = {}]
        /\ downloads' = [Crossed(q) EXCEPT ![q].pc = "write", ![q].at = 1, ![q].inode = t]
    BY <1>7, <2>1 DEF ArchiveCreate
  <2>3. archives \in Seq(ArchiveFiles) /\ Len(archives) \in Nat /\ Names BY <1>3 DEF DownloadInv, DownloadTypes
  <2>4. /\ disk.part \in 0 .. Len(archives) /\ disk.zip \in 0 .. Len(archives) /\ (disk.part # 0 => disk.part # disk.zip)
        /\ \A p \in Building : downloads[p].inode \in 1 .. Len(archives)
        /\ \A p \in Downloaders : Sends(p) => downloads[p].inode \in 1 .. Len(archives) /\ downloads[p].inode # disk.part
    BY <2>3 DEF Names
  <2>5. /\ t = IF disk.part = 0 THEN Len(archives) + 1 ELSE disk.part
        /\ t \in Nat /\ t # 0 /\ t # disk.zip
        /\ \A p \in Downloaders : Sends(p) => downloads[p].inode # t
    BY <2>1, <2>3, <2>4 DEF Temporary
  <2>6. /\ archives' \in Seq(ArchiveFiles) /\ t \in 1 .. Len(archives') /\ Len(archives') >= Len(archives) /\ Len(archives') \in Nat
        /\ archives'[t] = {} /\ \A n \in 1 .. Len(archives) : n # t => archives'[n] = archives[n]
    <3>1. CASE disk.part = 0
      <4>1. archives' = Append(archives, {}) BY <2>2, <3>1
      <4> QED BY <2>3, <2>5, <3>1, <4>1, PieceAdded, AppendProperties
    <3>2. CASE disk.part # 0
      <4>1. archives' = [archives EXCEPT ![t] = {}] /\ t \in 1 .. Len(archives) BY <2>2, <2>3, <2>4, <2>5, <3>2
      <4>2. archives' \in Seq(ArchiveFiles) /\ Len(archives') = Len(archives) BY <2>3, <4>1, PieceAdded, ExceptSeq
      <4>3. DOMAIN archives = 1 .. Len(archives) BY <2>3
      <4> QED BY <2>3, <4>1, <4>2, <4>3
    <3> QED BY <3>1, <3>2
  <2>7. PICK crowd \in BOOLEAN : crowd = (Building \ {q} # {}) OBVIOUS
  <2>8. ASSUME NEW p \in Downloaders, p # q
        PROVE  downloads'[p] = [downloads[p] EXCEPT !.crossed = @ \/ crowd]
    BY <2>2, <2>7, <2>8 DEF Crossed
  <2>9. downloads'[q] = [d EXCEPT !.crossed = @ \/ crowd, !.pc = "write", !.at = 1, !.inode = t]
    BY <1>1, <1>3, <2>2, <2>7 DEF Crossed, DownloadRows
  <2>10. DOMAIN downloads' = Downloaders /\ downloads' = [p \in Downloaders |-> downloads'[p]] BY <2>2 DEF Crossed
  <2>11. ASSUME NEW p \in Downloaders, p # q
         PROVE  /\ downloads'[p] \in DownloadRows /\ downloads'[p].pc = downloads[p].pc /\ downloads'[p].want = downloads[p].want
                /\ downloads'[p].inode = downloads[p].inode /\ downloads'[p].at = downloads[p].at
                /\ downloads'[p].length = downloads[p].length /\ downloads'[p].got = downloads[p].got
                /\ downloads'[p].entries = downloads[p].entries /\ downloads'[p].answer = downloads[p].answer
                /\ downloads'[p].crossed = (downloads[p].crossed \/ crowd)
    <3>1. PICK old \in DownloadRows : old = downloads[p] BY <1>3 DEF DownloadInv, DownloadTypes
    <3>2. PICK c \in BOOLEAN : c = (old.crossed \/ crowd) BY <3>1
    <3>3. downloads'[p] = [old EXCEPT !.crossed = c] BY <2>8, <2>11, <3>1, <3>2
    <3> QED BY <3>1, <3>2, <3>3 DEF DownloadRows
  <2>12. /\ downloads'[q] \in DownloadRows /\ downloads'[q].pc = "write" /\ downloads'[q].want = Archive
         /\ downloads'[q].inode = t /\ downloads'[q].at = 1 /\ downloads'[q].got = <<>>
         /\ downloads'[q].entries = SucceededFiles /\ downloads'[q].answer = "none"
         /\ downloads'[q].crossed = (d.crossed \/ crowd)
    <3>1. PICK c \in BOOLEAN : c = (d.crossed \/ crowd) OBVIOUS
    <3>2. PICK e : e = [d EXCEPT !.crossed = c, !.pc = "write", !.at = 1, !.inode = t] OBVIOUS
    <3>3. downloads'[q] = e BY <2>9, <3>1, <3>2
    <3>4. e \in DownloadRows BY <1>3, <2>5, <3>2 DEF DownloadRows, DownloadPlaces
    <3>5. /\ e.pc = "write" /\ e.at = 1 /\ e.inode = t /\ e.crossed = c /\ e.want = d.want /\ e.got = d.got
          /\ e.entries = d.entries /\ e.answer = d.answer
      BY <1>3, <3>2 DEF DownloadRows
    <3> QED BY <1>4, <3>1, <3>3, <3>4, <3>5
  <2>13. downloads' \in [Downloaders -> DownloadRows] BY <2>10, <2>11, <2>12
  <2>14. /\ Building' = Building \cup {q} /\ Building \subseteq Downloaders /\ q \notin Building
         /\ \A p \in Downloaders : (Sends(p)' <=> Sends(p)) /\ (Sends(p) => p # q)
    BY <1>1, <1>2, <2>11, <2>12 DEF Building, Sends
  <2>15. disk'.part = t /\ disk'.zip = disk.zip BY <1>3, <2>2 DEF BatchTypes, DiskRows
  <2>16. ContentInv'
    <3>1. disk \in DiskRows BY <1>3 DEF BatchTypes
    <3>2. disk' = [disk EXCEPT !.part = t, !.zip = disk.zip] /\ disk.zip \in Nat BY <2>2, <3>1 DEF DiskRows
    <3> QED BY <1>2, <1>3, <1>5, <2>5, <3>2, ContentStays
  <2>17. DownloadsKnow'
    <3> SUFFICES ASSUME NEW p \in Downloaders PROVE DownloadKnows(downloads[p])' BY DEF DownloadsKnow
    <3>1. CASE p = q BY <1>2, <1>4, <2>12, <3>1, FilesStay DEF DownloadKnows
    <3>2. CASE p # q
      <4>1. DownloadKnows(downloads[p]) BY <1>3 DEF DownloadInv, DownloadsKnow
      <4>2. Pieces(downloads[p])' = Pieces(downloads[p]) BY <2>11, <3>2 DEF Pieces
      <4> QED BY ZenonT(60), <1>2, <2>11, <3>2, <4>1, <4>2, FilesStay DEF DownloadKnows, Excused
    <3> QED BY <3>1, <3>2
  <2>18. Names'
    <3>1. \A p \in Building' : downloads'[p].inode \in 1 .. Len(archives')
      <4> SUFFICES ASSUME NEW p \in Building' PROVE downloads'[p].inode \in 1 .. Len(archives') OBVIOUS
      <4>1. CASE p = q BY <2>6, <2>12, <4>1
      <4>2. CASE p # q
        <5>1. p \in Building /\ downloads'[p].inode = downloads[p].inode BY <2>11, <2>14, <4>2
        <5>2. downloads[p].inode \in 1 .. Len(archives) BY <2>4, <5>1
        <5> QED BY <2>3, <2>6, <5>1, <5>2
      <4> QED BY <4>1, <4>2
    <3>2. ASSUME NEW p \in Downloaders, Sends(p)'
          PROVE  downloads'[p].inode \in 1 .. Len(archives') /\ downloads'[p].inode # disk'.part
      <4>1. Sends(p) /\ p # q BY <2>14, <3>2
      <4>2. downloads'[p].inode = downloads[p].inode /\ downloads[p].inode \in 1 .. Len(archives) /\ downloads[p].inode # t
        BY <2>4, <2>5, <2>11, <4>1
      <4> QED BY <2>3, <2>6, <2>15, <4>2
    <3>3. disk'.part \in 0 .. Len(archives') /\ disk'.zip \in 0 .. Len(archives') /\ disk'.part # disk'.zip
      BY <2>3, <2>4, <2>5, <2>6, <2>15
    <3> QED BY <3>1, <3>2, <3>3 DEF Names
  <2>19. ArchivesWhole'
    <3>1. CASE crowd BY <2>11, <2>12, <3>1 DEF Late, ArchivesWhole, Undisturbed
    <3>2. CASE ~crowd
      <4>1. Building' = {q} BY <2>7, <2>14, <3>2
      <4>2. ProperBuild(q)'
        <5>1. \A x \in Building' : x = q BY <4>1
        <5>2. \A p \in Downloaders : Sends(p)' => downloads'[p].inode # t BY <2>5, <2>11, <2>14
        <5>3. archives'[t] = 1 .. 1 - 1 BY <2>6
        <5>4. 1 \in 1 .. Len(SucceededFiles) + 1 BY <1>3, SucceededTyped
        <5>5. SucceededFiles' = SucceededFiles BY <1>2, FilesStay
        <5> QED BY <2>5, <2>12, <2>15, <5>1, <5>2, <5>3, <5>4, <5>5 DEF ProperBuild
      <4>3. ASSUME NEW p \in Downloaders, Late(p)' PROVE WholeRead(p)'
        <5>1. CASE p = q BY <2>12, <5>1 DEF WholeRead
        <5>2. CASE p # q
          <6>1. Late(p) BY <2>11, <4>3, <5>2 DEF Late
          <6>2. WholeRead(p) BY <1>3, <6>1 DEF DownloadInv, ArchivesWhole
          <6>3. disk.zip # 0 => archives'[disk.zip] = archives[disk.zip] BY <2>3, <2>4, <2>5, <2>6
          <6>4. Sends(p) => archives'[downloads[p].inode] = archives[downloads[p].inode] BY <2>4, <2>5, <2>6
          <6>5. Whole' = Whole /\ SucceededFiles' = SucceededFiles BY <1>2, FilesStay
          <6> QED BY <1>2, <2>11, <2>15, <5>2, <6>2, <6>3, <6>4, <6>5 DEF WholeRead, Sends
        <5> QED BY <5>1, <5>2
      <4> QED BY <4>1, <4>2, <4>3 DEF ArchivesWhole
    <3> QED BY <3>1, <3>2
  <2> QED BY <2>6, <2>13, <2>16, <2>17, <2>18, <2>19 DEF FileInv, DownloadInv, DownloadTypes
<1> QED BY <1>6, <1>7

\* A handler at the archive's files, whose step is told apart only by these.
LEMMA ArchiveTurn ==
  ASSUME FileInv, NEW q \in Downloaders, UNCHANGED <<batch, itemRows, remote, indexer, removals, fileBudget>>,
         NEW part \in Nat, NEW zip \in Nat, disk' \in {disk, [disk EXCEPT !.part = part, !.zip = zip]}
  PROVE  /\ ContentInv' /\ batch'.status = batch.status /\ batch'.removing = batch.removing
         /\ downloads[q] \in DownloadRows /\ DownloadKnows(downloads[q]) /\ DownloadInv /\ ContentInv
         /\ SucceededFiles' = SucceededFiles /\ Whole' = Whole
BY FileBudgetSpent, ContentStays, FilesStay DEF FileInv, ContentInv, DownloadInv, DownloadTypes, DownloadsKnow

\* A file that a build needs is there unless somebody removes it.
LEMMA EntryThere ==
  ASSUME ContentInv, batch.status \in Served, ~batch.removing, NEW k \in 1 .. Len(SucceededFiles)
  PROVE  SucceededFiles[k] \in DOMAIN disk.images
<1>1. itemRows \in Seq(ItemRows) BY DEF ContentInv, BatchTypes
<1>2. \A i \in DOMAIN itemRows : itemRows[i].status = "success" => itemRows[i].file \in DOMAIN disk.images BY FileThere
<1>3. SucceededFiles \in Seq(DOMAIN disk.images) BY <1>1, <1>2, SucceededIn
<1> QED BY <1>3

LEMMA WriteKeeps == ASSUME FileInv, NEW q \in Downloaders, ArchiveWrite(q) PROVE FileInv'
<1>1. PICK d : d = downloads[q] OBVIOUS
<1>2. /\ d.pc = "write" /\ UNCHANGED <<batch, itemRows, remote, disk, indexer, removals, fileBudget>>
      /\ IF d.at <= Len(d.entries) /\ d.entries[d.at] \notin DOMAIN disk.images
         THEN Set(q, Ended(d, "failed")) /\ UNCHANGED archives
         ELSE /\ archives' = [archives EXCEPT ![d.inode] = @ \cup {d.at}]
              /\ Set(q, [d EXCEPT !.at = @ + 1, !.pc = IF d.at = Len(d.entries) + 1 THEN "rename" ELSE "write"])
  BY <1>1 DEF ArchiveWrite
<1>3. /\ ContentInv' /\ batch'.status = batch.status /\ batch'.removing = batch.removing
      /\ d \in DownloadRows /\ DownloadKnows(d) /\ DownloadInv /\ ContentInv
      /\ SucceededFiles' = SucceededFiles /\ Whole' = Whole
  BY <1>1, <1>2, ArchiveTurn
<1>4. batch.status \in Served /\ d.got = <<>> /\ d.answer = "none" /\ d.want = Archive /\ d.entries = SucceededFiles
  BY <1>2, <1>3 DEF DownloadKnows
<1>5. Len(SucceededFiles) \in Nat /\ d.at \in Nat /\ d.inode \in Nat BY <1>3, SucceededTyped DEF DownloadRows
<1>6. Late(q) => ProperBuild(q) /\ d.at \in 1 .. Len(SucceededFiles) + 1
  BY <1>1, <1>2, <1>3 DEF Building, DownloadInv, ArchivesWhole, Undisturbed, ProperBuild
<1>7. ~d.crossed <=> Late(q) BY <1>1, <1>2, <1>4 DEF Late
<1>8. CASE d.at <= Len(d.entries) /\ d.entries[d.at] \notin DOMAIN disk.images
  <2>1. PICK e : e = Ended(d, "failed") OBVIOUS
  <2>2. Set(q, e) /\ UNCHANGED archives BY <1>2, <1>8, <2>1
  <2>3. Excused(d)
    <3> SUFFICES ASSUME ~d.crossed, ~batch.removing PROVE FALSE BY DEF Excused
    <3>1. d.at \in 1 .. Len(SucceededFiles) BY <1>4, <1>5, <1>6, <1>7, <1>8
    <3> QED BY <1>3, <1>4, <1>8, <3>1, EntryThere
  <2>4. e \in DownloadRows /\ DownloadKnows(e) /\ e.pc = "done" BY <1>2, <1>3, <2>1, <2>3, FailedKnows
  <2>5. DownloadInv' BY <1>2, <1>3, <2>2, <2>4, AsideKeeps
  <2> QED BY <1>3, <2>5 DEF FileInv
<1>9. CASE ~ (d.at <= Len(d.entries) /\ d.entries[d.at] \notin DOMAIN disk.images)
  <2>1. PICK pc \in {"rename", "write"} : pc = IF d.at = Len(d.entries) + 1 THEN "rename" ELSE "write" OBVIOUS
  <2>2. PICK e : e = [d EXCEPT !.at = @ + 1, !.pc = pc] OBVIOUS
  <2>3. Set(q, e) /\ archives' = [archives EXCEPT ![d.inode] = @ \cup {d.at}] BY <1>2, <1>9, <2>1, <2>2
  <2>4. d.at + 1 \in Nat BY <1>5
  <2>5. e \in DownloadRows BY <1>3, <2>2, <2>4 DEF DownloadRows, DownloadPlaces
  <2>6. /\ e.pc = pc /\ e.at = d.at + 1 /\ e.inode = d.inode /\ e.crossed = d.crossed /\ e.want = d.want
        /\ e.got = d.got /\ e.entries = d.entries /\ e.answer = d.answer
    BY <1>3, <2>2 DEF DownloadRows
  <2>7. DownloadKnows(e) BY <1>4, <2>6 DEF DownloadKnows
  <2>8. DownloadsKnow' BY <1>2, <1>3, <2>3, <2>5, <2>7, TurnKnows
  <2>9. /\ downloads' \in [Downloaders -> DownloadRows] /\ downloads'[q] = e
        /\ \A p \in Downloaders : p # q => downloads'[p] = downloads[p]
    BY <1>3, <2>3, <2>5, SetTurn
  <2>10. /\ Building' = Building /\ q \in Building /\ Building \subseteq Downloaders
         /\ \A p \in Downloaders : (Sends(p)' <=> Sends(p)) /\ (Late(p)' <=> Late(p))
         /\ ~Sends(q)
    BY <1>1, <1>2, <2>6, <2>9 DEF Building, Sends, Late
  <2>11. archives \in Seq(ArchiveFiles) /\ Len(archives) \in Nat /\ Names BY <1>3 DEF DownloadInv, DownloadTypes
  <2>12. d.inode \in 1 .. Len(archives) BY <1>1, <2>10, <2>11 DEF Names
  <2>13. /\ archives' \in Seq(ArchiveFiles) /\ Len(archives') = Len(archives)
         /\ archives'[d.inode] = archives[d.inode] \cup {d.at}
         /\ \A n \in 1 .. Len(archives) : n # d.inode => archives'[n] = archives[n]
    <3>1. PICK pieces : pieces = archives[d.inode] \cup {d.at} OBVIOUS
    <3>2. archives[d.inode] \in ArchiveFiles BY <2>11, <2>12
    <3>3. pieces \in ArchiveFiles BY <1>5, <3>1, <3>2, PieceAdded
    <3>4. archives' = [archives EXCEPT ![d.inode] = pieces] BY <2>3, <3>1
    <3>5. archives' \in Seq(ArchiveFiles) /\ Len(archives') = Len(archives) BY <2>11, <2>12, <3>3, <3>4, ExceptSeq
    <3>6. DOMAIN archives = 1 .. Len(archives) BY <2>11
    <3> QED BY <2>12, <3>1, <3>4, <3>5, <3>6
  <2>14. Names'
    <3>1. \A p \in Building : downloads'[p].inode = downloads[p].inode BY <1>1, <2>6, <2>9, <2>10
    <3>2. \A p \in Downloaders : Sends(p) => downloads'[p].inode = downloads[p].inode BY <2>9, <2>10
    <3> QED BY <1>2, <2>10, <2>11, <2>13, <3>1, <3>2 DEF Names
  <2>15. Undisturbed => ProperBuild(q) BY <1>3, <2>10 DEF DownloadInv, ArchivesWhole
  <2>16. ASSUME ProperBuild(q) PROVE ProperBuild(q)'
    <3>1. d.at \in 1 .. Len(SucceededFiles) + 1 BY <1>1, <1>2, <2>16 DEF ProperBuild
    <3>2. archives'[d.inode] = 1 .. (d.at + 1) - 1 BY <1>1, <2>16, <1>5, <2>13, <3>1 DEF ProperBuild
    <3>3. IF pc = "rename" THEN d.at + 1 = Len(SucceededFiles) + 2 ELSE d.at + 1 \in 1 .. Len(SucceededFiles) + 1
      <4>1. CASE d.at = Len(SucceededFiles) + 1 BY <1>4, <1>5, <2>1, <4>1
      <4>2. CASE d.at # Len(SucceededFiles) + 1 BY <1>4, <2>1, <4>2, <1>5, <3>1
      <4> QED BY <4>1, <4>2
    <3>4. \A p \in Downloaders : Sends(p)' => downloads'[p].inode # d.inode
      BY <1>1, <2>9, <2>10, <2>16 DEF ProperBuild
    <3>5. (\A x \in Building' : x = q) /\ (disk.part = d.inode \/ (disk.part = 0 /\ batch.removing)) /\ disk.zip # d.inode
      BY <1>1, <2>10, <2>16 DEF ProperBuild
    <3> QED BY <1>2, <1>3, <2>6, <2>9, <3>2, <3>3, <3>4, <3>5 DEF ProperBuild
  <2>17. ASSUME NEW p \in Downloaders, Late(p) PROVE WholeRead(p)'
    <3>1. ProperBuild(q) /\ WholeRead(p) BY <1>3, <2>15, <2>17 DEF DownloadInv, ArchivesWhole, Undisturbed
    <3>2. CASE p = q BY <2>6, <2>9, <3>2 DEF WholeRead
    <3>3. CASE p # q
      <4>1. disk.zip # 0 => archives'[disk.zip] = archives[disk.zip] BY <1>1, <2>11, <3>1, <2>13 DEF Names, ProperBuild
      <4>2. Sends(p) => archives'[downloads[p].inode] = archives[downloads[p].inode]
        BY <1>1, <2>11, <3>1, <2>13 DEF Names, ProperBuild
      <4> QED BY <1>2, <1>3, <2>9, <3>1, <3>3, <4>1, <4>2 DEF WholeRead, Sends
    <3> QED BY <3>2, <3>3
  <2>18. ArchivesWhole' BY <2>10, <2>15, <2>16, <2>17 DEF Undisturbed, ProperBuild, ArchivesWhole
  <2> QED BY <1>3, <2>8, <2>9, <2>13, <2>14, <2>18 DEF FileInv, DownloadInv, DownloadTypes
<1> QED BY <1>8, <1>9

LEMMA RenameKeeps == ASSUME FileInv, NEW q \in Downloaders, ArchiveRename(q) PROVE FileInv'
<1>1. PICK d : d = downloads[q] OBVIOUS
<1>2. /\ d.pc = "rename" /\ UNCHANGED <<batch, itemRows, remote, archives, indexer, removals, fileBudget>>
      /\ IF disk.part = 0 THEN Set(q, Ended(d, "failed")) /\ UNCHANGED disk
         ELSE /\ disk' = [disk EXCEPT !.zip = disk.part, !.part = 0]
              /\ IF d.left THEN Set(q, Ended(d, "left")) ELSE Set(q, [d EXCEPT !.pc = "stat"])
  BY <1>1 DEF ArchiveRename, GoesTo
<1>3. disk \in DiskRows BY DEF FileInv, ContentInv, BatchTypes
<1>4. disk.part \in Nat /\ disk' \in {disk, [disk EXCEPT !.part = 0, !.zip = disk.part]} BY <1>2, <1>3 DEF DiskRows
<1>5. /\ ContentInv' /\ batch'.status = batch.status /\ batch'.removing = batch.removing
      /\ d \in DownloadRows /\ DownloadKnows(d) /\ DownloadInv /\ ContentInv
      /\ SucceededFiles' = SucceededFiles /\ Whole' = Whole
  BY <1>1, <1>2, <1>4, ArchiveTurn
<1>6. batch.status \in Served /\ d.got = <<>> /\ d.answer = "none" /\ d.want = Archive /\ d.entries = SucceededFiles
  BY <1>2, <1>5 DEF DownloadKnows
<1>7. q \in Building /\ Building \subseteq Downloaders BY <1>1, <1>2 DEF Building
<1>8. Undisturbed => ProperBuild(q) BY <1>5, <1>7 DEF DownloadInv, ArchivesWhole
<1>9. ~d.crossed => Undisturbed BY <1>1, <1>2, <1>6 DEF Undisturbed, Late
<1>10. archives \in Seq(ArchiveFiles) /\ Len(archives) \in Nat /\ Names BY <1>5 DEF DownloadInv, DownloadTypes
<1>11. d.inode \in 1 .. Len(archives) BY <1>1, <1>7, <1>10 DEF Names
<1>12. CASE disk.part = 0
  <2>1. PICK e : e = Ended(d, "failed") OBVIOUS
  <2>2. Set(q, e) /\ UNCHANGED disk BY <1>2, <1>12, <2>1
  <2>3. Excused(d)
    <3> SUFFICES ASSUME ~d.crossed PROVE batch.removing BY DEF Excused
    <3>1. ProperBuild(q) BY <1>8, <1>9
    <3> QED BY <1>1, <1>10, <1>11, <1>12, <3>1 DEF ProperBuild
  <2>4. e \in DownloadRows /\ DownloadKnows(e) /\ e.pc = "done" BY <1>2, <1>5, <2>1, <2>3, FailedKnows
  <2>5. DownloadInv' BY <1>2, <1>5, <2>2, <2>4, AsideKeeps
  <2> QED BY <1>5, <2>5 DEF FileInv
<1>13. CASE disk.part # 0
  <2>1. disk'.part = 0 /\ disk'.zip = disk.part BY <1>2, <1>3, <1>13 DEF DiskRows
  <2>2. PICK e \in DownloadRows :
          /\ Set(q, e) /\ e.pc \in {"done", "stat"} /\ DownloadKnows(e) /\ e.want = d.want /\ e.crossed = d.crossed
    <3>1. CASE d.left
      <4>1. PICK e : e = Ended(d, "left") OBVIOUS
      <4>2. "left" \in DownloadAnswers BY DEF DownloadAnswers
      <4>3. e \in DownloadRows /\ DownloadKnows(e) /\ e.pc = "done" BY <1>2, <1>5, <4>1, LeftKnows
      <4>4. e.want = d.want /\ e.crossed = d.crossed BY <1>5, <4>1, <4>2, EndedTyped
      <4> QED BY <1>2, <1>13, <3>1, <4>1, <4>3, <4>4
    <3>2. CASE ~d.left
      <4>1. PICK e : e = [d EXCEPT !.pc = "stat"] OBVIOUS
      <4>2. e \in DownloadRows BY <1>5, <4>1 DEF DownloadRows, DownloadPlaces
      <4>3. e.pc = "stat" /\ e.want = d.want /\ e.got = d.got /\ e.answer = d.answer /\ e.crossed = d.crossed
            /\ e.entries = d.entries
        BY <1>5, <4>1 DEF DownloadRows
      <4>4. DownloadKnows(e) BY <1>6, <4>3 DEF DownloadKnows
      <4> QED BY <1>2, <1>13, <3>2, <4>1, <4>2, <4>3, <4>4
    <3> QED BY <3>1, <3>2
  <2>3. DownloadsKnow' BY <1>2, <1>5, <2>2, TurnKnows
  <2>4. /\ downloads' \in [Downloaders -> DownloadRows] /\ downloads'[q] = e
        /\ \A p \in Downloaders : p # q => downloads'[p] = downloads[p]
    BY <1>5, <2>2, SetTurn
  <2>5. /\ Building' = Building \ {q}
        /\ \A p \in Downloaders : (Sends(p)' <=> Sends(p)) /\ (Late(p)' => Late(p)) /\ (Sends(p) => p # q)
    BY <1>1, <1>2, <2>2, <2>4 DEF Late, Building, Sends
  <2>6. Names'
    <3>1. disk.part \in 0 .. Len(archives) BY <1>10 DEF Names
    <3>2. \A p \in Building' : downloads'[p].inode \in 1 .. Len(archives) BY <1>7, <1>10, <2>4, <2>5 DEF Names
    <3>3. \A p \in Downloaders : Sends(p)' => downloads'[p].inode \in 1 .. Len(archives) /\ downloads'[p].inode # 0
      BY <1>10, <2>4, <2>5 DEF Names
    <3> QED BY <1>2, <1>10, <2>1, <3>1, <3>2, <3>3 DEF Names
  <2>7. ASSUME NEW p \in Downloaders, Late(p)' PROVE WholeRead(p)'
    <3>1. Late(p) BY <2>5, <2>7
    <3>2. ProperBuild(q) /\ WholeRead(p) BY <1>5, <1>8, <3>1 DEF DownloadInv, ArchivesWhole, Undisturbed
    <3>3. archives[disk.part] = Whole
      <4>1. Len(SucceededFiles) \in Nat BY <1>5, SucceededTyped
      <4>2. disk.part = d.inode /\ d.at = Len(SucceededFiles) + 2 /\ archives[d.inode] = 1 .. d.at - 1
        BY <1>1, <1>2, <1>13, <3>2 DEF ProperBuild
      <4>3. (Len(SucceededFiles) + 2) - 1 = Len(SucceededFiles) + 1 BY <4>1
      <4> QED BY <4>2, <4>3 DEF Whole
    <3>4. CASE p = q
      <4>1. downloads'[p].pc \in {"stat", "done"} BY <2>2, <2>4, <3>4
      <4> QED BY <1>2, <1>5, <1>13, <2>1, <3>3, <4>1 DEF WholeRead
    <3>5. CASE p # q BY <1>2, <1>5, <1>13, <2>1, <2>4, <3>2, <3>3, <3>5 DEF WholeRead
    <3> QED BY <3>4, <3>5
  <2>8. ArchivesWhole' BY <1>8, <2>5, <2>7 DEF Undisturbed, ProperBuild, ArchivesWhole
  <2> QED BY <1>2, <1>5, <1>10, <2>3, <2>4, <2>6, <2>8 DEF FileInv, DownloadInv, DownloadTypes
<1> QED BY <1>12, <1>13

LEMMA LengthWhole ==
  ASSUME ContentInv PROVE FileLength(Whole) = Len(SucceededFiles) + 1
<1>1. PICK n \in Nat : n = Len(SucceededFiles) + 1 BY SucceededTyped
<1>2. n >= 1 BY <1>1, SucceededTyped
<1>3. PICK m : m = Max(1 .. n) OBVIOUS
<1>4. n \in 1 .. n /\ \A y \in 1 .. n : n >= y BY <1>1, <1>2
<1>5. m \in 1 .. n /\ \A y \in 1 .. n : m >= y BY <1>3, <1>4 DEF Max
<1>6. m = n BY <1>4, <1>5
<1>7. Whole = 1 .. n /\ Whole # {} BY <1>1, <1>4 DEF Whole
<1> QED BY <1>1, <1>3, <1>6, <1>7 DEF FileLength

\* A reader goes on with a file that no build has open.
LEMMA ReaderKeeps ==
  ASSUME DownloadInv, NEW q \in Downloaders, NEW e \in DownloadRows, Set(q, e), DownloadKnows(e),
         UNCHANGED <<itemRows, archives, disk>>, batch'.status = batch.status, batch'.removing = batch.removing,
         downloads[q].pc \in {"stat", "open", "send"}, e.pc \in {"open", "send", "done"},
         e.want = downloads[q].want, e.crossed = downloads[q].crossed,
         e.pc = "send" => \/ Sends(q) /\ e.inode = downloads[q].inode
                          \/ disk.zip # 0 /\ e.inode = disk.zip,
         Late(q) => WholeRead(q)'
  PROVE  DownloadInv'
<1>1. /\ downloads' \in [Downloaders -> DownloadRows] /\ downloads'[q] = e
      /\ \A p \in Downloaders : p # q => downloads'[p] = downloads[p]
  BY SetTurn
<1>2. DownloadsKnow' BY TurnKnows
<1>3. /\ Building' = Building /\ Building \subseteq Downloaders /\ q \notin Building
      /\ \A p \in Downloaders : Late(p)' => Late(p)
  BY <1>1 DEF Building, Late
<1>4. archives \in Seq(ArchiveFiles) /\ Len(archives) \in Nat /\ Names BY DEF DownloadInv, DownloadTypes
<1>5. Names'
  <2>1. \A p \in Building' : downloads'[p].inode \in 1 .. Len(archives) BY <1>1, <1>3, <1>4 DEF Names
  <2>2. ASSUME NEW p \in Downloaders, Sends(p)'
        PROVE  downloads'[p].inode \in 1 .. Len(archives) /\ downloads'[p].inode # disk.part
    <3>1. CASE p # q BY <1>1, <1>4, <2>2, <3>1 DEF Names, Sends
    <3>2. CASE p = q /\ Sends(q) /\ e.inode = downloads[q].inode BY <1>1, <1>4, <3>2 DEF Names
    <3>3. CASE p = q /\ disk.zip # 0 /\ e.inode = disk.zip BY <1>4, <3>3, <1>1 DEF Names
    <3> QED BY <1>1, <2>2, <3>1, <3>2, <3>3 DEF Sends
  <2> QED BY <1>4, <2>1, <2>2 DEF Names
<1>6. ASSUME NEW p \in Building, ProperBuild(p) PROVE ProperBuild(p)'
  <2>1. downloads'[p] = downloads[p] /\ p \in Downloaders BY <1>1, <1>3
  <2>2. ASSUME NEW x \in Downloaders, Sends(x)' PROVE downloads'[x].inode # downloads[p].inode
    BY <1>1, <1>6, <2>2 DEF ProperBuild, Sends
  <2> QED BY <1>3, <1>6, <2>1, <2>2, FilesStay DEF ProperBuild
<1>7. ASSUME NEW p \in Downloaders, Late(p) PROVE WholeRead(p)'
  <2>1. WholeRead(p) BY <1>7 DEF DownloadInv, ArchivesWhole
  <2>2. CASE p = q BY <1>7, <2>2
  <2>3. CASE p # q BY <1>1, <2>1, <2>3, FilesStay DEF WholeRead
  <2> QED BY <2>2, <2>3
<1>8. ArchivesWhole' BY <1>3, <1>6, <1>7 DEF DownloadInv, ArchivesWhole, Undisturbed
<1> QED BY <1>1, <1>2, <1>5, <1>8 DEF DownloadInv, DownloadTypes

\* A file that is missing was removed, unless builds overlapped.
LEMMA MissingExcused ==
  ASSUME FileInv, NEW q \in Downloaders, downloads[q].pc \in {"stat", "open"}, Missing(downloads[q])
  PROVE  Excused(downloads[q])
<1>1. PICK d : d = downloads[q] OBVIOUS
<1>2. ContentInv /\ DownloadInv /\ DownloadKnows(d) BY <1>1 DEF FileInv, DownloadInv, DownloadsKnow
<1>3. batch.status \in Served BY <1>1, <1>2 DEF DownloadKnows
<1>4. CASE d.want = Archive BY <1>1, <1>4, <1>2 DEF Missing, Late, DownloadInv, ArchivesWhole, WholeRead, Excused
<1>5. CASE d.want # Archive
  <2>1. PICK i \in DOMAIN itemRows : itemRows[i].status = "success" /\ d.entries = <<itemRows[i].file>>
    BY <1>1, <1>2, <1>5 DEF DownloadKnows
  <2>2. itemRows[i].file \notin DOMAIN disk.images BY <2>1, <1>1, <1>5 DEF Missing
  <2>3. batch.removing BY <1>2, <1>3, <2>1, <2>2, FileThere
  <2> QED BY <1>1, <2>3 DEF Excused
<1> QED BY <1>4, <1>5

LEMMA StatKeeps == ASSUME FileInv, NEW q \in Downloaders, DownloadStat(q) PROVE FileInv'
<1>1. PICK d : d = downloads[q] OBVIOUS
<1>2. /\ d.pc = "stat" /\ batch' = [batch EXCEPT !.downloaded = TRUE]
      /\ UNCHANGED <<itemRows, remote, disk, archives, indexer, removals, fileBudget>>
      /\ IF Missing(d) THEN Set(q, Ended(d, "gone"))
         ELSE Set(q, [d EXCEPT !.pc = "open", !.length = IF d.want = Archive THEN FileLength(archives[disk.zip]) ELSE 1])
  BY <1>1 DEF DownloadStat
<1>3. d \in DownloadRows /\ DownloadKnows(d) /\ ContentInv /\ DownloadInv
  BY <1>1 DEF FileInv, DownloadInv, DownloadTypes, DownloadsKnow
<1>4. batch.status \in Served /\ d.got = <<>> /\ d.answer = "none" BY <1>2, <1>3 DEF DownloadKnows
<1>5. BudgetTypes' BY <1>2, <1>3, FileBudgetSpent DEF ContentInv
<1>6. ContentInv' /\ batch'.status = batch.status /\ batch'.removing = batch.removing BY <1>2, <1>3, <1>5, ContentStays
<1>7. CASE Missing(d)
  <2>1. PICK e : e = Ended(d, "gone") OBVIOUS
  <2>2. Set(q, e) BY <1>2, <1>7, <2>1
  <2>3. Excused(d) BY <1>1, <1>2, <1>7, MissingExcused
  <2>4. e \in DownloadRows /\ DownloadKnows(e) /\ e.pc = "done" BY <1>2, <1>3, <2>1, <2>3, FailedKnows
  <2>5. DownloadInv' BY <1>2, <1>3, <1>6, <2>2, <2>4, AsideKeeps
  <2> QED BY <1>6, <2>5 DEF FileInv
<1>8. CASE ~Missing(d)
  <2>1. PICK length : length = IF d.want = Archive THEN FileLength(archives[disk.zip]) ELSE 1 OBVIOUS
  <2>2. archives \in Seq(ArchiveFiles) /\ Names BY <1>3 DEF DownloadInv, DownloadTypes
  <2>3. length \in Nat
    <3>1. CASE d.want = Archive BY <1>8, <2>2, <3>1, <2>1, LengthTyped DEF Missing, Names
    <3>2. CASE d.want # Archive BY <2>1, <3>2
    <3> QED BY <3>1, <3>2
  <2>4. PICK e : e = [d EXCEPT !.pc = "open", !.length = length] OBVIOUS
  <2>5. Set(q, e) BY <1>2, <1>8, <2>1, <2>4
  <2>6. e \in DownloadRows BY <1>3, <2>3, <2>4 DEF DownloadRows, DownloadPlaces
  <2>7. /\ e.pc = "open" /\ e.length = length /\ e.want = d.want /\ e.got = d.got /\ e.answer = d.answer
        /\ e.crossed = d.crossed /\ e.entries = d.entries
    BY <1>3, <2>4 DEF DownloadRows
  <2>8. DownloadKnows(e) BY <1>2, <1>3, <1>4, <2>7 DEF DownloadKnows
  <2>9. downloads'[q] = e BY <1>3, <2>5, <2>6, SetTurn
  <2>10. ASSUME Late(q) PROVE WholeRead(q)'
    <3>1. d.want = Archive /\ WholeRead(q) BY <1>1, <1>3, <2>10 DEF DownloadInv, ArchivesWhole, Late
    <3>2. disk.zip # 0 /\ archives[disk.zip] = Whole BY <1>1, <1>2, <1>8, <3>1 DEF WholeRead, Missing
    <3>3. length = Len(SucceededFiles) + 1 BY <1>3, <2>1, <3>1, <3>2, LengthWhole
    <3>4. Whole' = Whole /\ SucceededFiles' = SucceededFiles BY <1>2, FilesStay
    <3> QED BY <1>2, <2>7, <2>9, <3>2, <3>3, <3>4 DEF WholeRead
  <2>11. DownloadInv' BY <1>1, <1>2, <1>3, <1>6, <2>5, <2>6, <2>7, <2>8, <2>10, ReaderKeeps
  <2> QED BY <1>6, <2>11 DEF FileInv
<1> QED BY <1>7, <1>8

LEMMA OpenKeeps == ASSUME FileInv, NEW q \in Downloaders, DownloadOpen(q) PROVE FileInv'
<1>1. PICK d : d = downloads[q] OBVIOUS
<1>2. /\ d.pc = "open" /\ UNCHANGED <<batch, itemRows, remote, disk, archives, indexer, removals, fileBudget>>
      /\ CASE Missing(d) -> Set(q, Ended(d, "failed"))
           [] ~Missing(d) /\ d.want = Archive -> Set(q, [d EXCEPT !.pc = "send", !.inode = disk.zip])
           [] OTHER -> Set(q, Ended([d EXCEPT !.got = <<disk.images[d.entries[1]]>>], "sent"))
  BY <1>1 DEF DownloadOpen
<1>3. d \in DownloadRows /\ DownloadKnows(d) /\ ContentInv /\ DownloadInv
  BY <1>1 DEF FileInv, DownloadInv, DownloadTypes, DownloadsKnow
<1>4. batch.status \in Served /\ d.got = <<>> /\ d.answer = "none" BY <1>2, <1>3 DEF DownloadKnows
<1>5. BudgetTypes' BY <1>2, <1>3, FileBudgetSpent DEF ContentInv
<1>6. ContentInv' BY <1>2, <1>3, <1>5, ContentStays
<1>7. CASE Missing(d)
  <2>1. PICK e : e = Ended(d, "failed") OBVIOUS
  <2>2. Set(q, e) BY <1>2, <1>7, <2>1
  <2>3. Excused(d) BY <1>1, <1>2, <1>7, MissingExcused
  <2>4. e \in DownloadRows /\ DownloadKnows(e) /\ e.pc = "done" BY <1>2, <1>3, <2>1, <2>3, FailedKnows
  <2>5. DownloadInv' BY <1>2, <1>3, <2>2, <2>4, AsideKeeps
  <2> QED BY <1>6, <2>5 DEF FileInv
<1>8. CASE ~Missing(d) /\ d.want = Archive
  <2>1. PICK e : e = [d EXCEPT !.pc = "send", !.inode = disk.zip] OBVIOUS
  <2>2. Set(q, e) BY <1>2, <1>8, <2>1
  <2>3. disk.zip \in Nat /\ disk.zip # 0 BY <1>3, <1>8 DEF ContentInv, BatchTypes, DiskRows, Missing
  <2>4. e \in DownloadRows BY <1>3, <2>1, <2>3 DEF DownloadRows, DownloadPlaces
  <2>5. /\ e.pc = "send" /\ e.inode = disk.zip /\ e.length = d.length /\ e.want = d.want /\ e.got = d.got
        /\ e.answer = d.answer /\ e.crossed = d.crossed /\ e.entries = d.entries
    BY <1>3, <2>1 DEF DownloadRows
  <2>6. DownloadKnows(e) BY <1>2, <1>3, <1>4, <1>8, <2>5 DEF DownloadKnows
  <2>7. downloads'[q] = e BY <1>3, <2>2, <2>4, SetTurn
  <2>8. ASSUME Late(q) PROVE WholeRead(q)'
    <3>1. WholeRead(q) BY <1>3, <2>8 DEF DownloadInv, ArchivesWhole
    <3>2. archives[disk.zip] = Whole /\ d.length = Len(SucceededFiles) + 1 BY <1>1, <1>2, <2>3, <3>1 DEF WholeRead
    <3>3. Whole' = Whole /\ SucceededFiles' = SucceededFiles BY <1>2, FilesStay
    <3>4. Len(SucceededFiles) \in Nat /\ Len(d.got) = 0 BY <1>3, <1>4, SucceededTyped
    <3>5. Len(d.got) <= d.length /\ d.got = [k \in 1 .. Len(d.got) |-> TRUE] BY <1>4, <3>2, <3>4
    <3> QED BY <1>2, <2>5, <2>7, <3>2, <3>3, <3>5 DEF WholeRead
  <2>9. DownloadInv' BY <1>1, <1>2, <1>3, <2>2, <2>3, <2>4, <2>5, <2>6, <2>8, ReaderKeeps
  <2> QED BY <1>6, <2>9 DEF FileInv
<1>9. CASE ~Missing(d) /\ d.want # Archive
  <2>1. PICK i \in DOMAIN itemRows :
          itemRows[i].id = d.want /\ itemRows[i].status = "success" /\ d.entries = <<itemRows[i].file>>
    BY <1>2, <1>3, <1>9 DEF DownloadKnows
  <2>2. d.entries[1] = itemRows[i].file BY <2>1
  <2>3. itemRows[i].file \in DOMAIN disk.images BY <1>9, <2>2 DEF Missing
  <2>4. disk.images[d.entries[1]] = itemRows[i].prompt /\ itemRows[i].prompt \in Prompts
    BY <1>3, <1>4, <2>1, <2>2, <2>3, FileThere
  <2>5. PICK c : c = [d EXCEPT !.got = <<itemRows[i].prompt>>] OBVIOUS
  <2>6. <<itemRows[i].prompt>> \in Seq(BOOLEAN \cup Prompts) BY <2>4
  <2>7. /\ c \in DownloadRows /\ c.got = <<itemRows[i].prompt>> /\ c.want = d.want /\ c.crossed = d.crossed
        /\ c.entries = d.entries
    BY <1>3, <2>5, <2>6 DEF DownloadRows
  <2>8. PICK e : e = Ended(c, "sent") OBVIOUS
  <2>9. Set(q, e) BY <1>2, <1>9, <2>4, <2>5, <2>8
  <2>10. "sent" \in DownloadAnswers BY DEF DownloadAnswers
  <2>11. /\ e \in DownloadRows /\ e.pc = "done" /\ e.want = d.want /\ e.got = <<itemRows[i].prompt>> /\ e.answer = "sent"
         /\ e.crossed = d.crossed
    BY <2>7, <2>8, <2>10, EndedTyped
  <2>12. DownloadKnows(e) BY <1>4, <1>9, <2>1, <2>11 DEF DownloadKnows
  <2>13. DownloadInv' BY <1>2, <1>3, <2>9, <2>11, <2>12, AsideKeeps
  <2> QED BY <1>6, <2>13 DEF FileInv
<1> QED BY <1>7, <1>8, <1>9

LEMMA ReadKeeps == ASSUME FileInv, NEW q \in Downloaders, DownloadRead(q) PROVE FileInv'
<1>1. PICK d : d = downloads[q] OBVIOUS
<1>2. PICK next : next = Len(d.got) + 1 OBVIOUS
<1>3. /\ d.pc = "send" /\ UNCHANGED <<batch, itemRows, remote, disk, archives, indexer, removals, fileBudget>>
      /\ CASE next > d.length -> Set(q, Ended(d, "sent"))
           [] next <= d.length /\ next > FileLength(archives[d.inode]) -> Set(q, Ended(d, "cut"))
           [] OTHER -> Set(q, [d EXCEPT !.got = Append(@, next \in archives[d.inode])])
  BY <1>1, <1>2 DEF DownloadRead
<1>4. d \in DownloadRows /\ DownloadKnows(d) /\ ContentInv /\ DownloadInv
  BY <1>1 DEF FileInv, DownloadInv, DownloadTypes, DownloadsKnow
<1>5. batch.status \in Served /\ d.answer = "none" /\ d.want = Archive /\ d.entries = SucceededFiles
  BY <1>3, <1>4 DEF DownloadKnows
<1>6. BudgetTypes' BY <1>3, <1>4, FileBudgetSpent DEF ContentInv
<1>7. ContentInv' BY <1>3, <1>4, <1>6, ContentStays
<1>8. d.got \in Seq(BOOLEAN \cup Prompts) /\ Len(d.got) \in Nat /\ d.length \in Nat /\ next \in Nat
  BY <1>2, <1>4 DEF DownloadRows
<1>9. ASSUME ~d.crossed
      PROVE  /\ d.length = Len(SucceededFiles) + 1 /\ archives[d.inode] = Whole /\ Len(d.got) <= d.length
             /\ d.got = [k \in 1 .. Len(d.got) |-> TRUE] /\ WholeRead(q) /\ Len(SucceededFiles) \in Nat
  <2>1. Late(q) BY <1>1, <1>3, <1>5, <1>9 DEF Late
  <2>2. WholeRead(q) BY <1>4, <2>1 DEF DownloadInv, ArchivesWhole
  <2> QED BY <1>1, <1>3, <1>4, <2>2, SucceededTyped DEF WholeRead
<1>10. CASE next > d.length
  <2>1. PICK e : e = Ended(d, "sent") OBVIOUS
  <2>2. Set(q, e) BY <1>8, <1>10, <1>3, <2>1
  <2>3. "sent" \in DownloadAnswers BY DEF DownloadAnswers
  <2>4. /\ e \in DownloadRows /\ e.pc = "done" /\ e.want = Archive /\ e.got = d.got /\ e.answer = "sent"
        /\ e.crossed = d.crossed /\ e.entries = SucceededFiles
    BY <1>4, <1>5, <2>1, <2>3, EndedTyped
  <2>5. ~d.crossed => d.got = [k \in Pieces(e) |-> TRUE]
    <3> SUFFICES ASSUME ~d.crossed PROVE d.got = [k \in Pieces(e) |-> TRUE] OBVIOUS
    <3>1. Len(d.got) = Len(SucceededFiles) + 1 BY <1>2, <1>8, <1>9, <1>10
    <3> QED BY <1>9, <2>4, <3>1 DEF Pieces
  <2>6. DownloadKnows(e) BY <1>5, <2>4, <2>5 DEF DownloadKnows
  <2>7. DownloadInv' BY <1>3, <1>4, <2>2, <2>4, <2>6, AsideKeeps
  <2> QED BY <1>7, <2>7 DEF FileInv
<1>11. CASE next <= d.length /\ next > FileLength(archives[d.inode])
  <2>1. PICK e : e = Ended(d, "cut") OBVIOUS
  <2>2. Set(q, e) BY <1>8, <1>11, <1>3, <2>1
  <2>3. Excused(d)
    <3> SUFFICES ASSUME ~d.crossed PROVE FALSE BY DEF Excused
    <3>1. FileLength(archives[d.inode]) = Len(SucceededFiles) + 1 BY <1>4, <1>9, LengthWhole
    <3> QED BY <1>2, <1>8, <1>9, <1>11, <3>1
  <2>4. e \in DownloadRows /\ DownloadKnows(e) /\ e.pc = "done" BY <1>3, <1>4, <2>1, <2>3, FailedKnows
  <2>5. DownloadInv' BY <1>3, <1>4, <2>2, <2>4, AsideKeeps
  <2> QED BY <1>7, <2>5 DEF FileInv
<1>12. CASE ~ (next > d.length) /\ ~ (next <= d.length /\ next > FileLength(archives[d.inode]))
  <2>1. PICK got : got = Append(d.got, next \in archives[d.inode]) OBVIOUS
  <2>2. (next \in archives[d.inode]) \in BOOLEAN OBVIOUS
  <2>3. /\ got \in Seq(BOOLEAN \cup Prompts) /\ Len(got) = next /\ got[next] = (next \in archives[d.inode])
        /\ \A k \in 1 .. Len(d.got) : got[k] = d.got[k]
    BY <2>2, <2>1, <1>2, <1>8, AppendProperties
  <2>4. PICK e : e = [d EXCEPT !.got = got] OBVIOUS
  <2>5. Set(q, e) BY <1>3, <1>12, <2>1, <2>4
  <2>6. e \in DownloadRows BY <1>4, <2>3, <2>4 DEF DownloadRows
  <2>7. /\ e.pc = "send" /\ e.inode = d.inode /\ e.length = d.length /\ e.want = Archive /\ e.got = got
        /\ e.answer = "none" /\ e.crossed = d.crossed /\ e.entries = SucceededFiles
    BY <1>3, <1>4, <1>5, <2>4 DEF DownloadRows
  <2>8. DownloadKnows(e) BY <1>5, <2>7 DEF DownloadKnows
  <2>9. downloads'[q] = e BY <1>4, <2>5, <2>6, SetTurn
  <2>10. ASSUME Late(q) PROVE WholeRead(q)'
    <3>1. ~d.crossed BY <1>1, <2>10 DEF Late
    <3>2. next <= Len(SucceededFiles) + 1 /\ next \in Nat /\ next >= 1 BY <1>2, <1>8, <1>9, <1>12, <3>1
    <3>3. next \in Whole BY <1>9, <3>1, <3>2 DEF Whole
    <3>4. got[next] = TRUE BY <1>9, <2>3, <3>1, <3>3
    <3>5. \A k \in 1 .. next : got[k] = TRUE
      <4>1. \A k \in 1 .. Len(d.got) : d.got[k] = TRUE BY <1>9, <3>1
      <4>2. \A k \in 1 .. next : k \in 1 .. Len(d.got) \/ k = next BY <1>2, <1>8
      <4> QED BY <2>3, <3>4, <4>1, <4>2
    <3>6. got = [k \in 1 .. Len(got) |-> TRUE] BY <2>3, <3>5
    <3>7. Whole' = Whole /\ SucceededFiles' = SucceededFiles BY <1>3, FilesStay
    <3>8. d.length = Len(SucceededFiles) + 1 /\ archives[d.inode] = Whole BY <1>9, <3>1
    <3>9. Len(got) <= d.length BY <1>8, <1>12, <2>3
    <3> QED BY <1>3, <2>7, <2>9, <3>6, <3>7, <3>8, <3>9 DEF WholeRead
  <2>11. Sends(q) BY <1>1, <1>3 DEF Sends
  <2>12. DownloadInv' BY <1>1, <1>3, <1>4, <1>5, <2>5, <2>6, <2>7, <2>8, <2>10, <2>11, ReaderKeeps
  <2> QED BY <1>7, <2>12 DEF FileInv
<1> QED BY <1>10, <1>11, <1>12

LEMMA LeaveKeeps == ASSUME FileInv, NEW q \in Downloaders, DownloadLeave(q) PROVE FileInv'
<1>1. PICK d : d = downloads[q] OBVIOUS
<1>2. /\ Spend("drops") /\ d.pc \notin {"idle", "done"}
      /\ UNCHANGED <<batch, itemRows, remote, disk, archives, indexer, removals>>
      /\ IF d.pc \in {"create", "write", "rename"} THEN Set(q, [d EXCEPT !.left = TRUE]) ELSE Set(q, Ended(d, "left"))
  BY <1>1 DEF DownloadLeave
<1>3. d \in DownloadRows /\ DownloadKnows(d) /\ ContentInv /\ DownloadInv
  BY <1>1 DEF FileInv, DownloadInv, DownloadTypes, DownloadsKnow
<1>4. BudgetTypes' BY <1>2, <1>3, FileBudgetSpent DEF ContentInv, FileCounters
<1>5. ContentInv' BY <1>2, <1>3, <1>4, ContentStays
<1>6. CASE d.pc \in {"create", "write", "rename"}
  <2>1. PICK e : e = [d EXCEPT !.left = TRUE] OBVIOUS
  <2>2. Set(q, e) BY <1>2, <1>6, <2>1
  <2>3. e \in DownloadRows BY <1>3, <2>1 DEF DownloadRows
  <2>4. /\ e.pc = d.pc /\ e.at = d.at /\ e.inode = d.inode /\ e.length = d.length /\ e.want = d.want /\ e.got = d.got
        /\ e.answer = d.answer /\ e.crossed = d.crossed /\ e.entries = d.entries
    BY <1>3, <2>1 DEF DownloadRows
  <2>5. DownloadKnows(e) BY <1>3, <2>4 DEF DownloadKnows, Excused, Pieces
  <2>6. DownloadsKnow' BY <1>2, <1>3, <2>2, <2>3, <2>5, TurnKnows
  <2>7. /\ downloads' \in [Downloaders -> DownloadRows] /\ downloads'[q] = e
        /\ \A p \in Downloaders : p # q => downloads'[p] = downloads[p]
    BY <1>3, <2>2, <2>3, SetTurn
  <2>8. ASSUME NEW p \in Downloaders
        PROVE  /\ downloads'[p].pc = downloads[p].pc /\ downloads'[p].at = downloads[p].at
               /\ downloads'[p].inode = downloads[p].inode /\ downloads'[p].length = downloads[p].length
               /\ downloads'[p].want = downloads[p].want /\ downloads'[p].got = downloads[p].got
               /\ downloads'[p].crossed = downloads[p].crossed
    BY <1>1, <2>4, <2>7
  <2>9. /\ Building' = Building /\ Building \subseteq Downloaders
        /\ \A p \in Downloaders : (Sends(p)' <=> Sends(p)) /\ (Late(p)' <=> Late(p))
    BY <2>8 DEF Building, Sends, Late
  <2>10. Names' BY <1>2, <1>3, <2>8, <2>9 DEF DownloadInv, Names
  <2>11. \A p \in Building : ProperBuild(p) => ProperBuild(p)' BY <1>2, <2>8, <2>9, FilesStay DEF ProperBuild
  <2>12. \A p \in Downloaders : WholeRead(p) => WholeRead(p)' BY <1>2, <2>8, FilesStay DEF WholeRead
  <2>13. ArchivesWhole' BY <1>3, <2>9, <2>11, <2>12 DEF DownloadInv, ArchivesWhole, Undisturbed
  <2> QED BY <1>2, <1>3, <1>5, <2>6, <2>7, <2>10, <2>13 DEF FileInv, DownloadInv, DownloadTypes
<1>7. CASE d.pc \notin {"create", "write", "rename"}
  <2>1. PICK e : e = Ended(d, "left") OBVIOUS
  <2>2. Set(q, e) BY <1>2, <1>7, <2>1
  <2>3. e \in DownloadRows /\ DownloadKnows(e) /\ e.pc = "done" BY <1>2, <1>3, <2>1, LeftKnows
  <2>4. DownloadInv' BY <1>2, <1>3, <2>2, <2>3, AsideKeeps
  <2> QED BY <1>5, <2>4 DEF FileInv
<1> QED BY <1>6, <1>7

LEMMA RowStepKeeps ==
  ASSUME FileInv,
         \/ SubmitBatch \/ SendBatch \/ ProviderAnswers \/ CancelBatch
         \/ IndexStart \/ FetchPart \/ FetchWhole \/ ResultFails \/ IndexLine \/ IndexCommit \/ SettleBatch
  PROVE  FileInv'
<1>1. ContentInv /\ DownloadInv /\ disk \in DiskRows BY DEF FileInv, ContentInv, BatchTypes
<1>2. ContentInv'
  BY SMTT(30), <1>1, SubmitKeeps, SendKeeps, AnswersKeep, CancelKeeps, StartKeeps, PartKeeps, WholeKeeps, FailsKeep, LineKeeps,
     CommitKeeps, SettleKeeps
<1>3. UNCHANGED <<downloads, archives>>
  BY DEF SubmitBatch, SendBatch, ProviderAnswers, CancelBatch, IndexStart, FetchPart, FetchWhole, ResultFails, IndexLine,
         IndexCommit, SettleBatch
<1>4. disk'.part = disk.part /\ disk'.zip = disk.zip
  <2>1. \/ disk' = disk
        \/ \E there, fetched : disk' = [disk EXCEPT !.there = there, !.fetched = fetched]
        \/ \E fetched : disk' = [disk EXCEPT !.fetched = fetched]
        \/ \E result, fetched : disk' = [disk EXCEPT !.result = result, !.fetched = fetched]
        \/ \E images : disk' = [disk EXCEPT !.images = images]
    <3>1. SubmitBatch \/ SendBatch \/ ProviderAnswers \/ CancelBatch \/ ResultFails \/ IndexCommit \/ SettleBatch => disk' = disk
      BY DEF SubmitBatch, SendBatch, ProviderAnswers, CancelBatch, ResultFails, IndexCommit, SettleBatch
    <3>2. ASSUME IndexStart PROVE \E there, fetched : disk' = [disk EXCEPT !.there = there, !.fetched = fetched]
      BY <3>2 DEF IndexStart
    <3>3. ASSUME FetchPart PROVE \E fetched : disk' = [disk EXCEPT !.fetched = fetched] BY <3>3 DEF FetchPart
    <3>4. ASSUME FetchWhole PROVE \E result, fetched : disk' = [disk EXCEPT !.result = result, !.fetched = fetched]
      BY <3>4 DEF FetchWhole
    <3>5. ASSUME IndexLine PROVE disk' = disk \/ \E images : disk' = [disk EXCEPT !.images = images]
      BY <3>5 DEF IndexLine
    <3> QED BY <3>1, <3>2, <3>3, <3>4, <3>5
  <2> QED BY <1>1, <2>1 DEF DiskRows
<1>5. batch.status \notin Served
  <2>1. indexer.pc # "idle" => batch.status \in {"indexing", "cancelled"} BY <1>1 DEF ContentInv, IndexInv, IndexerThere
  <2>2. \/ indexer.pc # "idle" \/ batch.status \in Unfinished \cup {"none"}
    BY DEF SubmitBatch, SendBatch, ProviderAnswers, CancelBatch, IndexStart, FetchPart, FetchWhole, ResultFails, IndexLine,
           IndexCommit, SettleBatch, Unfinished
  <2> QED BY <2>1, <2>2 DEF Unfinished, Served
<1>6. DownloadInv' BY <1>1, <1>3, <1>4, <1>5, IdleKeeps
<1> QED BY <1>2, <1>6 DEF FileInv

LEMMA DownloadStepKeeps ==
  ASSUME FileInv, NEW q \in Downloaders,
         \/ DownloadStart(q) \/ DownloadRow(q) \/ DownloadItems(q)
         \/ ArchiveCreate(q) \/ ArchiveWrite(q) \/ ArchiveRename(q)
         \/ DownloadStat(q) \/ DownloadOpen(q) \/ DownloadRead(q) \/ DownloadLeave(q)
  PROVE  FileInv'
BY DownloadStartKeeps, DownloadRowKeeps, DownloadItemsKeeps, CreateKeeps, WriteKeeps, RenameKeeps, StatKeeps, OpenKeeps,
   ReadKeeps, LeaveKeeps

LEMMA RemovalStepKeeps ==
  ASSUME FileInv, NEW x \in Removers,
         RemovalStart(x) \/ RemoveRemote(x) \/ RemoveFiles(x) \/ RemoveDirectory(x) \/ MarkRemoved(x)
  PROVE  FileInv'
<1>1. ContentInv /\ DownloadInv /\ disk \in DiskRows /\ batch \in BatchRows BY DEF FileInv, ContentInv, BatchTypes
<1>2. ContentInv'
  BY <1>1, RemovalStartKeeps, RemoveRemoteKeeps, RemoveFilesKeeps, RemoveDirectoryKeeps, MarkRemovedKeeps
<1>3. UNCHANGED <<downloads, archives, itemRows>>
  BY DEF RemovalStart, RemoveRemote, RemoveFiles, RemoveDirectory, MarkRemoved
<1>4. CASE RemoveFiles(x) BY <1>4, <1>1, <1>3, StillKeeps, <1>2 DEF RemoveFiles, EmptyDisk, BatchRows, FileInv
<1>5. CASE ~RemoveFiles(x)
  <2>1. disk' = disk \/ disk' = [disk EXCEPT !.there = FALSE]
    BY <1>5 DEF RemovalStart, RemoveRemote, RemoveDirectory, MarkRemoved
  <2>2. disk'.part = disk.part /\ disk'.zip = disk.zip BY <1>1, <2>1 DEF DiskRows
  <2>3. batch' = batch \/ batch' = [batch EXCEPT !.status = "output_deleted"]
    BY <1>5 DEF RemovalStart, RemoveRemote, RemoveDirectory, MarkRemoved
  <2>4. batch'.removing = batch.removing /\ (batch.status \in Served => batch'.status \in Served)
    BY <1>1, <2>3 DEF BatchRows, Served
  <2>5. DownloadInv' BY <1>1, <1>3, <2>2, <2>4, StillKeeps
  <2> QED BY <1>2, <2>5 DEF FileInv
<1> QED BY <1>4, <1>5

LEMMA EditKeeps == ASSUME FileInv, HideRecord \/ OutputsExpire \/ FilesRestart PROVE FileInv'
<1>1. ContentInv /\ DownloadInv /\ batch \in BatchRows BY DEF FileInv, ContentInv, BatchTypes
<1>2. ContentInv' BY <1>1, HideKeeps, ExpireKeeps, RestartKeeps
<1>3. CASE HideRecord \/ OutputsExpire BY <1>3, <1>1, StillKeeps, <1>2 DEF HideRecord, OutputsExpire, BatchRows, FileInv
<1>4. CASE FilesRestart BY <1>4, <1>1, ResetKeeps, <1>2 DEF FilesRestart, DownloadInv, DownloadTypes, Names, FileInv
<1> QED BY <1>3, <1>4

LEMMA FileInvStep == ASSUME FileInv, [FileNext]_fileVars PROVE FileInv'
<1>1. CASE FileNext BY RowStepKeeps, DownloadStepKeeps, RemovalStepKeeps, EditKeeps, <1>1 DEF FileNext
<1>2. CASE UNCHANGED fileVars
  <2>1. UNCHANGED <<batch, itemRows, remote, disk, archives, indexer, downloads, removals, fileBudget>>
    BY <1>2 DEF fileVars
  <2>2. ContentInv /\ DownloadInv /\ BudgetTypes' BY <2>1, FileBudgetSpent DEF FileInv, ContentInv
  <2>3. disk.part \in Nat /\ disk.zip \in Nat BY <2>2 DEF ContentInv, BatchTypes, DiskRows
  <2>4. ContentInv' BY <2>1, <2>2, <2>3, ContentStays
  <2>5. DownloadInv' BY <2>1, <2>2, StillKeeps
  <2> QED BY <2>4, <2>5 DEF FileInv
<1> QED BY <1>1, <1>2

LEMMA FileInvSafe == ASSUME FileInv PROVE FilesSafe
<1>1. ContentInv /\ BatchTypes /\ DownloadInv BY DEF FileInv, ContentInv
<1>2. FileTypeOK
  <2>1. itemRows \in Seq(ItemRows) /\ DOMAIN itemRows = 1 .. Len(itemRows) BY <1>1 DEF BatchTypes
  <2>2. \A i \in DOMAIN itemRows : itemRows[i] \in ItemRows BY <2>1
  <2>3. \A q \in Downloaders : downloads[q] \in DownloadRows BY <1>1 DEF DownloadInv, DownloadTypes
  <2> QED BY <1>1, <2>2, <2>3 DEF FileTypeOK, BatchTypes, BatchRows, ItemRows, ItemStatus, DownloadRows, DownloadAnswers
<1>3. RowsMatchAnswer /\ DeletedIsGone BY <1>1 DEF ContentInv, RemovalsKnow
<1>4. FilesAreTheirOwn BY <1>1, FileThere DEF FilesAreTheirOwn, Served
<1>5. \A q \in Downloaders : DownloadKnows(downloads[q]) BY <1>1 DEF DownloadInv, DownloadsKnow
<1>6. DownloadsWhole BY <1>5 DEF DownloadsWhole, DownloadKnows
<1>7. ServedUnlessRaced BY <1>5 DEF ServedUnlessRaced, Excused, Dots, DownloadKnows
<1> QED BY <1>2, <1>3, <1>4, <1>6, <1>7 DEF FilesSafe

\* An item has succeeded if and only if the provider answered it with an image,
\* its file is its own until somebody removes it, and a download that ends as
\* announced is whole, unless two builds of the archive overlapped; what fails is
\* a removal's, an overlap's or an id's with two dots (batch_images.rs).
THEOREM FilesCorrect == FileSpec => []FilesSafe
<1>1. FileInit => FileInv BY FileInitInv, DownloadInitInv DEF FileInv
<1>2. FileInv /\ [FileNext]_fileVars => FileInv' BY FileInvStep
<1>3. FileInv => FilesSafe BY FileInvSafe
<1> QED BY <1>1, <1>2, <1>3, PTL DEF FileSpec

-----------------------------------------------------------------------------
(*                    The provider of a batch's images                     *)

AtMostOne(S) == {{}} \cup {{x} : x \in S}
InputRows == [kind : Kinds, base : Urls, key : Nat, account : Nat, tokenUrl : Urls]
ImageJobRows ==
  [state : {"none", "active", "over"}, kind : Kinds, base : Urls, tokenUrl : Urls, sentTo : Urls, called : Urls]
TokenRows == [by : Nat \X Urls, issued : Nat, life : Nat, until : Nat]
CallPlaces == {"idle", "insert", "credential", "ask", "answer", "send", "sent"}
CallRows ==
  [pc : CallPlaces, job : AtMostOne(ImageJobs), row : AtMostOne(ProviderRows), token : AtMostOne(TokenRows), picked : Nat]
EditRows == [pc : {"idle", "write", "forget", "delete"}, row : AtMostOne([given : InputRows, row : ProviderRows])]

ProviderTypes ==
  /\ imageProvider \in ProviderRows /\ imageBudget \in ImageBudgets /\ minute \in Nat
  /\ lastGiven \in [key : Nat, account : Nat, mixed : BOOLEAN]
  /\ imageJobs \in [ImageJobs -> ImageJobRows]
  /\ vertexTokens \in AtMostOne(TokenRows)
  /\ callers \in [Callers -> CallRows] /\ editors \in [Editors -> EditRows]

LEMMA CachedForMore == ASSUME NEW life \in Nat PROVE TokenCachedFor(life) \in Nat /\ TokenCachedFor(life) > 0
                                                  /\ (life >= TokenFloor => TokenCachedFor(life) = life - TokenMargin)
<1>1. Max({life, TokenFloor}) = IF life >= TokenFloor THEN life ELSE TokenFloor BY TokenAssumption DEF Max
<1> QED BY <1>1, TokenAssumption DEF TokenCachedFor

LEMMA BudgetSpent ==
  ASSUME ProviderTypes,
         NEW which \in {"edits", "deletions", "submits", "polls", "probes", "requests", "minutes", "restarts"},
         ImageSpend(which)
  PROVE  imageBudget' \in ImageBudgets
BY DEF ProviderTypes, ImageSpend, ImageBudgets

LEMMA InputsTyped == ASSUME ProviderTypes PROVE ProviderInputs \subseteq InputRows
<1>1. imageBudget.bases \subseteq Urls /\ imageBudget.endpoints \subseteq Urls /\ imageBudget.credentials \subseteq Nat
  BY DEF ProviderTypes, ImageBudgets
<1>2. GeminiUrl \in Urls /\ "google" \in Urls BY DEF Urls
<1>3. \A b \in Urls, k \in Nat : GeminiInput(b, k) \in InputRows BY <1>2 DEF InputRows, Kinds, GeminiInput
<1>4. \A b \in Urls, k \in Nat, t \in Urls : VertexInput(b, k, t) \in InputRows BY DEF VertexInput, InputRows, Kinds
<1> QED BY <1>1, <1>3, <1>4 DEF ProviderInputs

LEMMA RowTyped ==
  ASSUME NEW i \in InputRows, NEW k \in Nat, NEW a \in Nat
  PROVE  /\ Row(i, k, a) \in ProviderRows /\ Row(i, k, a).state = "there" /\ Row(i, k, a).kind = i.kind
         /\ Row(i, k, a).key = k /\ Row(i, k, a).account = a
BY DEF InputRows, ProviderRows, Row

LEMMA GivenOrNat == ASSUME NEW i \in Nat, NEW k \in Nat PROVE GivenOr(i, k) \in Nat /\ (k # 0 => GivenOr(i, k) # 0)
BY DEF GivenOr

LEMMA CallFields ==
  ASSUME ProviderTypes, NEW c \in Callers
  PROVE  /\ callers[c] \in CallRows /\ callers[c].pc \in CallPlaces
         /\ callers[c].job \in AtMostOne(ImageJobs) /\ callers[c].row \in AtMostOne(ProviderRows)
         /\ callers[c].row \subseteq ProviderRows /\ callers[c].job \subseteq ImageJobs
         /\ callers[c].token \in AtMostOne(TokenRows) /\ callers[c].token \subseteq TokenRows
         /\ callers[c].picked \in Nat
BY DEF ProviderTypes, CallRows, AtMostOne

LEMMA CallTyped ==
  ASSUME ProviderTypes, NEW c \in Callers, NEW next \in CallRows, callers' = [callers EXCEPT ![c] = next]
  PROVE  callers' \in [Callers -> CallRows] /\ callers'[c] = next /\ \A d \in Callers \ {c} : callers'[d] = callers[d]
BY DEF ProviderTypes

LEMMA EditTyped ==
  ASSUME ProviderTypes, NEW e \in Editors, NEW next \in EditRows, editors' = [editors EXCEPT ![e] = next]
  PROVE  editors' \in [Editors -> EditRows] /\ editors'[e] = next /\ \A x \in Editors \ {e} : editors'[x] = editors[x]
BY SMTT(30) DEF ProviderTypes

LEMMA Idle ==
  /\ NoCall \in CallRows /\ NoCall.pc = "idle" /\ NoCall.job = {} /\ NoCall.row = {} /\ NoCall.token = {}
  /\ NoEdit \in EditRows /\ NoEdit.pc = "idle" /\ NoEdit.row = {}
  /\ \A pc \in {"forget", "delete"} : [NoEdit EXCEPT !.pc = pc] \in EditRows /\ [NoEdit EXCEPT !.pc = pc].pc = pc
  /\ \A row \in ProviderRows : [NoCall EXCEPT !.pc = "credential", !.row = {row}] \in CallRows
  /\ \A row \in ProviderRows, j \in ImageJobs :
       /\ [NoCall EXCEPT !.pc = "insert", !.job = {j}, !.row = {row}] \in CallRows
       /\ [NoCall EXCEPT !.pc = "credential", !.job = {j}, !.row = {row}] \in CallRows
  /\ NoImageJob \in ImageJobRows
BY ZenonT(60) DEF NoCall, NoEdit, CallRows, EditRows, CallPlaces, AtMostOne, NoImageJob, ImageJobRows, Kinds, Urls

LEMMA SnapshotTyped ==
  ASSUME ProviderTypes, NEW j \in ImageJobs
  PROVE  /\ Snapshot(j) \in ProviderRows /\ Snapshot(j).kind = imageJobs[j].kind
         /\ imageJobs[j].base # "" => Snapshot(j).base = imageJobs[j].base
BY DEF ProviderTypes, Snapshot, ProviderRows, ImageJobRows

LEMMA ProviderInitTypes == ImageInit => ProviderTypes
<1> SUFFICES ASSUME ImageInit PROVE ProviderTypes OBVIOUS
<1>1. PICK g \in ProviderStarts : imageProvider = g.row /\ imageBudget = g.budget BY DEF ImageInit
<1>2. imageProvider \in ProviderRows /\ imageBudget \in ImageBudgets BY <1>1, ProviderAssumption
<1>3. lastGiven \in [key : Nat, account : Nat, mixed : BOOLEAN] BY <1>2 DEF ImageInit, ProviderRows
<1> QED BY <1>2, <1>3, Idle DEF ImageInit, ProviderTypes, AtMostOne

LEMMA ProviderTypesStep == ProviderTypes /\ [ImageNext]_imageVars => ProviderTypes'
<1> SUFFICES ASSUME ProviderTypes, [ImageNext]_imageVars PROVE ProviderTypes' OBVIOUS
<1>1. CASE UNCHANGED imageVars BY <1>1 DEF imageVars, ProviderTypes
<1>2. ASSUME NEW e \in Editors, CreateProvider(e) PROVE ProviderTypes'
  BY <1>2, InputsTyped, RowTyped, BudgetSpent DEF CreateProvider, InputRows, ProviderTypes
<1>3. ASSUME NEW e \in Editors, UpdateRead(e) PROVE ProviderTypes'
  <2>1. PICK i \in ProviderInputs : \E row :
          /\ row = Row(i, GivenOr(i.key, imageProvider.key), GivenOr(i.account, imageProvider.account))
          /\ Editing(e, [pc |-> "write", row |-> {[given |-> i, row |-> row]}])
    BY <1>3 DEF UpdateRead
  <2>9. PICK row :
          /\ row = Row(i, GivenOr(i.key, imageProvider.key), GivenOr(i.account, imageProvider.account))
          /\ Editing(e, [pc |-> "write", row |-> {[given |-> i, row |-> row]}])
    BY <2>1
  <2>2. i \in InputRows /\ i.key \in Nat /\ i.account \in Nat BY <2>1, InputsTyped DEF InputRows
  <2>3. imageProvider.key \in Nat /\ imageProvider.account \in Nat BY DEF ProviderTypes, ProviderRows
  <2>4. row \in ProviderRows BY <2>2, <2>3, <2>9, GivenOrNat, RowTyped
  <2>5. [pc |-> "write", row |-> {[given |-> i, row |-> row]}] \in EditRows BY <2>2, <2>4 DEF EditRows, AtMostOne
  <2>6. editors' \in [Editors -> EditRows] BY <2>5, <2>9, EditTyped DEF Editing
  <2>7. imageBudget' \in ImageBudgets BY <1>3, BudgetSpent DEF UpdateRead
  <2>8. lastGiven' \in [key : Nat, account : Nat, mixed : BOOLEAN] BY <1>3 DEF OthersEditing, UpdateRead, ProviderTypes
  <2> QED BY <1>3, <2>6, <2>7, <2>8 DEF UpdateRead, ProviderTypes
<1>4. ASSUME NEW e \in Editors, UpdateWrite(e) PROVE ProviderTypes'
  <2>1. PICK edit \in editors[e].row :
          IF imageProvider.state # "there" THEN UNCHANGED <<imageProvider, lastGiven>>
          ELSE /\ imageProvider' = edit.row
               /\ lastGiven' = [lastGiven EXCEPT !.key = GivenOr(edit.given.key, @), !.account = GivenOr(edit.given.account, @)]
    BY <1>4 DEF UpdateWrite
  <2>2. edit.given.key \in Nat /\ edit.given.account \in Nat /\ edit.row \in ProviderRows
    BY <2>1 DEF ProviderTypes, EditRows, AtMostOne, InputRows
  <2>3. lastGiven.key \in Nat /\ lastGiven.account \in Nat BY DEF ProviderTypes
  <2>4. GivenOr(edit.given.key, lastGiven.key) \in Nat /\ GivenOr(edit.given.account, lastGiven.account) \in Nat
    BY <2>2, <2>3, GivenOrNat
  <2>5. imageProvider' \in ProviderRows /\ lastGiven' \in [key : Nat, account : Nat, mixed : BOOLEAN]
    BY <2>1, <2>2, <2>4 DEF ProviderTypes
  <2>6. editors' \in [Editors -> EditRows] BY <1>4, Idle, EditTyped DEF UpdateWrite, Editing
  <2> QED BY <1>4, <2>5, <2>6 DEF UpdateWrite, ProviderTypes
<1>5. ASSUME NEW e \in Editors, ForgetToken(e) PROVE ProviderTypes'
  BY <1>5, Idle, EditTyped DEF ForgetToken, Editing, ProviderTypes, AtMostOne
<1>6. ASSUME NEW e \in Editors, DeleteCount(e) PROVE ProviderTypes'
  BY <1>6, Idle, EditTyped, BudgetSpent DEF DeleteCount, Editing, ProviderTypes
<1>7. ASSUME NEW e \in Editors, DeleteRow(e) PROVE ProviderTypes'
  <2>1. editors' \in [Editors -> EditRows] BY <1>7, Idle, EditTyped DEF DeleteRow, Editing
  <2>2. imageProvider' \in ProviderRows BY <1>7 DEF DeleteRow, ProviderTypes, ProviderRows
  <2> QED BY SMTT(30), <1>7, <2>1, <2>2 DEF DeleteRow, ProviderTypes
<1>8. ASSUME NEW c \in Callers, SubmitRead(c) \/ PollRead(c) \/ ProbeRead(c) PROVE ProviderTypes'
  <2>4. imageProvider \in ProviderRows BY SMTT(30) DEF ProviderTypes
  <2>5. SubmitRead(c) => \E next \in CallRows : callers' = [callers EXCEPT ![c] = next] BY ZenonT(60), <2>4, Idle DEF SubmitRead, Call
  <2>6. PollRead(c) => \E next \in CallRows : callers' = [callers EXCEPT ![c] = next]
    BY ZenonT(60), Idle, SnapshotTyped DEF PollRead, Call
  <2>7. ProbeRead(c) => \E next \in CallRows : callers' = [callers EXCEPT ![c] = next] BY <2>4, Idle DEF ProbeRead, Call
  <2>1. PICK next \in CallRows : callers' = [callers EXCEPT ![c] = next] BY <1>8, <2>5, <2>6, <2>7
  <2>2. imageBudget' \in ImageBudgets BY <1>8, BudgetSpent DEF SubmitRead, PollRead, ProbeRead
  <2>3. callers' \in [Callers -> CallRows] BY <2>1, CallTyped
  <2> QED BY <1>8, <2>2, <2>3 DEF SubmitRead, PollRead, ProbeRead, ProviderTypes
<1>9. ASSUME NEW c \in Callers, SubmitInsert(c) PROVE ProviderTypes'
  <2>1. PICK j \in callers[c].job, row \in callers[c].row :
          IF imageProvider.state # "there" THEN CallEnds(c) /\ UNCHANGED imageJobs
          ELSE /\ imageJobs' = [imageJobs EXCEPT ![j] = [NoImageJob EXCEPT !.state = "active", !.kind = row.kind,
                                                           !.base = row.base, !.tokenUrl = row.tokenUrl]]
               /\ Call(c, [callers[c] EXCEPT !.pc = "credential"])
    BY <1>9 DEF SubmitInsert
  <2>2. row \in ProviderRows /\ j \in ImageJobs BY <2>1, CallFields
  <2>3. [NoImageJob EXCEPT !.state = "active", !.kind = row.kind, !.base = row.base, !.tokenUrl = row.tokenUrl] \in ImageJobRows
    BY <2>2, Idle DEF ImageJobRows, ProviderRows
  <2>4. imageJobs' \in [ImageJobs -> ImageJobRows] BY <2>1, <2>2, <2>3 DEF ProviderTypes
  <2>5. [callers[c] EXCEPT !.pc = "credential"] \in CallRows BY SMTT(30), CallFields DEF CallRows, CallPlaces
  <2>6. callers' \in [Callers -> CallRows] BY <2>1, <2>5, Idle, CallTyped DEF Call, CallEnds
  <2> QED BY <1>9, <2>4, <2>6 DEF SubmitInsert, ProviderTypes
<1>10. ASSUME NEW c \in Callers, UseCredential(c) PROVE ProviderTypes'
  <2>1. PICK row \in callers[c].row, hits \in SUBSET vertexTokens :
           IF Credential(row, row.kind) = 0 THEN CallEnds(c)
           ELSE Call(c, CASE row.kind = "gemini" -> [callers[c] EXCEPT !.pc = "send"]
                          [] row.kind = "vertex" /\ hits = {} -> [callers[c] EXCEPT !.pc = "ask"]
                          [] OTHER -> [callers[c] EXCEPT !.pc = "send", !.token = hits, !.picked = minute])
    BY <1>10 DEF UseCredential
  <2>2. hits \in AtMostOne(TokenRows) /\ minute \in Nat BY <2>1 DEF ProviderTypes, AtMostOne
  <2>3. /\ [callers[c] EXCEPT !.pc = "send"] \in CallRows /\ [callers[c] EXCEPT !.pc = "ask"] \in CallRows
        /\ [callers[c] EXCEPT !.pc = "send", !.token = hits, !.picked = minute] \in CallRows
    BY <2>2, CallFields DEF CallRows, CallPlaces
  <2>4. \E next \in CallRows : callers' = [callers EXCEPT ![c] = next] BY <2>1, <2>3, Idle DEF Call, CallEnds
  <2>5. callers' \in [Callers -> CallRows] BY <2>4, CallTyped
  <2> QED BY <1>10, <2>5 DEF UseCredential, ProviderTypes
<1>11. ASSUME NEW c \in Callers, TokenIssued(c) PROVE ProviderTypes'
  <2>1. ASSUME NEW row \in callers[c].row, NEW life \in TokenLives
        PROVE [callers[c] EXCEPT !.pc = "answer",
                 !.token = {[by |-> Fingerprint(row), issued |-> minute, life |-> life, until |-> 0]}] \in CallRows
    <3>1. row \in ProviderRows BY <2>1, CallFields
    <3>2. Fingerprint(row) \in Nat \X Urls BY <3>1 DEF Fingerprint, ProviderRows
    <3>3. life \in Nat /\ minute \in Nat BY TokenAssumption DEF ProviderTypes
    <3>4. [by |-> Fingerprint(row), issued |-> minute, life |-> life, until |-> 0] \in TokenRows BY SMTT(30), <3>2, <3>3 DEF TokenRows
    <3> QED BY <3>4, CallFields DEF CallRows, CallPlaces, AtMostOne
  <2>2. \E next \in CallRows : callers' = [callers EXCEPT ![c] = next] BY <1>11, <2>1, Idle DEF TokenIssued, Call, CallEnds
  <2>3. callers' \in [Callers -> CallRows] BY <2>2, CallTyped
  <2> QED BY <1>11, <2>3 DEF TokenIssued, ProviderTypes
<1>12. ASSUME NEW c \in Callers, TokenStored(c) PROVE ProviderTypes'
  <2>1. PICK tokens : /\ tokens = {[t EXCEPT !.until = minute + TokenCachedFor(t.life)] : t \in callers[c].token}
                      /\ vertexTokens' = tokens /\ Call(c, [callers[c] EXCEPT !.pc = "send", !.token = tokens, !.picked = minute])
    BY <1>12 DEF TokenStored
  <2>2. \A t \in TokenRows : [t EXCEPT !.until = minute + TokenCachedFor(t.life)] \in TokenRows
    BY CachedForMore DEF ProviderTypes, TokenRows
  <2>3. tokens \in AtMostOne(TokenRows)
    <3>1. CASE callers[c].token = {} BY <2>1, <3>1 DEF AtMostOne
    <3>2. CASE \E t \in TokenRows : callers[c].token = {t} BY <3>2, <2>1, <2>2 DEF AtMostOne
    <3> QED BY <3>1, <3>2, CallFields DEF AtMostOne
  <2>4. [callers[c] EXCEPT !.pc = "send", !.token = tokens, !.picked = minute] \in CallRows
    BY <2>3, CallFields DEF CallRows, CallPlaces, ProviderTypes
  <2>5. callers' \in [Callers -> CallRows] BY <2>1, <2>4, CallTyped DEF Call
  <2> QED BY <1>12, <2>1, <2>3, <2>5 DEF TokenStored, ProviderTypes
<1>13. ASSUME NEW c \in Callers, CallSends(c) PROVE ProviderTypes'
  <2>1. PICK row \in callers[c].row :
          imageJobs' = [j \in ImageJobs |->
                          IF j \notin callers[c].job THEN imageJobs[j]
                          ELSE [imageJobs[j] EXCEPT !.sentTo = IF @ = "" THEN Url(row) ELSE @, !.called = Url(row)]]
    BY <1>13 DEF CallSends
  <2>2. Url(row) \in Urls BY <2>1, CallFields DEF ProviderRows, Url, Urls
  <2>3. \A j \in ImageJobs : imageJobs[j] \in ImageJobRows BY DEF ProviderTypes
  <2>4. \A q \in ImageJobRows : [q EXCEPT !.sentTo = IF @ = "" THEN Url(row) ELSE @, !.called = Url(row)] \in ImageJobRows
    BY <2>2 DEF ImageJobRows
  <2>5. imageJobs' \in [ImageJobs -> ImageJobRows] BY <2>1, <2>3, <2>4
  <2>6. [callers[c] EXCEPT !.pc = "sent"] \in CallRows BY CallFields DEF CallRows, CallPlaces
  <2>7. callers' \in [Callers -> CallRows] BY <1>13, <2>6, CallTyped DEF CallSends, Call
  <2> QED BY ZenonT(60), <1>13, <2>5, <2>7 DEF CallSends, ProviderTypes
<1>14. ASSUME NEW c \in Callers, CallGoesOn(c) PROVE ProviderTypes'
  <2>1. [callers[c] EXCEPT !.pc = "send"] \in CallRows BY SMTT(30), CallFields DEF CallRows, CallPlaces
  <2>2. callers' \in [Callers -> CallRows] BY <1>14, <2>1, Idle, CallTyped DEF CallGoesOn, Call, CallEnds
  <2>3. imageBudget' \in ImageBudgets BY <1>14, BudgetSpent DEF CallGoesOn, ProviderTypes
  <2>4. \A j \in ImageJobs : [imageJobs EXCEPT ![j].state = "over"] \in [ImageJobs -> ImageJobRows]
    BY DEF ProviderTypes, ImageJobRows
  <2>5. imageJobs' \in [ImageJobs -> ImageJobRows] BY <1>14, <2>4, CallFields DEF CallGoesOn, ProviderTypes
  <2> QED BY <1>14, <2>2, <2>3, <2>5 DEF CallGoesOn, ProviderTypes
<1>15. CASE ProviderMinute BY SMTT(30), <1>15, BudgetSpent DEF ProviderMinute, ProviderTypes
<1>16. CASE ImageRestart
  <2>1. imageBudget' \in ImageBudgets BY SMTT(30), <1>16, BudgetSpent DEF ImageRestart
  <2> QED BY <1>16, <2>1, Idle DEF ImageRestart, ProviderTypes, AtMostOne
<1> QED BY <1>1, <1>2, <1>3, <1>4, <1>5, <1>6, <1>7, <1>8, <1>9, <1>10, <1>11, <1>12, <1>13, <1>14, <1>15, <1>16 DEF ImageNext

\* Editors leave calls and jobs alone; a minute too.
OnlyEdits ==
  \/ ProviderMinute
  \/ \E e \in Editors : CreateProvider(e) \/ UpdateRead(e) \/ UpdateWrite(e) \/ ForgetToken(e) \/ DeleteCount(e) \/ DeleteRow(e)
LEMMA EditsOnly == OnlyEdits => UNCHANGED <<imageJobs, callers>>
BY DEF OnlyEdits, ProviderMinute, CreateProvider, UpdateRead, UpdateWrite, ForgetToken, DeleteCount, DeleteRow

LEMMA ProviderSteps ==
  ASSUME [ImageNext]_imageVars
  PROVE  \/ UNCHANGED imageVars \/ OnlyEdits \/ ImageRestart
         \/ \E c \in Callers : \/ SubmitRead(c) \/ SubmitInsert(c) \/ PollRead(c) \/ ProbeRead(c) \/ UseCredential(c)
                               \/ TokenIssued(c) \/ TokenStored(c) \/ CallSends(c) \/ CallGoesOn(c)
BY DEF ImageNext, OnlyEdits

\* Until a call gives up or is told the token it keeps its job and its row.
LEMMA TokenSteps ==
  ASSUME ProviderTypes, NEW c \in Callers, UseCredential(c) \/ TokenIssued(c) \/ TokenStored(c)
  PROVE  /\ UNCHANGED <<imageJobs, imageProvider, lastGiven, editors>>
         /\ callers[c].pc \in {"credential", "ask", "answer"} /\ callers'[c].pc \in {"idle", "ask", "answer", "send"}
         /\ \/ callers'[c].pc = "idle" /\ callers'[c].job = {} /\ callers'[c].row = {}
            \/ callers'[c].pc # "idle" /\ callers'[c].job = callers[c].job /\ callers'[c].row = callers[c].row
         /\ \A d \in Callers \ {c} : callers'[d] = callers[d]
<1>1. callers \in [Callers -> CallRows] /\ callers[c] \in CallRows BY DEF ProviderTypes
<1>3. CASE UseCredential(c)
  <2>1. PICK row \in callers[c].row, hits \in SUBSET vertexTokens :
           IF Credential(row, row.kind) = 0 THEN CallEnds(c)
           ELSE Call(c, CASE row.kind = "gemini" -> [callers[c] EXCEPT !.pc = "send"]
                          [] row.kind = "vertex" /\ hits = {} -> [callers[c] EXCEPT !.pc = "ask"]
                          [] OTHER -> [callers[c] EXCEPT !.pc = "send", !.token = hits, !.picked = minute])
    BY ZenonT(60), <1>3 DEF UseCredential
  <2>2. CASE Credential(row, row.kind) = 0 BY <1>1, <1>3, <2>1, <2>2, Idle DEF UseCredential, Call, CallEnds
  <2>3. CASE Credential(row, row.kind) # 0 /\ row.kind = "gemini"
    <3>1. callers' = [callers EXCEPT ![c] = [callers[c] EXCEPT !.pc = "send"]] BY <2>1, <2>3 DEF Call
    <3> QED BY <1>1, <1>3, <3>1 DEF UseCredential, CallRows
  <2>4. CASE Credential(row, row.kind) # 0 /\ row.kind = "vertex" /\ hits = {}
    <3>1. callers' = [callers EXCEPT ![c] = [callers[c] EXCEPT !.pc = "ask"]] BY <2>1, <2>4 DEF Call
    <3> QED BY <1>1, <1>3, <3>1 DEF UseCredential, CallRows
  <2>5. CASE Credential(row, row.kind) # 0 /\ row.kind = "vertex" /\ hits # {}
    <3>1. callers' = [callers EXCEPT ![c] = [callers[c] EXCEPT !.pc = "send", !.token = hits, !.picked = minute]]
      BY <2>1, <2>5 DEF Call
    <3> QED BY <1>1, <1>3, <3>1 DEF UseCredential, CallRows
  <2>6. row.kind \in {"gemini", "vertex"} BY SMTT(30), <2>1, CallFields DEF ProviderRows, Kinds
  <2> QED BY <2>2, <2>3, <2>4, <2>5, <2>6
<1>4. CASE TokenIssued(c)
  <2>1. \/ callers' = [callers EXCEPT ![c] = NoCall]
        \/ \E token : callers' = [callers EXCEPT ![c] = [callers[c] EXCEPT !.pc = "answer", !.token = token]]
    BY ZenonT(60), <1>4 DEF TokenIssued, Call, CallEnds
  <2>2. CASE callers' = [callers EXCEPT ![c] = NoCall] BY <1>1, <1>4, <2>2, Idle DEF TokenIssued
  <2>3. ASSUME NEW token, callers' = [callers EXCEPT ![c] = [callers[c] EXCEPT !.pc = "answer", !.token = token]]
        PROVE  /\ callers'[c].pc = "answer" /\ callers'[c].job = callers[c].job /\ callers'[c].row = callers[c].row
               /\ \A d \in Callers \ {c} : callers'[d] = callers[d]
    BY SMTT(30), <1>1, <2>3 DEF CallRows
  <2> QED BY <1>4, <2>1, <2>2, <2>3 DEF TokenIssued
<1>5. CASE TokenStored(c) BY ZenonT(60), <1>1, <1>5, Idle DEF TokenStored, Call, CallEnds, CallRows
<1> QED BY <1>3, <1>4, <1>5

\* A job that a call is about to insert is the call's alone; later calls go by a
\* row that has the base URL the job has copied.
CallKnows(c) ==
  /\ callers[c].pc = "idle" => callers[c].job = {}
  /\ \A j \in callers[c].job :
       /\ callers[c].pc = "insert" => imageJobs[j].state = "none" /\ \A d \in Callers \ {c} : j \notin callers[d].job
       /\ callers[c].pc # "insert" =>
            /\ imageJobs[j].state # "none"
            /\ \A row \in callers[c].row : imageJobs[j].base # "" => row.base = imageJobs[j].base
JobRouted(j) ==
  /\ imageJobs[j].state = "none" => imageJobs[j].sentTo = ""
  /\ imageJobs[j].base # "" /\ imageJobs[j].sentTo # "" =>
       imageJobs[j].called = imageJobs[j].sentTo /\ imageJobs[j].sentTo = imageJobs[j].base
JobsRouted == (\A c \in Callers : CallKnows(c)) /\ (\A j \in ImageJobs : JobRouted(j))

LEMMA RoutedInit == ImageInit => JobsRouted
<1> SUFFICES ASSUME ImageInit PROVE JobsRouted OBVIOUS
<1>1. \A c \in Callers : callers[c].job = {} BY Idle DEF ImageInit
<1>2. NoImageJob.sentTo = "" BY DEF NoImageJob
<1>3. \A j \in ImageJobs : imageJobs[j].sentTo = "" BY <1>2 DEF ImageInit
<1> QED BY <1>1, <1>3 DEF JobsRouted, CallKnows, JobRouted

\* A call goes on with its job and its row, or has none any more.
SameCall(c) ==
  \/ callers'[c].job = {}
  \/ /\ callers'[c].job = callers[c].job /\ callers'[c].row = callers[c].row
     /\ callers'[c].pc # "idle" /\ (callers'[c].pc = "insert" <=> callers[c].pc = "insert")

LEMMA CallsKnow ==
  ASSUME JobsRouted, \A c \in Callers : SameCall(c),
         \A j \in ImageJobs : /\ imageJobs'[j].state = "none" <=> imageJobs[j].state = "none"
                              /\ imageJobs'[j].base = imageJobs[j].base,
         ProviderTypes
  PROVE  \A c \in Callers : CallKnows(c)'
<1> SUFFICES ASSUME NEW c \in Callers PROVE CallKnows(c)' OBVIOUS
<1>1. CallKnows(c) /\ SameCall(c) BY DEF JobsRouted
<1>2. callers[c].job \subseteq ImageJobs BY CallFields
<1>3. CASE callers'[c].job = {} BY <1>3 DEF CallKnows
<1>4. CASE callers'[c].job # {}
  <2>1. \A d \in Callers : callers'[d].job \subseteq callers[d].job BY DEF SameCall
  <2>2. /\ callers'[c].job = callers[c].job /\ callers'[c].row = callers[c].row
        /\ callers'[c].pc # "idle" /\ (callers'[c].pc = "insert" <=> callers[c].pc = "insert")
    BY <1>1, <1>4 DEF SameCall
  <2>3. ASSUME NEW j \in callers'[c].job
        PROVE  /\ callers'[c].pc = "insert" => imageJobs'[j].state = "none" /\ \A d \in Callers \ {c} : j \notin callers'[d].job
               /\ callers'[c].pc # "insert" =>
                    /\ imageJobs'[j].state # "none"
                    /\ \A row \in callers'[c].row : imageJobs'[j].base # "" => row.base = imageJobs'[j].base
    BY <1>1, <1>2, <2>1, <2>2 DEF CallKnows
  <2> QED BY <2>2, <2>3 DEF CallKnows
<1> QED BY <1>3, <1>4

\* A new call.
LEMMA CallBegins ==
  ASSUME ProviderTypes, JobsRouted, NEW c \in Callers, NEW next \in CallRows, callers[c].pc = "idle", UNCHANGED imageJobs,
         callers' = [callers EXCEPT ![c] = next], next.pc # "idle",
         \A j \in next.job :
           /\ next.pc = "insert" => imageJobs[j].state = "none" /\ \A d \in Callers : j \notin callers[d].job
           /\ next.pc # "insert" =>
                /\ imageJobs[j].state # "none"
                /\ \A row \in next.row : imageJobs[j].base # "" => row.base = imageJobs[j].base
  PROVE  JobsRouted'
<1>1. callers'[c] = next /\ \A d \in Callers \ {c} : callers'[d] = callers[d] BY CallTyped
<1>2. \A j \in ImageJobs : JobRouted(j)' BY DEF JobsRouted, JobRouted
<1>3. CallKnows(c)' BY <1>1 DEF CallKnows
<1>4. ASSUME NEW d \in Callers \ {c} PROVE CallKnows(d)'
  <2>1. CallKnows(d) /\ callers'[d] = callers[d] BY <1>1 DEF JobsRouted
  <2>2. ASSUME NEW j \in callers[d].job, callers[d].pc = "insert" PROVE j \notin next.job
    BY <2>1, <2>2 DEF CallKnows
  <2>3. ASSUME NEW j \in callers[d].job, callers[d].pc = "insert" PROVE \A b \in Callers \ {d} : j \notin callers'[b].job
    BY <1>1, <2>1, <2>2, <2>3 DEF CallKnows
  <2> QED BY <2>1, <2>3 DEF CallKnows
<1> QED BY <1>2, <1>3, <1>4 DEF JobsRouted

LEMMA RoutedStep == ProviderTypes /\ JobsRouted /\ [ImageNext]_imageVars => JobsRouted'
<1> SUFFICES ASSUME ProviderTypes, JobsRouted, [ImageNext]_imageVars PROVE JobsRouted' OBVIOUS
<1>0. /\ callers \in [Callers -> CallRows] /\ imageJobs \in [ImageJobs -> ImageJobRows]
      /\ \A c \in Callers : CallKnows(c)
      /\ \A j \in ImageJobs : JobRouted(j)
  BY DEF ProviderTypes, JobsRouted
<1>1. ASSUME UNCHANGED <<imageJobs, callers>> PROVE JobsRouted'
  BY ZenonT(60), <1>0, <1>1 DEF JobsRouted, CallKnows, JobRouted
<1>2. ASSUME UNCHANGED imageJobs, \A c \in Callers : SameCall(c) PROVE JobsRouted'
  BY <1>2, CallsKnow, <1>0 DEF JobRouted, JobsRouted
<1>3. ASSUME NEW c \in Callers, UseCredential(c) \/ TokenIssued(c) \/ TokenStored(c) PROVE JobsRouted'
  <2>1. UNCHANGED imageJobs /\ SameCall(c) BY <1>3, TokenSteps DEF SameCall
  <2>2. \A d \in Callers \ {c} : SameCall(d) BY <1>3, TokenSteps, <1>0 DEF SameCall, CallKnows
  <2> QED BY <1>2, <2>1, <2>2
<1>4. ASSUME NEW c \in Callers, SubmitRead(c) PROVE JobsRouted'
  <2>1. PICK j \in ImageJobs : /\ imageJobs[j].state = "none" /\ \A x \in Callers : j \notin callers[x].job
                               /\ callers' = [callers EXCEPT ![c] = [NoCall EXCEPT !.pc = "insert", !.job = {j}, !.row = {imageProvider}]]
    BY <1>4 DEF SubmitRead, Call
  <2> DEFINE next == [NoCall EXCEPT !.pc = "insert", !.job = {j}, !.row = {imageProvider}]
  <2>2. imageProvider \in ProviderRows BY SMTT(30) DEF ProviderTypes
  <2>3. next \in CallRows /\ next.pc = "insert" /\ next.job = {j} BY <2>2, Idle DEF NoCall
  <2>4. callers' = [callers EXCEPT ![c] = next] /\ callers[c].pc = "idle" /\ UNCHANGED imageJobs BY <1>4, <2>1 DEF SubmitRead
  <2> HIDE DEF next
  <2>5. \A i \in next.job : /\ imageJobs[i].state = "none" /\ \A d \in Callers : i \notin callers[d].job
                            /\ next.pc = "insert"
    BY <2>1, <2>3
  <2> QED BY <2>3, <2>4, <2>5, CallBegins
<1>5. ASSUME NEW c \in Callers, PollRead(c) PROVE JobsRouted'
  <2>1. PICK j \in ImageJobs : /\ imageJobs[j].state = "active"
                               /\ callers' = [callers EXCEPT ![c] = [NoCall EXCEPT !.pc = "credential", !.job = {j}, !.row = {Snapshot(j)}]]
    BY <1>5 DEF PollRead, Call
  <2> DEFINE next == [NoCall EXCEPT !.pc = "credential", !.job = {j}, !.row = {Snapshot(j)}]
  <2>2. Snapshot(j) \in ProviderRows /\ (imageJobs[j].base # "" => Snapshot(j).base = imageJobs[j].base) BY ZenonT(60), SnapshotTyped
  <2>3. next \in CallRows /\ next.pc = "credential" /\ next.job = {j} /\ next.row = {Snapshot(j)} BY <2>2, Idle DEF NoCall
  <2>4. callers' = [callers EXCEPT ![c] = next] /\ callers[c].pc = "idle" /\ UNCHANGED imageJobs BY <1>5, <2>1 DEF PollRead
  <2> HIDE DEF next
  <2>5. \A i \in next.job : /\ imageJobs[i].state # "none" /\ next.pc # "insert"
                            /\ \A row \in next.row : imageJobs[i].base # "" => row.base = imageJobs[i].base
    BY <2>1, <2>2, <2>3
  <2> QED BY <2>3, <2>4, <2>5, CallBegins
<1>6. ASSUME NEW c \in Callers, ProbeRead(c) PROVE JobsRouted'
  <2> DEFINE next == [NoCall EXCEPT !.pc = "credential", !.row = {imageProvider}]
  <2>2. imageProvider \in ProviderRows BY SMTT(30) DEF ProviderTypes
  <2>3. next \in CallRows /\ next.pc = "credential" /\ next.job = {} BY <2>2, Idle DEF NoCall
  <2>4. callers' = [callers EXCEPT ![c] = next] /\ callers[c].pc = "idle" /\ UNCHANGED imageJobs BY <1>6 DEF ProbeRead, Call
  <2> HIDE DEF next
  <2> QED BY <2>3, <2>4, CallBegins
<1>7. ASSUME NEW c \in Callers, SubmitInsert(c) PROVE JobsRouted'
  <2>1. PICK j \in callers[c].job, row \in callers[c].row :
          IF imageProvider.state # "there" THEN CallEnds(c) /\ UNCHANGED imageJobs
          ELSE /\ imageJobs' = [imageJobs EXCEPT ![j] = [NoImageJob EXCEPT !.state = "active", !.kind = row.kind,
                                                           !.base = row.base, !.tokenUrl = row.tokenUrl]]
               /\ Call(c, [callers[c] EXCEPT !.pc = "credential"])
    BY <1>7 DEF SubmitInsert
  <2>2. CASE imageProvider.state # "there" BY <1>0, <2>1, <2>2, Idle, <1>2 DEF SameCall, CallEnds, Call, CallKnows
  <2>3. CASE imageProvider.state = "there"
    <3> DEFINE q == [NoImageJob EXCEPT !.state = "active", !.kind = row.kind, !.base = row.base, !.tokenUrl = row.tokenUrl]
               next == [callers[c] EXCEPT !.pc = "credential"]
    <3>1. q.state = "active" /\ q.base = row.base /\ q.sentTo = "" BY DEF NoImageJob
    <3>2. next \in CallRows /\ next.pc = "credential" /\ next.job = callers[c].job /\ next.row = callers[c].row
      BY CallFields DEF CallRows, CallPlaces
    <3>3. imageJobs' = [imageJobs EXCEPT ![j] = q] /\ callers' = [callers EXCEPT ![c] = next] BY <2>1, <2>3 DEF Call
    <3> HIDE DEF q, next
    <3>4. callers'[c] = next /\ \A d \in Callers \ {c} : callers'[d] = callers[d] BY <3>2, <3>3, CallTyped
    <3>5. j \in ImageJobs /\ callers[c].job = {j} /\ callers[c].row = {row} BY <2>1, CallFields DEF AtMostOne
    <3>6. imageJobs'[j] = q /\ \A i \in ImageJobs \ {j} : imageJobs'[i] = imageJobs[i] BY <1>0, <3>3, <3>5
    <3>7. callers[c].pc = "insert" /\ \A d \in Callers \ {c} : j \notin callers[d].job BY <1>0, <1>7, <3>5 DEF CallKnows, SubmitInsert
    <3>8. \A i \in ImageJobs : JobRouted(i)' BY <1>0, <3>1, <3>6 DEF JobRouted
    <3>9. CallKnows(c)' BY <3>1, <3>2, <3>4, <3>5, <3>6 DEF CallKnows
    <3>10. ASSUME NEW d \in Callers \ {c} PROVE CallKnows(d)'
      <4>1. CallKnows(d) /\ callers'[d] = callers[d] BY <1>0, <3>4
      <4>2. \A i \in callers[d].job : i # j /\ imageJobs'[i] = imageJobs[i] BY <3>6, <3>7, CallFields
      <4>3. \A b \in Callers : callers'[b].job = callers[b].job BY <3>2, <3>4
      <4> QED BY ZenonT(60), <4>1, <4>2, <4>3 DEF CallKnows
    <3> QED BY <3>8, <3>9, <3>10 DEF JobsRouted
  <2> QED BY <2>2, <2>3
<1>8. ASSUME NEW c \in Callers, CallSends(c) PROVE JobsRouted'
  <2>1. PICK row \in callers[c].row :
          imageJobs' = [j \in ImageJobs |->
                          IF j \notin callers[c].job THEN imageJobs[j]
                          ELSE [imageJobs[j] EXCEPT !.sentTo = IF @ = "" THEN Url(row) ELSE @, !.called = Url(row)]]
    BY <1>8 DEF CallSends
  <2>2. callers' = [callers EXCEPT ![c] = [callers[c] EXCEPT !.pc = "sent"]] /\ callers[c].pc = "send"
    BY <1>8 DEF CallSends, Call
  <2>3. \A d \in Callers : SameCall(d) BY ZenonT(60), <1>0, <2>2 DEF SameCall, CallKnows, CallRows
  <2>4. ASSUME NEW j \in ImageJobs
        PROVE  /\ imageJobs'[j].state = imageJobs[j].state /\ imageJobs'[j].base = imageJobs[j].base
               /\ JobRouted(j)'
    <3>1. CASE j \notin callers[c].job BY <2>1, <3>1, <1>0 DEF JobRouted
    <3>2. CASE j \in callers[c].job
      <4> DEFINE u == Url(row)
                 v == IF imageJobs[j].sentTo = "" THEN u ELSE imageJobs[j].sentTo
                 q == [imageJobs[j] EXCEPT !.sentTo = v, !.called = u]
      <4>1. imageJobs'[j] = q BY <2>1, <3>2
      <4>2. imageJobs[j] \in ImageJobRows BY <1>0
      <4>3. q.state = imageJobs[j].state /\ q.base = imageJobs[j].base /\ q.sentTo = v /\ q.called = u
        BY <4>2 DEF ImageJobRows
      <4>4. imageJobs[j].state # "none" /\ (imageJobs[j].base # "" => row.base = imageJobs[j].base)
        BY <1>0, <2>1, <2>2, <3>2 DEF CallKnows
      <4>5. imageJobs[j].base # "" => u = imageJobs[j].base BY <4>4 DEF Url
      <4>6. JobRouted(j) BY <1>0
      <4> HIDE DEF q, u
      <4> QED BY <4>1, <4>3, <4>4, <4>5, <4>6 DEF JobRouted
    <3> QED BY <3>1, <3>2
  <2>5. \A d \in Callers : CallKnows(d)' BY <2>3, <2>4, CallsKnow
  <2> QED BY <2>4, <2>5 DEF JobsRouted
<1>9. ASSUME NEW c \in Callers, CallGoesOn(c) PROVE JobsRouted'
  <2>5. callers' = [callers EXCEPT ![c] = NoCall] \/ callers' = [callers EXCEPT ![c] = [callers[c] EXCEPT !.pc = "send"]]
    BY <1>9 DEF CallGoesOn, Call, CallEnds
  <2>6. callers[c].pc = "sent" BY <1>9 DEF CallGoesOn
  <2>1. \A d \in Callers : SameCall(d)
    <3>1. \A d \in Callers \ {c} : callers'[d] = callers[d] BY <1>0, <2>5
    <3>2. \A d \in Callers \ {c} : SameCall(d) BY <1>0, <3>1 DEF SameCall, CallKnows
    <3>4. callers[c] \in CallRows BY <1>0
    <3>5. ASSUME callers' = [callers EXCEPT ![c] = NoCall] PROVE SameCall(c) BY <1>0, <3>5, Idle DEF SameCall
    <3>6. ASSUME callers' = [callers EXCEPT ![c] = [callers[c] EXCEPT !.pc = "send"]] PROVE SameCall(c)
      BY <1>0, <3>6, <3>4, <2>6 DEF CallRows, SameCall
    <3>3. SameCall(c) BY <2>5, <3>5, <3>6
    <3> QED BY <3>2, <3>3
  <2>2. UNCHANGED imageJobs \/ \E j \in callers[c].job : imageJobs' = [imageJobs EXCEPT ![j].state = "over"]
    BY <1>9 DEF CallGoesOn
  <2>3. CASE UNCHANGED imageJobs BY <1>2, <2>1, <2>3
  <2>4. ASSUME NEW j \in callers[c].job, imageJobs' = [imageJobs EXCEPT ![j].state = "over"] PROVE JobsRouted'
    <3>1. j \in ImageJobs /\ imageJobs[j].state # "none" BY <1>0, <1>9, <2>4, CallFields DEF CallKnows, CallGoesOn
    <3>2. imageJobs[j] \in ImageJobRows BY <1>0, <3>1
    <3>3. \A i \in ImageJobs : /\ imageJobs'[i].state = "none" <=> imageJobs[i].state = "none"
                               /\ imageJobs'[i].base = imageJobs[i].base /\ imageJobs'[i].sentTo = imageJobs[i].sentTo
                               /\ imageJobs'[i].called = imageJobs[i].called
      BY <1>0, <2>4, <3>1, <3>2 DEF ImageJobRows
    <3>4. \A i \in ImageJobs : JobRouted(i)' BY ZenonT(60), <1>0, <3>3 DEF JobRouted
    <3>5. \A d \in Callers : CallKnows(d)' BY <2>1, <3>3, CallsKnow
    <3> QED BY <3>4, <3>5 DEF JobsRouted
  <2> QED BY <2>2, <2>3, <2>4
<1>10. CASE ImageRestart
  <2>1. UNCHANGED imageJobs /\ \A d \in Callers : SameCall(d) BY <1>10, Idle DEF ImageRestart, SameCall
  <2> QED BY <1>2, <2>1
<1>11. CASE UNCHANGED imageVars BY <1>1, <1>11 DEF imageVars
<1>12. CASE OnlyEdits BY <1>1, <1>12, EditsOnly
<1> QED BY <1>3, <1>4, <1>5, <1>6, <1>7, <1>8, <1>9, <1>10, <1>11, <1>12, ProviderSteps

-----------------------------------------------------------------------------
\* Before there is a provider nothing goes on; one with jobs is not deleted; what
\* it keeps can be used, and an edit that no other crossed writes what was given
\* over what is kept.
NothingYet == imageProvider.state = "none" => (\A e \in Editors : editors[e].pc = "idle") /\ \A c \in Callers : callers[c].pc = "idle"
JobsServed == \A j \in ImageJobs : imageJobs[j].state # "none" => imageProvider.state = "there"
RowUsable == imageProvider.state = "there" => Credential(imageProvider, imageProvider.kind) # 0
EditKnows(e) ==
  editors[e].pc = "write" =>
    \E given \in InputRows, row \in ProviderRows :
      /\ editors[e].row = {[given |-> given, row |-> row]}
      /\ row.state = "there" /\ Credential(row, row.kind) # 0
      /\ ~lastGiven.mixed => /\ row.key = GivenOr(given.key, imageProvider.key)
                             /\ row.account = GivenOr(given.account, imageProvider.account)
                             /\ \A x \in Editors \ {e} : editors[x].pc # "write"
CredentialsKnown ==
  ~lastGiven.mixed =>
    /\ \A j \in ImageJobs : imageJobs[j].state # "none" => Credential(imageProvider, imageJobs[j].kind) # 0
    /\ \A c \in Callers : \A row \in callers[c].row : callers[c].pc = "insert" => Credential(imageProvider, row.kind) # 0
ProviderKept ==
  NothingYet /\ JobsServed /\ RowUsable /\ CredentialsKept /\ (\A e \in Editors : EditKnows(e)) /\ CredentialsKnown

LEMMA KeptInit == ImageInit => ProviderKept
<1> SUFFICES ASSUME ImageInit PROVE ProviderKept OBVIOUS
<1>1. PICK g \in ProviderStarts : imageProvider = g.row BY DEF ImageInit
<1>2. imageProvider.state = "there" => Credential(imageProvider, imageProvider.kind) # 0 BY SMTT(30), <1>1, ProviderAssumption
<1>3. /\ \A e \in Editors : editors[e].pc = "idle"
      /\ \A c \in Callers : callers[c].pc = "idle"
  BY Idle DEF ImageInit
<1>4. NoImageJob.state = "none" BY DEF NoImageJob
<1>5. \A j \in ImageJobs : imageJobs[j].state = "none" BY <1>4 DEF ImageInit
<1>6. lastGiven.key = imageProvider.key /\ lastGiven.account = imageProvider.account BY DEF ImageInit
<1> QED BY <1>2, <1>3, <1>5, <1>6
    DEF ProviderKept, NothingYet, JobsServed, RowUsable, CredentialsKept, EditKnows, CredentialsKnown

\* Administrators do not take away a credential: what an edit leaves out stays.
LEMMA GivenKeeps ==
  ASSUME NEW row \in ProviderRows, NEW old \in ProviderRows, NEW given \in InputRows, NEW kind,
         row.key = GivenOr(given.key, old.key), row.account = GivenOr(given.account, old.account),
         Credential(old, kind) # 0
  PROVE  Credential(row, kind) # 0
BY GivenOrNat DEF Credential, ProviderRows, InputRows

\* Steps of calls.
LEMMA CallsKeep ==
  ASSUME ProviderTypes, JobsRouted, ProviderKept, UNCHANGED <<imageProvider, lastGiven, editors>>,
         \A j \in ImageJobs : imageJobs'[j].state # "none" =>
            /\ imageProvider.state = "there"
            /\ ~lastGiven.mixed => Credential(imageProvider, imageJobs'[j].kind) # 0,
         NEW c \in Callers,
         imageProvider.state = "none" => callers'[c].pc = "idle",
         \A d \in Callers \ {c} : callers'[d] = callers[d],
         callers'[c].pc = "insert" /\ ~lastGiven.mixed =>
           \A row \in callers'[c].row : Credential(imageProvider, row.kind) # 0
  PROVE  ProviderKept'
<1>1. NothingYet' BY DEF ProviderKept, NothingYet
<1>2. JobsServed' BY DEF JobsServed
<1>3. RowUsable' /\ CredentialsKept' BY DEF ProviderKept, RowUsable, CredentialsKept
<1>4. (\A e \in Editors : EditKnows(e))' BY DEF ProviderKept, EditKnows
<1>5. CredentialsKnown' BY DEF ProviderKept, CredentialsKnown
<1> QED BY <1>1, <1>2, <1>3, <1>4, <1>5 DEF ProviderKept

LEMMA KeptStep == ProviderTypes /\ JobsRouted /\ ProviderKept /\ [ImageNext]_imageVars => ProviderKept'
<1> SUFFICES ASSUME ProviderTypes, JobsRouted, ProviderKept, [ImageNext]_imageVars PROVE ProviderKept' OBVIOUS
<1>0. /\ imageProvider \in ProviderRows /\ editors \in [Editors -> EditRows] /\ callers \in [Callers -> CallRows]
      /\ imageJobs \in [ImageJobs -> ImageJobRows] /\ lastGiven \in [key : Nat, account : Nat, mixed : BOOLEAN]
      /\ NothingYet /\ JobsServed /\ RowUsable /\ CredentialsKept /\ (\A e \in Editors : EditKnows(e)) /\ CredentialsKnown
  BY DEF ProviderTypes, ProviderKept
<1>1. ASSUME UNCHANGED <<imageProvider, lastGiven, editors, callers, imageJobs>> PROVE ProviderKept'
  BY <1>0, <1>1 DEF ProviderKept, NothingYet, JobsServed, RowUsable, CredentialsKept, EditKnows, CredentialsKnown
<1>2. ASSUME NEW e \in Editors, CreateProvider(e) PROVE ProviderKept'
  <2>1. PICK i \in ProviderInputs :
          /\ Credential(i, i.kind) # 0
          /\ imageProvider' = Row(i, i.key, i.account) /\ lastGiven' = [key |-> i.key, account |-> i.account, mixed |-> FALSE]
    BY <1>2 DEF CreateProvider
  <2>2. i \in InputRows /\ i.key \in Nat /\ i.account \in Nat BY <2>1, InputsTyped DEF InputRows
  <2>3. /\ imageProvider'.state = "there" /\ imageProvider'.kind = i.kind
        /\ imageProvider'.key = i.key /\ imageProvider'.account = i.account
    BY <2>1, <2>2, RowTyped
  <2>4. UNCHANGED <<editors, callers, imageJobs>> /\ imageProvider.state = "none" BY <1>2 DEF CreateProvider
  <2>5. /\ \A x \in Editors : editors'[x].pc = "idle"
        /\ \A c \in Callers : callers'[c].pc = "idle"
        /\ \A j \in ImageJobs : imageJobs'[j].state = "none"
    BY <1>0, <2>4 DEF NothingYet, JobsServed
  <2>6. RowUsable' BY <2>1, <2>3 DEF RowUsable, Credential
  <2>7. CredentialsKept' BY <2>1, <2>3 DEF CredentialsKept
  <2> QED BY <2>3, <2>5, <2>6, <2>7 DEF ProviderKept, NothingYet, JobsServed, EditKnows, CredentialsKnown
<1>3. ASSUME NEW e \in Editors, UpdateRead(e) PROVE ProviderKept'
  <2>1. PICK i \in ProviderInputs : \E row :
          /\ row = Row(i, GivenOr(i.key, imageProvider.key), GivenOr(i.account, imageProvider.account))
          /\ Credential(row, row.kind) # 0 /\ Editing(e, [pc |-> "write", row |-> {[given |-> i, row |-> row]}])
    BY <1>3 DEF UpdateRead
  <2>2. PICK row :
          /\ row = Row(i, GivenOr(i.key, imageProvider.key), GivenOr(i.account, imageProvider.account))
          /\ Credential(row, row.kind) # 0 /\ Editing(e, [pc |-> "write", row |-> {[given |-> i, row |-> row]}])
    BY <2>1
  <2>3. i \in InputRows /\ i.key \in Nat /\ i.account \in Nat BY <2>1, InputsTyped DEF InputRows
  <2>4. imageProvider.key \in Nat /\ imageProvider.account \in Nat BY <1>0 DEF ProviderRows
  <2>15. GivenOr(i.key, imageProvider.key) \in Nat /\ GivenOr(i.account, imageProvider.account) \in Nat
    BY <2>3, <2>4, GivenOrNat
  <2>5. /\ row \in ProviderRows /\ row.state = "there" /\ row.key = GivenOr(i.key, imageProvider.key)
        /\ row.account = GivenOr(i.account, imageProvider.account)
    BY <2>2, <2>3, <2>15, RowTyped
  <2>6. [pc |-> "write", row |-> {[given |-> i, row |-> row]}] \in EditRows BY <2>3, <2>5 DEF EditRows, AtMostOne
  <2>7. editors'[e] = [pc |-> "write", row |-> {[given |-> i, row |-> row]}] /\ \A x \in Editors \ {e} : editors'[x] = editors[x]
    BY <2>2, <2>6, EditTyped DEF Editing
  <2>8. UNCHANGED <<imageProvider, imageJobs, callers>> /\ imageProvider.state = "there" BY <1>3 DEF UpdateRead
  <2>9. lastGiven' = [lastGiven EXCEPT !.mixed = @ \/ OthersEditing(e)] BY <1>3 DEF UpdateRead
  <2>10. /\ lastGiven'.key = lastGiven.key /\ lastGiven'.account = lastGiven.account
         /\ ~lastGiven'.mixed => ~lastGiven.mixed /\ ~OthersEditing(e)
    BY <1>0, <2>9
  <2>11. EditKnows(e)' BY <2>2, <2>3, <2>5, <2>7, <2>8, <2>10 DEF EditKnows, OthersEditing
  <2>12. ASSUME NEW x \in Editors \ {e} PROVE EditKnows(x)'
    <3>1. CASE editors[x].pc # "write" BY <2>7, <3>1 DEF EditKnows
    <3>2. CASE editors[x].pc = "write" BY <3>2, <1>0, <2>7, <2>10 DEF OthersEditing, EditKnows
    <3> QED BY <3>1, <3>2
  <2>13. NothingYet' /\ JobsServed' /\ RowUsable' BY <1>0, <2>8 DEF NothingYet, JobsServed, RowUsable
  <2>14. CredentialsKept' /\ CredentialsKnown' BY <1>0, <2>8, <2>10 DEF CredentialsKept, CredentialsKnown
  <2> QED BY <2>11, <2>12, <2>13, <2>14 DEF ProviderKept
<1>4. ASSUME NEW e \in Editors, UpdateWrite(e) PROVE ProviderKept'
  <2>1. PICK edit \in editors[e].row :
          IF imageProvider.state # "there" THEN UNCHANGED <<imageProvider, lastGiven>>
          ELSE /\ imageProvider' = edit.row
               /\ lastGiven' = [lastGiven EXCEPT !.key = GivenOr(edit.given.key, @), !.account = GivenOr(edit.given.account, @)]
    BY <1>4 DEF UpdateWrite
  <2>2. PICK given \in InputRows, row \in ProviderRows :
          /\ editors[e].row = {[given |-> given, row |-> row]}
          /\ row.state = "there" /\ Credential(row, row.kind) # 0
          /\ ~lastGiven.mixed => /\ row.key = GivenOr(given.key, imageProvider.key)
                                 /\ row.account = GivenOr(given.account, imageProvider.account)
                                 /\ \A x \in Editors \ {e} : editors[x].pc # "write"
    BY <1>0, <1>4 DEF EditKnows, UpdateWrite
  <2>3. edit.given = given /\ edit.row = row BY <2>1, <2>2
  <2>4. UNCHANGED <<imageJobs, callers>> /\ editors' = [editors EXCEPT ![e] = [NoEdit EXCEPT !.pc = "forget"]]
    BY SMTT(30), <1>4 DEF UpdateWrite, Editing
  <2>5. editors'[e].pc = "forget" /\ \A x \in Editors \ {e} : editors'[x] = editors[x] BY <2>4, Idle, EditTyped
  <2>6. imageProvider.state # "none" BY <1>0, <1>4 DEF NothingYet, UpdateWrite
  <2>7. CASE imageProvider.state # "there"
    <3>1. UNCHANGED <<imageProvider, lastGiven>> BY <2>1, <2>7
    <3>2. \A x \in Editors : EditKnows(x)' BY <1>0, <2>5, <3>1 DEF EditKnows
    <3>3. NothingYet' BY <2>6, <3>1 DEF NothingYet
    <3> QED BY <1>0, <2>4, <3>1, <3>2, <3>3 DEF ProviderKept, JobsServed, RowUsable, CredentialsKept, CredentialsKnown
  <2>8. CASE imageProvider.state = "there"
    <3>1. /\ imageProvider' = row /\ imageProvider'.state = "there"
          /\ lastGiven'.key = GivenOr(given.key, lastGiven.key) /\ lastGiven'.account = GivenOr(given.account, lastGiven.account)
          /\ lastGiven'.mixed = lastGiven.mixed
      BY <1>0, <2>1, <2>2, <2>3, <2>8
    <3>2. \A x \in Editors : EditKnows(x)' BY <1>0, <2>5, <3>1, <2>2 DEF EditKnows
    <3>3. NothingYet' /\ JobsServed' /\ RowUsable' BY <2>2, <3>1 DEF NothingYet, JobsServed, RowUsable
    <3>4. CredentialsKept' BY <1>0, <2>2, <2>8, <3>1 DEF CredentialsKept
    <3>5. CredentialsKnown'
      <4>1. ~lastGiven.mixed => \A kind \in Kinds : Credential(imageProvider, kind) # 0 => Credential(row, kind) # 0
        BY <1>0, <2>2, GivenKeeps
      <4>2. /\ \A j \in ImageJobs : imageJobs[j].kind \in Kinds
            /\ \A c \in Callers : \A q \in callers[c].row : q.kind \in Kinds
        BY <1>0, CallFields DEF ImageJobRows, ProviderRows
      <4> QED BY <1>0, <2>4, <3>1, <4>1, <4>2 DEF CredentialsKnown
    <3> QED BY <3>2, <3>3, <3>4, <3>5 DEF ProviderKept
  <2> QED BY <2>7, <2>8
<1>5. ASSUME NEW e \in Editors, ForgetToken(e) \/ DeleteCount(e) PROVE ProviderKept'
  <2>1. \E next \in EditRows : next.pc # "write" /\ editors' = [editors EXCEPT ![e] = next]
    BY <1>5, Idle DEF ForgetToken, DeleteCount, Editing
  <2>2. editors'[e].pc # "write" /\ \A x \in Editors \ {e} : editors'[x] = editors[x] BY <2>1, EditTyped
  <2>3. UNCHANGED <<imageProvider, lastGiven, imageJobs, callers>> BY <1>5 DEF ForgetToken, DeleteCount
  <2>4. imageProvider.state # "none" BY <1>0, <1>5 DEF NothingYet, ForgetToken, DeleteCount
  <2>5. \A x \in Editors : EditKnows(x)' BY <1>0, <2>2, <2>3 DEF EditKnows
  <2>6. NothingYet' BY <2>3, <2>4 DEF NothingYet
  <2> QED BY SMTT(30), <1>0, <2>3, <2>5, <2>6 DEF ProviderKept, JobsServed, RowUsable, CredentialsKept, CredentialsKnown
<1>6. ASSUME NEW e \in Editors, DeleteRow(e) PROVE ProviderKept'
  <2>1. \E next \in EditRows : next.pc # "write" /\ editors' = [editors EXCEPT ![e] = next]
    BY <1>6, Idle DEF DeleteRow, Editing
  <2>2. editors'[e].pc # "write" /\ \A x \in Editors \ {e} : editors'[x] = editors[x] BY <2>1, EditTyped
  <2>3. UNCHANGED <<lastGiven, imageJobs, callers>> BY <1>6 DEF DeleteRow
  <2>4. imageProvider.state # "none" BY <1>0, <1>6 DEF NothingYet, DeleteRow
  <2>5. /\ imageProvider'.state # "none" /\ imageProvider'.key = imageProvider.key /\ imageProvider'.account = imageProvider.account
        /\ imageProvider'.kind = imageProvider.kind
        /\ imageProvider'.state = "there" => imageProvider.state = "there"
        /\ imageProvider'.state = "there" \/ \A j \in ImageJobs : imageJobs[j].state = "none" \/ imageProvider.state # "there"
    BY <1>0, <1>6, <2>4 DEF DeleteRow, Referenced, ProviderRows
  <2>6. \A x \in Editors : EditKnows(x)' BY <1>0, <2>2, <2>3, <2>5 DEF EditKnows
  <2>7. NothingYet' BY <2>5 DEF NothingYet
  <2>8. JobsServed' BY <1>0, <2>3, <2>5 DEF JobsServed
  <2>9. RowUsable' /\ CredentialsKept' /\ CredentialsKnown'
    BY <1>0, <2>3, <2>5 DEF RowUsable, CredentialsKept, CredentialsKnown, Credential
  <2> QED BY SMTT(30), <2>6, <2>7, <2>8, <2>9 DEF ProviderKept
<1>7. ASSUME NEW c \in Callers, UNCHANGED <<imageProvider, lastGiven, editors, imageJobs>>,
             imageProvider.state = "none" => callers'[c].pc = "idle",
             \A d \in Callers \ {c} : callers'[d] = callers[d],
             callers'[c].pc = "insert" /\ ~lastGiven.mixed =>
               \A row \in callers'[c].row : Credential(imageProvider, row.kind) # 0
      PROVE  ProviderKept'
  BY <1>0, <1>7, CallsKeep DEF JobsServed, CredentialsKnown
<1>8. ASSUME NEW c \in Callers, SubmitRead(c) \/ PollRead(c) \/ ProbeRead(c) PROVE ProviderKept'
  <2>1. imageProvider.state = "there" BY <1>0, <1>8 DEF SubmitRead, PollRead, ProbeRead, JobsServed
  <2>2. UNCHANGED <<imageProvider, lastGiven, editors, imageJobs>> BY <1>8 DEF SubmitRead, PollRead, ProbeRead
  <2>3. imageProvider \in ProviderRows BY <1>0
  <2>4. \E next \in CallRows :
          callers' = [callers EXCEPT ![c] = next] /\ (next.pc = "insert" => next.row = {imageProvider})
    <3>1. CASE SubmitRead(c)
      <4>1. \A j : [NoCall EXCEPT !.pc = "insert", !.job = {j}, !.row = {imageProvider}].row = {imageProvider} BY DEF NoCall
      <4> QED BY ZenonT(60), <2>3, <3>1, <4>1, Idle DEF SubmitRead, Call
    <3>2. CASE PollRead(c)
      <4>1. \A j : [NoCall EXCEPT !.pc = "credential", !.job = {j}, !.row = {Snapshot(j)}].pc # "insert" BY DEF NoCall
      <4> QED BY ZenonT(60), <3>2, <4>1, Idle, SnapshotTyped DEF PollRead, Call
    <3>3. CASE ProbeRead(c)
      <4>1. [NoCall EXCEPT !.pc = "credential", !.row = {imageProvider}].pc # "insert" BY DEF NoCall
      <4> QED BY <2>3, <3>3, <4>1, Idle DEF ProbeRead, Call
    <3> QED BY SMTT(30), <1>8, <3>1, <3>2, <3>3
  <2>6. \A d \in Callers \ {c} : callers'[d] = callers[d] BY <2>4, CallTyped
  <2>5. callers'[c].pc = "insert" => callers'[c].row = {imageProvider} BY <2>4, CallTyped
  <2> QED BY <1>0, <1>7, <2>1, <2>2, <2>5, <2>6 DEF RowUsable
<1>9. ASSUME NEW c \in Callers, SubmitInsert(c) PROVE ProviderKept'
  <2>1. PICK j \in callers[c].job, row \in callers[c].row :
          IF imageProvider.state # "there" THEN CallEnds(c) /\ UNCHANGED imageJobs
          ELSE /\ imageJobs' = [imageJobs EXCEPT ![j] = [NoImageJob EXCEPT !.state = "active", !.kind = row.kind,
                                                           !.base = row.base, !.tokenUrl = row.tokenUrl]]
               /\ Call(c, [callers[c] EXCEPT !.pc = "credential"])
    BY <1>9 DEF SubmitInsert
  <2>2. callers[c].pc = "insert" /\ UNCHANGED <<imageProvider, lastGiven, editors>> BY <1>9 DEF SubmitInsert
  <2>3. \A d \in Callers \ {c} : callers'[d] = callers[d] BY SMTT(30), <1>0, <2>1 DEF Call, CallEnds
  <2>4. callers'[c].pc \in {"idle", "credential"}
    <3>1. callers[c] \in CallRows BY <1>0
    <3>2. [callers[c] EXCEPT !.pc = "credential"].pc = "credential" BY <3>1 DEF CallRows
    <3> QED BY <1>0, <2>1, <3>2, Idle DEF Call, CallEnds
  <2>5. imageProvider.state # "none" BY <1>0, <2>2 DEF NothingYet
  <2>6. CASE imageProvider.state # "there" BY <1>7, <2>1, <2>2, <2>3, <2>4, <2>5, <2>6
  <2>7. CASE imageProvider.state = "there"
    <3> DEFINE q == [NoImageJob EXCEPT !.state = "active", !.kind = row.kind, !.base = row.base, !.tokenUrl = row.tokenUrl]
    <3>1. q.kind = row.kind BY DEF NoImageJob
    <3>2. imageJobs' = [imageJobs EXCEPT ![j] = q] BY <2>1, <2>7
    <3> HIDE DEF q
    <3>3. j \in ImageJobs BY <2>1, CallFields
    <3>4. imageJobs'[j].kind = row.kind /\ \A i \in ImageJobs \ {j} : imageJobs'[i] = imageJobs[i] BY <1>0, <3>1, <3>2, <3>3
    <3>5. ~lastGiven.mixed => Credential(imageProvider, row.kind) # 0 BY <1>0, <2>1, <2>2 DEF CredentialsKnown
    <3>6. \A i \in ImageJobs : imageJobs'[i].state # "none" /\ ~lastGiven.mixed => Credential(imageProvider, imageJobs'[i].kind) # 0
      BY <1>0, <3>4, <3>5 DEF CredentialsKnown
    <3> QED BY <2>2, <2>3, <2>4, <2>5, <2>7, <3>6, CallsKeep
  <2> QED BY <2>6, <2>7
<1>10. ASSUME NEW c \in Callers, UseCredential(c) \/ TokenIssued(c) \/ TokenStored(c) PROVE ProviderKept'
  BY <1>10, TokenSteps, <1>0, <1>7 DEF NothingYet
<1>11. ASSUME NEW c \in Callers, CallSends(c) \/ CallGoesOn(c) PROVE ProviderKept'
  <2>1. /\ UNCHANGED <<imageProvider, lastGiven, editors>> /\ callers[c].pc \in {"send", "sent"}
        /\ \E next \in CallRows : next.pc \in {"idle", "send", "sent"} /\ callers' = [callers EXCEPT ![c] = next]
    <3>1. \A pc \in {"send", "sent"} : [callers[c] EXCEPT !.pc = pc] \in CallRows /\ [callers[c] EXCEPT !.pc = pc].pc = pc
      BY <1>0 DEF CallRows, CallPlaces
    <3> QED BY <1>11, <3>1, Idle DEF CallSends, CallGoesOn, Call, CallEnds
  <2>2. callers'[c].pc # "insert" /\ \A d \in Callers \ {c} : callers'[d] = callers[d] BY <2>1, CallTyped
  <2>3. imageProvider.state # "none" BY <1>0, <2>1 DEF NothingYet
  <2>4. \A j \in callers[c].job : j \in ImageJobs /\ imageJobs[j].state # "none"
    BY <1>0, <2>1, CallFields DEF JobsRouted, CallKnows
  <2>5. \A j \in ImageJobs : imageJobs'[j].kind = imageJobs[j].kind
                             /\ (imageJobs'[j].state # "none" => imageJobs[j].state # "none")
    <3>1. \A j \in ImageJobs : imageJobs[j] \in ImageJobRows BY <1>0
    <3>2. CASE CallSends(c)
      <4>1. PICK row \in callers[c].row :
              imageJobs' = [j \in ImageJobs |->
                              IF j \notin callers[c].job THEN imageJobs[j]
                              ELSE [imageJobs[j] EXCEPT !.sentTo = IF @ = "" THEN Url(row) ELSE @, !.called = Url(row)]]
        BY <3>2 DEF CallSends
      <4>2. \A q \in ImageJobRows : \A u, v : /\ [q EXCEPT !.sentTo = u, !.called = v].kind = q.kind
                                             /\ [q EXCEPT !.sentTo = u, !.called = v].state = q.state
        BY DEF ImageJobRows
      <4>3. ASSUME NEW j \in ImageJobs
            PROVE  imageJobs'[j].kind = imageJobs[j].kind /\ imageJobs'[j].state = imageJobs[j].state
        <5>1. CASE j \notin callers[c].job BY <4>1, <5>1
        <5>2. CASE j \in callers[c].job
          <6>1. imageJobs'[j] = [imageJobs[j] EXCEPT !.sentTo = IF @ = "" THEN Url(row) ELSE @, !.called = Url(row)]
            BY <4>1, <5>2
          <6> QED BY <3>1, <4>2, <6>1
        <5> QED BY <5>1, <5>2
      <4> QED BY SMTT(30), <4>3
    <3>3. CASE CallGoesOn(c) BY <3>3, <1>0, <2>4, <3>1 DEF CallGoesOn, ImageJobRows
    <3> QED BY <1>11, <3>2, <3>3
  <2>6. \A j \in ImageJobs : imageJobs'[j].state # "none" =>
            /\ imageProvider.state = "there"
            /\ ~lastGiven.mixed => Credential(imageProvider, imageJobs'[j].kind) # 0
    BY <1>0, <2>5 DEF JobsServed, CredentialsKnown
  <2> QED BY SMTT(30), <2>1, <2>2, <2>3, <2>6, CallsKeep
<1>12. CASE ImageRestart
  <2>1. /\ \A e \in Editors : editors'[e].pc = "idle"
        /\ \A c \in Callers : callers'[c].pc = "idle"
        /\ UNCHANGED <<imageProvider, lastGiven, imageJobs>>
    BY <1>12, Idle DEF ImageRestart
  <2> QED BY SMTT(30), <1>0, <2>1 DEF ProviderKept, NothingYet, JobsServed, RowUsable, CredentialsKept, EditKnows, CredentialsKnown
<1>13. CASE ProviderMinute \/ UNCHANGED imageVars BY <1>1, <1>13 DEF ProviderMinute, imageVars
<1>14. OnlyEdits => ProviderKept' BY SMTT(30), <1>2, <1>3, <1>4, <1>5, <1>6, <1>13 DEF OnlyEdits
<1> QED BY <1>8, <1>9, <1>10, <1>11, <1>12, <1>13, <1>14, ProviderSteps
-----------------------------------------------------------------------------
\* The token in a call's hands is its row's, and had life left when it was picked.
TokenHeld(c) ==
  /\ callers[c].pc \in {"insert", "credential", "ask"} => callers[c].token = {}
  /\ callers[c].pc \in {"answer", "send", "sent"} =>
       \A row \in callers[c].row : \A t \in callers[c].token : t.by = Fingerprint(row)
  /\ callers[c].pc \in {"send", "sent"} =>
       /\ \A row \in callers[c].row : row.kind = "vertex" => callers[c].token # {}
       /\ \A t \in callers[c].token : callers[c].picked < t.until
  /\ callers[c].pc = "answer" => callers[c].token # {}
TokensHeld == \A c \in Callers : TokenHeld(c)

LEMMA HeldInit == ImageInit => TokensHeld
BY Idle DEF ImageInit, TokensHeld, TokenHeld

LEMMA HeldStep == ProviderTypes /\ TokensHeld /\ [ImageNext]_imageVars => TokensHeld'
<1> SUFFICES ASSUME ProviderTypes, TokensHeld, [ImageNext]_imageVars PROVE TokensHeld' OBVIOUS
<1>0. /\ callers \in [Callers -> CallRows] /\ minute \in Nat /\ vertexTokens \subseteq TokenRows
      /\ \A c \in Callers : TokenHeld(c)
  BY DEF ProviderTypes, TokensHeld, AtMostOne
<1>1. ASSUME UNCHANGED callers PROVE TokensHeld' BY <1>0, <1>1 DEF TokensHeld, TokenHeld
<1>2. ASSUME NEW c \in Callers, NEW next, callers' = [callers EXCEPT ![c] = next], TokenHeld(c)' PROVE TokensHeld'
  BY SMTT(30), <1>0, <1>2 DEF TokensHeld, TokenHeld
<1>3. ASSUME NEW c \in Callers, callers' = [callers EXCEPT ![c] = NoCall] PROVE TokensHeld'
  BY <1>0, <1>3, Idle, <1>2 DEF TokenHeld
<1>4. ASSUME NEW c \in Callers, SubmitRead(c) \/ PollRead(c) \/ ProbeRead(c) PROVE TokensHeld'
  <2>2. ASSUME NEW next, callers' = [callers EXCEPT ![c] = next], next.token = {}, next.pc \in {"insert", "credential"}
        PROVE  TokensHeld'
    BY <1>0, <2>2, <1>2 DEF TokenHeld
  <2>3. CASE SubmitRead(c)
    <3>1. PICK j : callers' = [callers EXCEPT ![c] = [NoCall EXCEPT !.pc = "insert", !.job = {j}, !.row = {imageProvider}]]
      BY <2>3 DEF SubmitRead, Call
    <3> DEFINE next == [NoCall EXCEPT !.pc = "insert", !.job = {j}, !.row = {imageProvider}]
    <3>2. callers' = [callers EXCEPT ![c] = next] BY <3>1
    <3>3. next.token = {} /\ next.pc = "insert" BY DEF NoCall
    <3> HIDE DEF next
    <3> QED BY <2>2, <3>2, <3>3
  <2>4. CASE PollRead(c)
    <3>1. PICK j : callers' = [callers EXCEPT ![c] = [NoCall EXCEPT !.pc = "credential", !.job = {j}, !.row = {Snapshot(j)}]]
      BY <2>4 DEF PollRead, Call
    <3> DEFINE next == [NoCall EXCEPT !.pc = "credential", !.job = {j}, !.row = {Snapshot(j)}]
    <3>2. callers' = [callers EXCEPT ![c] = next] BY <3>1
    <3>3. next.token = {} /\ next.pc = "credential" BY DEF NoCall
    <3> HIDE DEF next
    <3> QED BY <2>2, <3>2, <3>3
  <2>5. CASE ProbeRead(c)
    <3> DEFINE next == [NoCall EXCEPT !.pc = "credential", !.row = {imageProvider}]
    <3>2. callers' = [callers EXCEPT ![c] = next] BY <2>5 DEF ProbeRead, Call
    <3>3. next.token = {} /\ next.pc = "credential" BY DEF NoCall
    <3> HIDE DEF next
    <3> QED BY <2>2, <3>2, <3>3
  <2> QED BY <1>4, <2>3, <2>4, <2>5
<1>5. ASSUME NEW c \in Callers, SubmitInsert(c) PROVE TokensHeld'
  <2>1. callers[c] \in CallRows /\ callers[c].pc = "insert" /\ TokenHeld(c) BY <1>0, <1>5 DEF SubmitInsert
  <2>2. callers' = [callers EXCEPT ![c] = NoCall] \/ callers' = [callers EXCEPT ![c] = [callers[c] EXCEPT !.pc = "credential"]]
    BY <1>5 DEF SubmitInsert, Call, CallEnds
  <2>3. ASSUME callers' = [callers EXCEPT ![c] = [callers[c] EXCEPT !.pc = "credential"]] PROVE TokensHeld'
    BY <1>0, <2>3, <2>1, <1>2 DEF CallRows, TokenHeld
  <2> QED BY <1>3, <2>2, <2>3
<1>6. ASSUME NEW c \in Callers, UseCredential(c) PROVE TokensHeld'
  <2>0. callers[c] \in CallRows /\ callers[c].pc = "credential" /\ TokenHeld(c) BY <1>0, <1>6 DEF UseCredential
  <2>1. PICK row \in callers[c].row, hits \in SUBSET vertexTokens :
          /\ hits = {t \in vertexTokens : t.by = Fingerprint(row) /\ t.until > minute}
          /\ IF Credential(row, row.kind) = 0 THEN CallEnds(c)
             ELSE Call(c, CASE row.kind = "gemini" -> [callers[c] EXCEPT !.pc = "send"]
                            [] row.kind = "vertex" /\ hits = {} -> [callers[c] EXCEPT !.pc = "ask"]
                            [] OTHER -> [callers[c] EXCEPT !.pc = "send", !.token = hits, !.picked = minute])
    BY <1>6 DEF UseCredential
  <2>2. row \in ProviderRows /\ callers[c].row = {row} BY <2>1, CallFields DEF AtMostOne
  <2>3. row.kind \in {"gemini", "vertex"} BY <2>2 DEF ProviderRows, Kinds
  <2>4. CASE Credential(row, row.kind) = 0 BY <1>3, <2>1, <2>4 DEF CallEnds, Call
  <2>5. CASE Credential(row, row.kind) # 0 /\ row.kind = "gemini"
    <3>1. callers' = [callers EXCEPT ![c] = [callers[c] EXCEPT !.pc = "send"]] BY <2>1, <2>5 DEF Call
    <3>2. callers'[c].pc = "send" /\ callers'[c].row = callers[c].row /\ callers'[c].token = callers[c].token
      BY <1>0, <2>0, <3>1 DEF CallRows
    <3>3. TokenHeld(c)' BY <2>0, <2>2, <2>5, <3>2 DEF TokenHeld
    <3> QED BY <1>2, <3>1, <3>3
  <2>6. CASE Credential(row, row.kind) # 0 /\ row.kind = "vertex" /\ hits = {}
    BY <2>1, <2>6, <1>0, <2>0, <1>2 DEF Call, CallRows, TokenHeld
  <2>7. CASE Credential(row, row.kind) # 0 /\ row.kind = "vertex" /\ hits # {}
    <3>1. callers' = [callers EXCEPT ![c] = [callers[c] EXCEPT !.pc = "send", !.token = hits, !.picked = minute]]
      BY <2>1, <2>7 DEF Call
    <3>2. callers'[c].pc = "send" /\ callers'[c].row = {row} /\ callers'[c].token = hits /\ callers'[c].picked = minute
      BY <1>0, <2>0, <2>2, <3>1 DEF CallRows
    <3>3. \A t \in hits : t.by = Fingerprint(row) /\ minute < t.until BY <1>0, <2>1 DEF TokenRows
    <3>4. TokenHeld(c)' BY <2>7, <3>2, <3>3 DEF TokenHeld
    <3> QED BY <1>2, <3>1, <3>4
  <2> QED BY <2>3, <2>4, <2>5, <2>6, <2>7
<1>7. ASSUME NEW c \in Callers, TokenIssued(c) PROVE TokensHeld'
  <2>1. callers[c] \in CallRows BY <1>0
  <2>2. ASSUME NEW row \in callers[c].row, NEW life \in TokenLives,
               callers' = [callers EXCEPT ![c] = [callers[c] EXCEPT !.pc = "answer",
                             !.token = {[by |-> Fingerprint(row), issued |-> minute, life |-> life, until |-> 0]}]]
        PROVE  TokensHeld'
    <3>1. PICK token : token = [by |-> Fingerprint(row), issued |-> minute, life |-> life, until |-> 0] OBVIOUS
    <3>2. callers' = [callers EXCEPT ![c] = [callers[c] EXCEPT !.pc = "answer", !.token = {token}]] BY <2>2, <3>1
    <3>3. callers'[c].pc = "answer" /\ callers'[c].row = callers[c].row /\ callers'[c].token = {token}
      BY <1>0, <2>1, <3>2 DEF CallRows
    <3>4. token.by = Fingerprint(row) /\ callers[c].row = {row} BY <3>1, CallFields DEF AtMostOne
    <3>5. TokenHeld(c)' BY <3>3, <3>4 DEF TokenHeld
    <3> QED BY <1>2, <3>2, <3>5
  <2> QED BY <1>3, <1>7, <2>2 DEF TokenIssued, Call, CallEnds
<1>8. ASSUME NEW c \in Callers, TokenStored(c) PROVE TokensHeld'
  <2>0. callers[c] \in CallRows /\ callers[c].pc = "answer" /\ TokenHeld(c) BY SMTT(30), <1>0, <1>8 DEF TokenStored
  <2>1. PICK tokens : /\ tokens = {[t EXCEPT !.until = minute + TokenCachedFor(t.life)] : t \in callers[c].token}
                      /\ callers' = [callers EXCEPT ![c] = [callers[c] EXCEPT !.pc = "send", !.token = tokens, !.picked = minute]]
    BY <1>8 DEF TokenStored, Call
  <2>2. callers'[c].pc = "send" /\ callers'[c].row = callers[c].row /\ callers'[c].token = tokens /\ callers'[c].picked = minute
    BY <1>0, <2>0, <2>1 DEF CallRows
  <2>3. PICK t \in TokenRows : callers[c].token = {t} BY <2>0, CallFields DEF TokenHeld, AtMostOne
  <2>4. PICK stored : stored = [t EXCEPT !.until = minute + TokenCachedFor(t.life)] OBVIOUS
  <2>5. tokens = {stored} BY <2>1, <2>3, <2>4
  <2>6. TokenCachedFor(t.life) \in Nat /\ TokenCachedFor(t.life) > 0 BY <2>3, CachedForMore DEF TokenRows
  <2>7. stored.by = t.by /\ stored.until = minute + TokenCachedFor(t.life) BY <2>3, <2>4 DEF TokenRows
  <2>8. minute < stored.until BY <1>0, <2>6, <2>7
  <2>9. \A row \in callers[c].row : t.by = Fingerprint(row) BY <2>0, <2>3 DEF TokenHeld
  <2>10. TokenHeld(c)' BY <2>2, <2>5, <2>7, <2>8, <2>9 DEF TokenHeld
  <2> QED BY <1>2, <2>1, <2>10
<1>9. ASSUME NEW c \in Callers, CallSends(c) \/ CallGoesOn(c) PROVE TokensHeld'
  <2>1. callers[c] \in CallRows /\ callers[c].pc \in {"send", "sent"} /\ TokenHeld(c) BY <1>0, <1>9 DEF CallSends, CallGoesOn
  <2>2. \/ callers' = [callers EXCEPT ![c] = NoCall]
        \/ \E pc \in {"send", "sent"} : callers' = [callers EXCEPT ![c] = [callers[c] EXCEPT !.pc = pc]]
    BY <1>9 DEF CallSends, CallGoesOn, Call, CallEnds
  <2>3. ASSUME NEW pc \in {"send", "sent"}, callers' = [callers EXCEPT ![c] = [callers[c] EXCEPT !.pc = pc]] PROVE TokensHeld'
    BY <1>0, <2>3, <2>1, <1>2 DEF CallRows, TokenHeld
  <2> QED BY <1>3, <2>2, <2>3
<1>10. CASE ImageRestart BY <1>10, Idle DEF ImageRestart, TokensHeld, TokenHeld
<1>11. CASE OnlyEdits \/ UNCHANGED imageVars BY <1>1, <1>11, EditsOnly DEF imageVars
<1> QED BY <1>4, <1>5, <1>6, <1>7, <1>8, <1>9, <1>10, <1>11, ProviderSteps

-----------------------------------------------------------------------------
ProviderInv == ProviderTypes /\ JobsRouted /\ ProviderKept /\ TokensHeld

LEMMA HeldAlive == ProviderTypes /\ TokensHeld => TokenFits /\ TokenAlive
<1> SUFFICES ASSUME ProviderTypes, TokensHeld, NEW c \in Sending
             PROVE  /\ \A row \in callers[c].row :
                         row.kind = "vertex" => callers[c].token # {} /\ \A t \in callers[c].token : t.by = Fingerprint(row)
                    /\ \A t \in callers[c].token :
                         t.life >= TokenFloor
                           /\ ((t.until - TokenCachedFor(t.life)) - t.issued) + (minute - callers[c].picked) <= TokenMargin
                         => minute < t.issued + t.life
  BY DEF TokenFits, TokenAlive
<1>1. c \in Callers /\ callers[c].pc = "send" /\ TokenHeld(c) BY DEF Sending, TokensHeld
<1>2. ASSUME NEW t \in callers[c].token, t.life >= TokenFloor,
             ((t.until - TokenCachedFor(t.life)) - t.issued) + (minute - callers[c].picked) <= TokenMargin
      PROVE  minute < t.issued + t.life
  BY <1>1, CallFields, <1>2, CachedForMore, TokenAssumption DEF TokenRows, TokenHeld, ProviderTypes
<1> QED BY <1>1, <1>2 DEF TokenHeld

LEMMA ProviderSafe == ProviderInv => ProvidersSafe
<1> SUFFICES ASSUME ProviderInv PROVE ProvidersSafe OBVIOUS
<1>0. ProviderTypes /\ JobsRouted /\ ProviderKept /\ TokensHeld BY DEF ProviderInv
<1>1. ImageTypeOK
  <2>1. Cardinality(vertexTokens) <= 1
    <3>1. CASE vertexTokens = {} BY <3>1, FS_EmptySet
    <3>2. ASSUME NEW t, vertexTokens = {t} PROVE Cardinality(vertexTokens) <= 1
      <4>1. Cardinality({t}) = 1 BY FS_Singleton
      <4> QED BY <3>2, <4>1
    <3> QED BY <1>0, <3>1, <3>2 DEF ProviderTypes, AtMostOne
  <2>2. imageProvider.state \in {"none", "there", "gone"} /\ imageProvider.kind \in Kinds
    BY <1>0 DEF ProviderTypes, ProviderRows
  <2>3. \A j \in ImageJobs : imageJobs[j].state \in {"none", "active", "over"} BY <1>0 DEF ProviderTypes, ImageJobRows
  <2>4. \A c \in Callers : callers[c].pc \in CallPlaces BY <1>0, CallFields
  <2> QED BY <2>1, <2>2, <2>3, <2>4 DEF ImageTypeOK, CallPlaces
<1>2. TokenFits /\ TokenAlive BY <1>0, HeldAlive
<1>3. JobsKeepCredentials BY <1>0 DEF JobsKeepCredentials, ProviderKept, JobsServed, CredentialsKnown
<1>4. RoutesKept BY <1>0 DEF RoutesKept, JobsRouted, JobRouted
<1> QED BY <1>0, <1>1, <1>2, <1>3, <1>4 DEF ProvidersSafe, ProviderKept

\* For any numbers of editors, calls and jobs and whatever administrators enter:
\* no edit, late answer or restart makes a call send another account's token, and
\* none that is alive by the margin has ended; a job's provider stays with a
\* credential of the job's kind unless two edits crossed, and a job that has copied
\* a base URL is sent to it alone (update_provider, vertex_access_token, JOB_SELECT).
THEOREM ProvidersCorrect == ImageSpec => []ProvidersSafe
<1>1. ImageInit => ProviderInv BY ProviderInitTypes, RoutedInit, KeptInit, HeldInit DEF ProviderInv
<1>2. ProviderInv /\ [ImageNext]_imageVars => ProviderInv'
  BY ProviderTypesStep, RoutedStep, KeptStep, HeldStep DEF ProviderInv
<1> QED BY <1>1, <1>2, ProviderSafe, PTL DEF ImageSpec
=============================================================================
