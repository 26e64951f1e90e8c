--------------------------- MODULE MatchingProofs ---------------------------
(***************************************************************************)
(* What the matching of a statement does for any number of lines, in any    *)
(* books: the closest candidate exists, every line is resolved with what    *)
(* the lines before it left over, and no two lines claim the same row.      *)
(***************************************************************************)
EXTENDS ImportMatching, FiniteSetTheorems, WellFoundedInduction, TLAPS

\* A set of naturals has a least element.
LEMMA LeastFound ==
    ASSUME NEW T \in SUBSET Nat, T # {}
    PROVE  \E x \in T : \A y \in T : x <= y
<1>1. \A x, y \in Nat : x < y <=> <<x, y>> \in OpToRel(<, Nat)
    BY DEF OpToRel
<1>2. \E R, S : S = Nat /\ IsWellFoundedOn(R, S) /\ \A x, y \in Nat : x < y <=> <<x, y>> \in R
    BY Zenon, <1>1, NatLessThanWellFounded
<1>3. PICK R, S : S = Nat /\ IsWellFoundedOn(R, S) /\ \A x, y \in Nat : x < y <=> <<x, y>> \in R
    BY <1>2
<1>4. IsWellFoundedOn(R, S) /\ T \subseteq S
    BY <1>3
<1>5. PICK x \in T : \A y \in T : ~(<<y, x>> \in R)
    BY Zenon, <1>4, WFMin
<1>6. \A y \in T : ~(y < x)
    BY <1>3, <1>5
<1>. QED BY <1>6

\* Of several things, each with a natural number, some have the least number.
LEMMA LeastRanked ==
    ASSUME NEW S, S # {}, NEW rank, \A x \in S : rank[x] \in Nat
    PROVE  \E x \in S : \A y \in S : rank[x] <= rank[y]
<1>. DEFINE T == {rank[x] : x \in S}
<1>1. T \in SUBSET Nat /\ T # {}
    OBVIOUS
<1>2. PICK n \in T : \A k \in T : n <= k
    BY <1>1, LeastFound
<1>. QED BY <1>2

-----------------------------------------------------------------------------
(* pickClosest *)

\* What the candidates of a line look like.
Kinds == {"TRANSACTION", "TRANSFER_MIRROR", "BILL", "OWN_TRANSFER"}
Readable(line, matches) ==
    /\ line.day \in Int
    /\ \A m \in matches : m.day \in Int /\ m.id \in Nat /\ m.kind \in Kinds

\* pickClosest: whatever the candidates, there is a closest one, and it is one of
\* them. Candidates of the same row are as close as each other.
LEMMA ClosestFound ==
    ASSUME NEW line, NEW matches, matches # {}, Readable(line, matches)
    PROVE  PickClosest(line, matches) \in matches
<1>. DEFINE far == [m \in matches |-> Distance(m.day, line.day)]
            said == [m \in matches |-> IF m.text = line.text THEN 0 ELSE 1]
            paid == [m \in matches |-> IF m.kind = "BILL" THEN 0 ELSE 1]
            known == [m \in matches |-> m.id]
<1>1. \A m \in matches : far[m] \in Nat /\ said[m] \in Nat /\ paid[m] \in Nat /\ known[m] \in Nat
    BY DEF Readable, Distance
<1>2. \A m \in matches : Ranks(line, m) = <<far[m], said[m], paid[m], known[m]>>
    BY DEF Ranks
<1>3. \A m, n \in matches : paid[m] = paid[n] /\ known[m] = known[n] => ClaimKey(m) = ClaimKey(n)
    BY DEF ClaimKey
<1>. HIDE DEF far, said, paid, known
<1>4. PICK w1 \in matches : \A y \in matches : far[w1] <= far[y]
    BY <1>1, LeastRanked
<1>. DEFINE S1 == {m \in matches : far[m] = far[w1]}
<1>5. PICK w2 \in S1 : \A y \in S1 : said[w2] <= said[y]
    <2>1. S1 # {} /\ \A x \in S1 : said[x] \in Nat
        BY <1>1
    <2>. HIDE DEF S1
    <2>. QED BY <2>1, LeastRanked
<1>. DEFINE S2 == {m \in S1 : said[m] = said[w2]}
<1>6. PICK w3 \in S2 : \A y \in S2 : paid[w3] <= paid[y]
    <2>1. S2 # {} /\ \A x \in S2 : paid[x] \in Nat
        BY <1>1
    <2>. HIDE DEF S2
    <2>. QED BY <2>1, LeastRanked
<1>. DEFINE S3 == {m \in S2 : paid[m] = paid[w3]}
<1>7. PICK w \in S3 : \A y \in S3 : known[w] <= known[y]
    <2>1. S3 # {} /\ \A x \in S3 : known[x] \in Nat
        BY <1>1
    <2>. HIDE DEF S3
    <2>. QED BY <2>1, LeastRanked
<1>8. ASSUME NEW n \in matches
      PROVE  ClaimKey(n) = ClaimKey(w) \/ LexLess(Ranks(line, w), Ranks(line, n))
    <2>. DEFINE p == Ranks(line, w)
                q == Ranks(line, n)
    <2>1. /\ p = <<far[w], said[w], paid[w], known[w]>>
          /\ q = <<far[n], said[n], paid[n], known[n]>>
          /\ DOMAIN p = 1..4
        BY <1>2
    <2>2. p[1] = far[w] /\ p[2] = said[w] /\ p[3] = paid[w] /\ p[4] = known[w]
        BY <2>1
    <2>3. q[1] = far[n] /\ q[2] = said[n] /\ q[3] = paid[n] /\ q[4] = known[n]
        BY <2>1
    <2>4. \A i \in 1..4 : (\A j \in 1..(i - 1) : p[j] = q[j]) /\ p[i] < q[i] => LexLess(p, q)
        BY <2>1 DEF LexLess
    <2>. HIDE DEF p, q
    <2>5. CASE far[n] # far[w]
        <3>1. far[w] < far[n]
            BY <1>1, <1>4, <2>5
        <3>. QED BY <2>2, <2>3, <2>4, <3>1 DEF p, q
    <2>6. CASE far[n] = far[w] /\ said[n] # said[w]
        <3>1. said[w] < said[n]
            BY <1>1, <1>5, <2>6
        <3>. QED BY <2>2, <2>3, <2>4, <2>6, <3>1 DEF p, q
    <2>7. CASE far[n] = far[w] /\ said[n] = said[w] /\ paid[n] # paid[w]
        <3>1. n \in S2
            BY <2>7
        <3>2. paid[w] < paid[n]
            BY <1>1, <1>6, <2>7, <3>1
        <3>. QED BY <2>2, <2>3, <2>4, <2>7, <3>2 DEF p, q
    <2>8. CASE far[n] = far[w] /\ said[n] = said[w] /\ paid[n] = paid[w] /\ known[n] # known[w]
        <3>1. n \in S3
            BY <2>8
        <3>2. known[w] < known[n]
            BY <1>1, <1>7, <2>8, <3>1
        <3>. QED BY <2>2, <2>3, <2>4, <2>8, <3>2 DEF p, q
    <2>9. CASE paid[n] = paid[w] /\ known[n] = known[w]
        BY <1>3, <2>9
    <2>. QED BY <2>5, <2>6, <2>7, <2>8, <2>9
<1>9. w \in matches
    OBVIOUS
<1>. QED BY <1>8, <1>9 DEF PickClosest

-----------------------------------------------------------------------------
(* matchImportRows *)

\* Lines as a statement holds them: finitely many, each with an id of its own.
Statement(lines) ==
    /\ IsFiniteSet(lines)
    /\ \A l \in lines : l.day \in Int /\ l.id \in Int
    /\ \A l, m \in lines : l.id = m.id => l = m

\* The lines in the order in which they are matched.
LEMMA BeforeOrders ==
    ASSUME NEW lines, Statement(lines)
    PROVE  /\ \A l \in lines : ~StatementBefore(l, l)
           /\ \A l, m \in lines : l # m => StatementBefore(l, m) \/ StatementBefore(m, l)
           /\ \A l, m, n \in lines : StatementBefore(l, m) /\ StatementBefore(m, n) => StatementBefore(l, n)
BY DEF Statement, StatementBefore

\* The answer for a line is found in what the lines before it left over.
InTurn(known, lines, transactions, bills, counterparts, account, none, strategy) ==
    LET Left(l) == Offers(CandidatesFor(l, transactions, bills, counterparts, account, none),
                          UNION {Claims(known[m.id]) : m \in {k \in lines : StatementBefore(k, l)}})
    IN  /\ DOMAIN known = {l.id : l \in lines}
        /\ \A l \in lines : known[l.id] = Resolve(l, Left(l), strategy)

\* Every line is matched with what is before it resolved: the lines can be done
\* one after the other.
LEMMA MatchingRuns ==
    ASSUME NEW lines, NEW transactions, NEW bills, NEW counterparts, NEW account, NEW none, NEW strategy,
           Statement(lines)
    PROVE  InTurn(MatchImportRows(lines, transactions, bills, counterparts, account, none, strategy),
                  lines, transactions, bills, counterparts, account, none, strategy)
<1>. DEFINE Earlier(l) == {k \in lines : StatementBefore(k, l)}
            Step(g, l) == Resolve(l, Offers(CandidatesFor(l, transactions, bills, counterparts, account, none),
                                            UNION {Claims(g[m]) : m \in Earlier(l)}), strategy)
            Runs(g) == g = [l \in lines |-> Step(g, l)]
            resolution == CHOOSE g : Runs(g)
            known == MatchImportRows(lines, transactions, bills, counterparts, account, none, strategy)
<1>1. known = [i \in {l.id : l \in lines} |-> resolution[CHOOSE l \in lines : l.id = i]]
    BY DEF MatchImportRows
<1>2. ASSUME NEW l \in lines, NEW g, NEW h, \A m \in Earlier(l) : g[m] = h[m]
      PROVE  Step(g, l) = Step(h, l)
    <2>1. {Claims(g[m]) : m \in Earlier(l)} = {Claims(h[m]) : m \in Earlier(l)}
        BY <1>2
    <2>. QED BY <2>1
<1>3. \A g : Runs(g) => \A l \in lines : g[l] = Step(g, l)
    <2>. HIDE DEF Step
    <2>. QED OBVIOUS
<1>4. \E g : Runs(g)
    <2>. HIDE DEF Step
    <2>. DEFINE rank == [l \in lines |-> Cardinality(Earlier(l))]
                Reaches(n, g) == \A l \in lines : rank[l] < n => g[l] = Step(g, l)
                Unreached == {n \in Nat : ~\E g : Reaches(n, g)}
    <2>1. \A l \in lines : rank[l] \in 0..Cardinality(lines) /\ IsFiniteSet(Earlier(l))
        <3>1. ASSUME NEW l \in lines
              PROVE  IsFiniteSet(Earlier(l)) /\ Cardinality(Earlier(l)) \in 0..Cardinality(lines)
            <4>1. IsFiniteSet(lines) /\ Earlier(l) \in SUBSET lines
                BY DEF Statement
            <4>2. IsFiniteSet(Earlier(l)) /\ Cardinality(Earlier(l)) <= Cardinality(lines)
                BY <4>1, FS_Subset
            <4>. QED BY <4>1, <4>2, FS_CardinalityType
        <3>. QED BY <3>1
    <2>2. Cardinality(lines) \in Nat
        BY FS_CardinalityType DEF Statement
    <2>3. \A l \in lines : \A m \in Earlier(l) : m \in lines /\ rank[m] < rank[l]
        <3>1. ASSUME NEW l \in lines, NEW m \in Earlier(l)
              PROVE  Cardinality(Earlier(m)) < Cardinality(Earlier(l))
            <4>1. Earlier(m) \in SUBSET Earlier(l) /\ m \notin Earlier(m)
                BY BeforeOrders
            <4>2. /\ Cardinality(Earlier(m)) <= Cardinality(Earlier(l))
                  /\ Cardinality(Earlier(l)) = Cardinality(Earlier(m)) => Earlier(l) = Earlier(m)
                BY <2>1, <4>1, FS_Subset
            <4>3. Cardinality(Earlier(m)) \in Nat /\ Cardinality(Earlier(l)) \in Nat
                <5>1. m \in lines
                    OBVIOUS
                <5>. QED BY <2>1, <2>2, <5>1
            <4>. QED BY <4>1, <4>2, <4>3
        <3>. QED BY <3>1
    <2>4. Unreached = {}
        <3>1. SUFFICES ASSUME Unreached # {} PROVE FALSE
            OBVIOUS
        <3>2. PICK n \in Unreached : \A k \in Unreached : n <= k
            <4>1. Unreached \in SUBSET Nat
                OBVIOUS
            <4>. QED BY <3>1, <4>1, LeastFound
        <3>3. \A g : Reaches(0, g)
            BY <2>1
        <3>4. n \in Nat /\ n # 0
            BY <3>2, <3>3
        <3>5. PICK g : Reaches(n - 1, g)
            BY <3>2, <3>4
        <3>. DEFINE h == [l \in lines |-> Step(g, l)]
        <3>6. ASSUME NEW l \in lines, rank[l] < n
              PROVE  h[l] = Step(h, l)
            <4>1. ASSUME NEW m \in Earlier(l)
                  PROVE  g[m] = h[m]
                <5>1. m \in lines /\ rank[m] < rank[l] /\ rank[m] \in Int /\ rank[l] \in Int
                    BY <2>1, <2>3
                <5>2. rank[m] < n - 1
                    BY <3>4, <3>6, <5>1
                <5>. QED BY <3>5, <5>1, <5>2
            <4>2. h[l] = Step(g, l)
                OBVIOUS
            <4>. HIDE DEF h
            <4>. QED BY <1>2, <4>1, <4>2
        <3>7. Reaches(n, h)
            BY <3>6
        <3>. QED BY <3>2, <3>7
    <2>5. PICK g : Reaches(Cardinality(lines) + 1, g)
        BY <2>2, <2>4
    <2>6. \A l \in lines : g[l] = Step(g, l)
        <3>. HIDE DEF rank
        <3>0. \A l \in lines : rank[l] \in 0..Cardinality(lines)
            BY <2>1
        <3>1. \A l \in lines : rank[l] < Cardinality(lines) + 1
            BY <2>2, <3>0
        <3>. QED BY <2>5, <3>1
    <2>. DEFINE h == [l \in lines |-> g[l]]
    <2>7. \A l \in lines : Step(g, l) = Step(h, l)
        <3>1. ASSUME NEW l \in lines
              PROVE  Step(g, l) = Step(h, l)
            <4>1. \A m \in Earlier(l) : g[m] = h[m]
                OBVIOUS
            <4>. HIDE DEF h
            <4>. QED BY <1>2, <4>1
        <3>. QED BY <3>1
    <2>8. h = [l \in lines |-> Step(h, l)]
        <3>1. [l \in lines |-> g[l]] = [l \in lines |-> Step(h, l)]
            BY <2>6, <2>7
        <3>. QED BY <3>1
    <2>. QED BY <2>8
<1>5. Runs(resolution)
    <2>. HIDE DEF Runs
    <2>. QED BY <1>4
<1>6. \A l \in lines : resolution[l] = Step(resolution, l)
    BY <1>3, <1>5
<1>7. \A l \in lines : known[l.id] = resolution[l]
    <2>1. ASSUME NEW l \in lines
          PROVE  (CHOOSE m \in lines : m.id = l.id) = l
        BY DEF Statement
    <2>. HIDE DEF resolution, known
    <2>2. ASSUME NEW l \in lines
          PROVE  known[l.id] = resolution[l]
        <3>1. l.id \in {k.id : k \in lines}
            OBVIOUS
        <3>2. known[l.id] = resolution[CHOOSE k \in lines : k.id = l.id]
            BY <1>1, <3>1
        <3>. QED BY <2>1, <3>2
    <2>. QED BY <2>2
<1>8. DOMAIN known = {l.id : l \in lines}
    BY <1>1
<1>. DEFINE Left(l) == Offers(CandidatesFor(l, transactions, bills, counterparts, account, none),
                              UNION {Claims(known[m.id]) : m \in {k \in lines : StatementBefore(k, l)}})
<1>. HIDE DEF resolution, known
<1>9. ASSUME NEW l \in lines
      PROVE  known[l.id] = Resolve(l, Left(l), strategy)
    <2>1. {Claims(known[m.id]) : m \in {k \in lines : StatementBefore(k, l)}}
          = {Claims(resolution[m]) : m \in Earlier(l)}
        BY <1>7
    <2>. QED BY <1>6, <1>7, <2>1
<1>. QED BY <1>8, <1>9 DEF known, InTurn

-----------------------------------------------------------------------------
(* candidatesFor and the decision on one line *)

\* What the books of a household offer: numbered rows and bills, with dates.
Numbered(set) == \A c \in set : c.id \in Nat /\ c.day \in Int
Books(transactions, bills, counterparts) ==
    Numbered(transactions) /\ Numbered(bills) /\ Numbered(counterparts)

\* A candidate is a row or a bill of the books that fits the line.
Fitting(line, m, transactions, bills, counterparts, account) ==
    /\ m.kind = "TRANSACTION" => \E c \in transactions : TransactionFits(line, c, account) /\ m.id = c.id
    /\ m.kind = "TRANSFER_MIRROR" => \E c \in transactions : MirrorFits(line, c, account) /\ m.id = c.id
    /\ m.kind = "BILL" => \E c \in bills : BillFits(line, c) /\ m.id = c.id
    /\ m.kind = "OWN_TRANSFER" => \E c \in counterparts : /\ CounterpartyFits(line, c, account)
                                                          /\ m.id = c.id /\ m.account = c.accountId

IsMatch(m) == m = [kind |-> m.kind, id |-> m.id, account |-> m.account, day |-> m.day,
                   text |-> m.text, high |-> m.high]

LEMMA CandidatesFit ==
    ASSUME NEW line, NEW transactions, NEW bills, NEW counterparts, NEW account, NEW none,
           line.day \in Int, Books(transactions, bills, counterparts)
    PROVE  LET found == CandidatesFor(line, transactions, bills, counterparts, account, none)
           IN  /\ Readable(line, found)
               /\ \A m \in found : IsMatch(m) /\ Fitting(line, m, transactions, bills, counterparts, account)
<1>. DEFINE found == CandidatesFor(line, transactions, bills, counterparts, account, none)
<1>1. \A kind, c, a, high :
        LET m == Match(kind, c, a, high)
        IN  IsMatch(m) /\ m.kind = kind /\ m.id = c.id /\ m.day = c.day /\ m.account = a
    BY DEF Match, IsMatch
<1>2. ASSUME NEW m \in found
      PROVE  \/ \E c \in transactions : \E high : TransactionFits(line, c, account) /\ m = Match("TRANSACTION", c, none, high)
             \/ \E c \in transactions : \E high : MirrorFits(line, c, account) /\ m = Match("TRANSFER_MIRROR", c, none, high)
             \/ \E c \in bills : \E high : BillFits(line, c) /\ m = Match("BILL", c, none, high)
             \/ \E c \in counterparts : \E high : /\ CounterpartyFits(line, c, account)
                                              /\ m = Match("OWN_TRANSFER", c, c.accountId, high)
    BY Zenon DEF CandidatesFor
<1>. HIDE DEF found
<1>3. \A m \in found : IsMatch(m) /\ m.day \in Int /\ m.id \in Nat /\ m.kind \in Kinds
    BY <1>1, <1>2 DEF Books, Numbered, Kinds
<1>4. \A m \in found : Fitting(line, m, transactions, bills, counterparts, account)
    BY <1>1, <1>2 DEF Fitting
<1>. QED BY <1>3, <1>4 DEF Readable, found

\* What stands for the candidate m in the answer: m itself, or m made sure.
StandsFor(k, m) == k.kind = m.kind /\ k.id = m.id /\ k.account = m.account

\* A line is not imported as new only for one of the candidates it has, and what is
\* done with it is what is done with candidates of that kind.
LEMMA ResolutionFits ==
    ASSUME NEW line, NEW options, NEW strategy, Readable(line, options), \A m \in options : IsMatch(m)
    PROVE  LET r == Resolve(line, options, strategy)
           IN  \/ r.suggestedAction = "IMPORT"
               \/ \E m \in options : \E k :
                    /\ r.matches = {k} /\ StandsFor(k, m)
                    /\ \/ m.kind = "BILL" /\ r.suggestedAction = "PAY_BILL"
                       \/ m.kind = "OWN_TRANSFER" /\ r.suggestedAction = "RECORD_TRANSFER"
                       \/ m.kind = "TRANSFER_MIRROR" /\ r.suggestedAction = "SKIP"
                       \/ m.kind = "TRANSACTION" /\ r.suggestedAction = "LINK_TRANSACTION"
<1>. DEFINE r == Resolve(line, options, strategy)
            high == {m \in options : m.high}
            chosen == PickClosest(line, options)
            transfers == {m \in options : m.kind = "OWN_TRANSFER"}
            existing == {m \in options : m.kind = "TRANSACTION"}
            sure == options # {} /\ Cardinality(high) = 1 /\ ClaimKey(chosen) \in {ClaimKey(m) : m \in high}
<1>1. r = IF sure THEN [matches |-> {chosen}, suggestedAction |-> ActionFor(chosen)]
          ELSE IF SameAccountTransfer(options) THEN Decided(PickClosest(line, transfers), "RECORD_TRANSFER")
          ELSE IF strategy = "link-existing" /\ LinksExisting(options)
          THEN Decided(PickClosest(line, existing), "LINK_TRANSACTION")
          ELSE [matches |-> {[m EXCEPT !.high = FALSE] : m \in options}, suggestedAction |-> "IMPORT"]
    BY DEF Resolve
<1>2. ASSUME NEW m \in options, NEW action
      PROVE  \E k : /\ Decided(m, action).matches = {k} /\ StandsFor(k, m)
                    /\ Decided(m, action).suggestedAction = action
    <2>1. StandsFor([m EXCEPT !.high = TRUE], m)
        BY DEF IsMatch, StandsFor
    <2>. QED BY <2>1 DEF Decided
<1>3. CASE sure
    <2>1. chosen \in options /\ chosen.kind \in Kinds
        BY <1>3, ClosestFound DEF Readable
    <2>2. r = [matches |-> {chosen}, suggestedAction |-> ActionFor(chosen)]
        BY <1>1, <1>3
    <2>3. r.matches = {chosen} /\ StandsFor(chosen, chosen) /\ r.suggestedAction = ActionFor(chosen)
        BY <2>2 DEF StandsFor
    <2>. HIDE DEF r, chosen
    <2>. QED BY <2>1, <2>3 DEF Kinds, ActionFor, r
<1>4. CASE ~sure /\ SameAccountTransfer(options)
    <2>1. transfers # {} 
        <3>1. Cardinality({m.account : m \in transfers}) = 1
            BY <1>4 DEF SameAccountTransfer
        <3>. QED BY <3>1, FS_EmptySet
    <2>2. PickClosest(line, transfers) \in transfers
        <3>1. Readable(line, transfers)
            BY DEF Readable
        <3>. QED BY <2>1, <3>1, ClosestFound
    <2>3. r = Decided(PickClosest(line, transfers), "RECORD_TRANSFER")
        BY <1>1, <1>4
    <2>4. PICK m \in options : m = PickClosest(line, transfers) /\ m.kind = "OWN_TRANSFER"
        BY <2>2
    <2>5. PICK k : /\ Decided(m, "RECORD_TRANSFER").matches = {k} /\ StandsFor(k, m)
                   /\ Decided(m, "RECORD_TRANSFER").suggestedAction = "RECORD_TRANSFER"
        BY <1>2
    <2>6. r.matches = {k} /\ r.suggestedAction = "RECORD_TRANSFER"
        BY <2>3, <2>4, <2>5
    <2>. HIDE DEF r
    <2>. QED BY <2>4, <2>5, <2>6 DEF r
<1>5. CASE ~sure /\ ~SameAccountTransfer(options) /\ strategy = "link-existing" /\ LinksExisting(options)
    <2>1. existing # {}
        BY <1>5 DEF LinksExisting
    <2>2. PickClosest(line, existing) \in existing
        <3>1. Readable(line, existing)
            BY DEF Readable
        <3>. QED BY <2>1, <3>1, ClosestFound
    <2>3. r = Decided(PickClosest(line, existing), "LINK_TRANSACTION")
        BY <1>1, <1>5
    <2>4. PICK m \in options : m = PickClosest(line, existing) /\ m.kind = "TRANSACTION"
        BY <2>2
    <2>5. PICK k : /\ Decided(m, "LINK_TRANSACTION").matches = {k} /\ StandsFor(k, m)
                   /\ Decided(m, "LINK_TRANSACTION").suggestedAction = "LINK_TRANSACTION"
        BY <1>2
    <2>6. r.matches = {k} /\ r.suggestedAction = "LINK_TRANSACTION"
        BY <2>3, <2>4, <2>5
    <2>. HIDE DEF r
    <2>. QED BY <2>4, <2>5, <2>6 DEF r
<1>6. CASE ~sure /\ ~SameAccountTransfer(options) /\ ~(strategy = "link-existing" /\ LinksExisting(options))
    BY <1>1, <1>6
<1>. QED BY <1>3, <1>4, <1>5, <1>6

\* What a line is resolved to: a new entry, or one thing that is already there.
Resolved(r, line, transactions, bills, counterparts, account) ==
    \/ r.suggestedAction = "IMPORT"
    \/ \E k : /\ r.matches = {k} /\ Fitting(line, k, transactions, bills, counterparts, account)
              /\ \/ k.kind = "BILL" /\ r.suggestedAction = "PAY_BILL"
                 \/ k.kind = "OWN_TRANSFER" /\ r.suggestedAction = "RECORD_TRANSFER"
                 \/ k.kind = "TRANSFER_MIRROR" /\ r.suggestedAction = "SKIP"
                 \/ k.kind = "TRANSACTION" /\ r.suggestedAction = "LINK_TRANSACTION"

\* Every line is resolved to what fits it, no two lines to the same thing.
MatchedSoundly(known, lines, transactions, bills, counterparts, account) ==
    /\ DOMAIN known = {l.id : l \in lines}
    /\ \A l \in lines : Resolved(known[l.id], l, transactions, bills, counterparts, account)
    /\ \A l, m \in lines : l # m => Claims(known[l.id]) \cap Claims(known[m.id]) = {}

\* matchImportRows resolves every line of a statement, each to something that fits
\* it, and never two lines to the same row or the same bill, whatever the strategy,
\* the number of lines and what is in the books.
THEOREM MatchedOnce ==
    ASSUME NEW lines, NEW transactions, NEW bills, NEW counterparts, NEW account, NEW none, NEW strategy,
           Statement(lines), Books(transactions, bills, counterparts)
    PROVE  MatchedSoundly(MatchImportRows(lines, transactions, bills, counterparts, account, none, strategy),
                          lines, transactions, bills, counterparts, account)
<1>. DEFINE known == MatchImportRows(lines, transactions, bills, counterparts, account, none, strategy)
            Cands(l) == CandidatesFor(l, transactions, bills, counterparts, account, none)
            Taken(l) == UNION {Claims(known[m.id]) : m \in {k \in lines : StatementBefore(k, l)}}
            Left(l) == Offers(Cands(l), Taken(l))
<1>1. /\ DOMAIN known = {l.id : l \in lines}
      /\ \A l \in lines : known[l.id] = Resolve(l, Left(l), strategy)
    <2>. HIDE DEF known
    <2>1. InTurn(known, lines, transactions, bills, counterparts, account, none, strategy)
        BY MatchingRuns DEF known
    <2>. QED BY <2>1 DEF InTurn
<1>. HIDE DEF known
<1>2. ASSUME NEW l \in lines
      PROVE  /\ Readable(l, Left(l))
             /\ \A m \in Left(l) : /\ IsMatch(m) /\ ClaimKey(m) \notin Taken(l)
                                   /\ Fitting(l, m, transactions, bills, counterparts, account)
    <2>1. l.day \in Int
        BY DEF Statement
    <2>2. /\ Readable(l, Cands(l))
          /\ \A m \in Cands(l) : IsMatch(m) /\ Fitting(l, m, transactions, bills, counterparts, account)
        BY <2>1, CandidatesFit
    <2>3. \A m \in Left(l) : m \in Cands(l) /\ ClaimKey(m) \notin Taken(l)
        BY DEF Offers
    <2>4. \A m \in Left(l) : /\ IsMatch(m) /\ ClaimKey(m) \notin Taken(l)
                             /\ Fitting(l, m, transactions, bills, counterparts, account)
        BY <2>2, <2>3
    <2>5. Readable(l, Left(l))
        <3>. HIDE DEF Left
        <3>. QED BY <2>2, <2>3 DEF Readable
    <2>. QED BY <2>4, <2>5
<1>3. ASSUME NEW l \in lines
      PROVE  /\ Resolved(known[l.id], l, transactions, bills, counterparts, account)
             /\ Claims(known[l.id]) \cap Taken(l) = {}
    <2>1. known[l.id] = Resolve(l, Left(l), strategy)
        BY <1>1
    <2>. DEFINE r == known[l.id]
    <2>. HIDE DEF Left, Taken, r
    <2>2. CASE r.suggestedAction = "IMPORT"
        BY <2>2 DEF Resolved, Claims, r
    <2>3. CASE r.suggestedAction # "IMPORT"
        <3>1. PICK m \in Left(l) : \E k :
                    /\ r.matches = {k} /\ StandsFor(k, m)
                    /\ \/ m.kind = "BILL" /\ r.suggestedAction = "PAY_BILL"
                       \/ m.kind = "OWN_TRANSFER" /\ r.suggestedAction = "RECORD_TRANSFER"
                       \/ m.kind = "TRANSFER_MIRROR" /\ r.suggestedAction = "SKIP"
                       \/ m.kind = "TRANSACTION" /\ r.suggestedAction = "LINK_TRANSACTION"
            BY <1>2, <2>1, <2>3, ResolutionFits DEF r
        <3>2. PICK k :
                    /\ r.matches = {k} /\ StandsFor(k, m)
                    /\ \/ m.kind = "BILL" /\ r.suggestedAction = "PAY_BILL"
                       \/ m.kind = "OWN_TRANSFER" /\ r.suggestedAction = "RECORD_TRANSFER"
                       \/ m.kind = "TRANSFER_MIRROR" /\ r.suggestedAction = "SKIP"
                       \/ m.kind = "TRANSACTION" /\ r.suggestedAction = "LINK_TRANSACTION"
            BY <3>1
        <3>3. ClaimKey(k) = ClaimKey(m) /\ ClaimKey(m) \notin Taken(l)
            BY <1>2, <3>2 DEF ClaimKey, StandsFor
        <3>4. Claims(r) = {ClaimKey(k)}
            BY <2>3, <3>2 DEF Claims
        <3>5. Fitting(l, k, transactions, bills, counterparts, account)
            <4>1. Fitting(l, m, transactions, bills, counterparts, account)
                BY <1>2
            <4>. QED BY <3>2, <4>1 DEF Fitting, StandsFor
        <3>6. Resolved(r, l, transactions, bills, counterparts, account)
            BY <3>2, <3>5 DEF Resolved, StandsFor
        <3>. QED BY <3>3, <3>4, <3>6 DEF r
    <2>. QED BY <2>2, <2>3
<1>4. \A l, m \in lines : StatementBefore(m, l) => Claims(known[m.id]) \subseteq Taken(l)
    OBVIOUS
<1>5. ASSUME NEW l \in lines, NEW m \in lines, l # m
      PROVE  Claims(known[l.id]) \cap Claims(known[m.id]) = {}
    <2>1. StatementBefore(l, m) \/ StatementBefore(m, l)
        BY <1>5, BeforeOrders
    <2>2. Claims(known[l.id]) \cap Taken(l) = {} /\ Claims(known[m.id]) \cap Taken(m) = {}
        BY <1>3
    <2>. HIDE DEF Taken
    <2>. QED BY <1>4, <2>1, <2>2
<1>. QED BY <1>1, <1>3, <1>5 DEF known, MatchedSoundly

-----------------------------------------------------------------------------
(* The other half of a transfer *)

\* A line whose transfer options are all of one account, with nothing else that is
\* sure, becomes half of a transfer.
LEMMA HalfTied ==
    ASSUME NEW line, NEW options, NEW strategy, Readable(line, options),
           \A m \in options : /\ IsMatch(m)
                              /\ m.kind \in {"TRANSACTION", "OWN_TRANSFER"}
                              /\ m.high => m.kind = "OWN_TRANSFER",
           \A m, n \in options : m.kind = "OWN_TRANSFER" /\ n.kind = "OWN_TRANSFER" => m.account = n.account,
           \A m, n \in options : m.id = n.id => m.kind = n.kind,
           NEW half \in options, half.kind = "OWN_TRANSFER"
    PROVE  Resolve(line, options, strategy).suggestedAction = "RECORD_TRANSFER"
<1>. DEFINE r == Resolve(line, options, strategy)
            high == {m \in options : m.high}
            chosen == PickClosest(line, options)
            transfers == {m \in options : m.kind = "OWN_TRANSFER"}
            existing == {m \in options : m.kind = "TRANSACTION"}
            sure == options # {} /\ Cardinality(high) = 1 /\ ClaimKey(chosen) \in {ClaimKey(m) : m \in high}
<1>1. r = IF sure THEN [matches |-> {chosen}, suggestedAction |-> ActionFor(chosen)]
          ELSE IF SameAccountTransfer(options) THEN Decided(PickClosest(line, transfers), "RECORD_TRANSFER")
          ELSE IF strategy = "link-existing" /\ LinksExisting(options)
          THEN Decided(PickClosest(line, existing), "LINK_TRANSACTION")
          ELSE [matches |-> {[m EXCEPT !.high = FALSE] : m \in options}, suggestedAction |-> "IMPORT"]
    BY DEF Resolve
<1>2. chosen \in options
    BY ClosestFound
<1>3. CASE sure
    <2>. HIDE DEF chosen
    <2>1. PICK m \in options : m.high /\ ClaimKey(m) = ClaimKey(chosen)
        BY <1>3
    <2>2. m.kind = "OWN_TRANSFER" /\ m.kind # "BILL" /\ chosen.kind # "BILL"
        BY <1>2, <2>1
    <2>3. m.id = chosen.id
        BY <2>1, <2>2 DEF ClaimKey
    <2>4. chosen.kind = "OWN_TRANSFER"
        BY <1>2, <2>2, <2>3
    <2>5. ActionFor(chosen) = "RECORD_TRANSFER"
        BY <2>4 DEF ActionFor
    <2>. QED BY <1>1, <1>3, <2>5
<1>4. CASE ~sure
    <2>1. {m.account : m \in transfers} = {half.account}
        OBVIOUS
    <2>2. Cardinality({m.account : m \in transfers}) = 1
        BY <2>1, FS_Singleton
    <2>3. SameAccountTransfer(options)
        BY <2>2 DEF SameAccountTransfer
    <2>4. r = Decided(PickClosest(line, transfers), "RECORD_TRANSFER")
        BY <1>1, <1>4, <2>3
    <2>. QED BY <2>4 DEF Decided
<1>. QED BY <1>3, <1>4

\* Candidates none of which is tied to a bill, and every transfer of which is.
FreeOfBills(transactions) ==
    \A c \in transactions : c.ofBill = FALSE /\ (c.type = "TRANSFER" => c.linked = TRUE)

\* The other half is an option, and no entry of the line's own account is sure.
HalfAmong(found, half) ==
    /\ \E m \in found : m.kind = "OWN_TRANSFER" /\ m.id = half.id
    /\ \A m \in found : m.kind = "OWN_TRANSFER" \/ (m.kind = "TRANSACTION" /\ ~m.high)

\* What a line has for candidates when no transfer mirrors it: the other half is
\* one, and no entry of the line's own account is sure.
LEMMA HalfOffered ==
    ASSUME NEW line, NEW transactions, NEW counterparts, NEW account, NEW none, FreeOfBills(transactions),
           \A c \in transactions : ~MirrorFits(line, c, account),
           NEW half \in counterparts, CounterpartyFits(line, half, account)
    PROVE  HalfAmong(CandidatesFor(line, transactions, {}, counterparts, account, none), half)
<1>. DEFINE hits == {c \in transactions : TransactionFits(line, c, account)}
            mirrors == {c \in transactions : MirrorFits(line, c, account)}
            opposite == {c \in counterparts : CounterpartyFits(line, c, account)}
            found == CandidatesFor(line, transactions, {}, counterparts, account, none)
<1>1. mirrors = {} /\ Cardinality(mirrors) = 0
    BY FS_EmptySet
<1>2. \A c \in hits : c.type # "TRANSFER"
    BY DEF TransactionFits, FreeOfBills
<1>3. ~(Cardinality(mirrors) = 1 \/ \E c \in hits : Only(c, hits) /\ c.type = "TRANSFER")
    <2>1. Cardinality(mirrors) # 1
        BY <1>1
    <2>. HIDE DEF hits, mirrors
    <2>. QED BY <1>2, <2>1
<1>4. found = {Match("TRANSACTION", c, none, Only(c, hits) /\ c.ofBill) : c \in hits}
              \cup {Match("OWN_TRANSFER", c, c.accountId, Only(c, opposite)) : c \in opposite}
    <2>1. {c \in {} : BillFits(line, c)} = {}
        OBVIOUS
    <2>. QED BY <1>1, <1>3, <2>1 DEF CandidatesFor
<1>5. \A kind, c, a, high :
        LET m == Match(kind, c, a, high)
        IN  m.kind = kind /\ m.id = c.id /\ m.high = high
    BY DEF Match
<1>6. \A c \in hits : (Only(c, hits) /\ c.ofBill) = FALSE
    BY DEF FreeOfBills
<1>. HIDE DEF found, hits
<1>7. ASSUME NEW m \in found
      PROVE  m.kind = "OWN_TRANSFER" \/ (m.kind = "TRANSACTION" /\ ~m.high)
    <2>1. CASE \E c \in hits : m = Match("TRANSACTION", c, none, Only(c, hits) /\ c.ofBill)
        <3>1. PICK c \in hits : m = Match("TRANSACTION", c, none, Only(c, hits) /\ c.ofBill)
            BY <2>1
        <3>2. m = Match("TRANSACTION", c, none, FALSE)
            BY <1>6, <3>1
        <3>3. m.kind = "TRANSACTION" /\ m.high = FALSE
            BY Zenon, <3>2 DEF Match
        <3>4. ~m.high
            BY Zenon, <3>3
        <3>. QED BY <3>3, <3>4
    <2>2. CASE \E c \in opposite : m = Match("OWN_TRANSFER", c, c.accountId, Only(c, opposite))
        BY <1>5, <2>2
    <2>. QED BY <1>4, <2>1, <2>2
<1>8. Match("OWN_TRANSFER", half, half.accountId, Only(half, opposite)) \in found
    BY <1>4
<1>9. \E m \in found : m.kind = "OWN_TRANSFER" /\ m.id = half.id
    BY <1>5, <1>8
<1>10. HalfAmong(found, half)
    BY Zenon, <1>7, <1>9 DEF HalfAmong
<1>. QED BY Zenon, <1>10 DEF found

\* A line that no transfer mirrors and that entries of one other account fit is
\* tied to one of them, or an earlier line has claimed the one in question.
LEMMA HalfClaimed ==
    ASSUME NEW lines, NEW transactions, NEW counterparts, NEW account, NEW none, NEW strategy,
           Statement(lines), Books(transactions, {}, counterparts), FreeOfBills(transactions),
           NEW line \in lines, \A c \in transactions : ~MirrorFits(line, c, account),
           \A b, c \in counterparts : CounterpartyFits(line, b, account) /\ CounterpartyFits(line, c, account)
                                      => b.accountId = c.accountId,
           \A b \in transactions, c \in counterparts :
                TransactionFits(line, b, account) /\ CounterpartyFits(line, c, account) => b.id # c.id,
           NEW half \in counterparts, CounterpartyFits(line, half, account)
    PROVE  LET known == MatchImportRows(lines, transactions, {}, counterparts, account, none, strategy)
           IN  \/ known[line.id].suggestedAction = "RECORD_TRANSFER"
               \/ \E l \in lines : StatementBefore(l, line) /\ <<"tx", half.id>> \in Claims(known[l.id])
<1>. DEFINE known == MatchImportRows(lines, transactions, {}, counterparts, account, none, strategy)
            found == CandidatesFor(line, transactions, {}, counterparts, account, none)
            taken == UNION {Claims(known[m.id]) : m \in {k \in lines : StatementBefore(k, line)}}
            left == Offers(found, taken)
<1>1. known[line.id] = Resolve(line, left, strategy)
    <2>. HIDE DEF known
    <2>1. InTurn(known, lines, transactions, {}, counterparts, account, none, strategy)
        BY MatchingRuns DEF known
    <2>. QED BY <2>1 DEF InTurn
<1>. HIDE DEF known
<1>2. /\ Readable(line, found)
      /\ \A m \in found : IsMatch(m) /\ Fitting(line, m, transactions, {}, counterparts, account)
    <2>1. line.day \in Int
        BY DEF Statement
    <2>. QED BY <2>1, CandidatesFit
<1>3. /\ \E m \in found : m.kind = "OWN_TRANSFER" /\ m.id = half.id
      /\ \A m \in found : m.kind = "OWN_TRANSFER" \/ (m.kind = "TRANSACTION" /\ ~m.high)
    <2>1. HalfAmong(found, half)
        BY HalfOffered
    <2>. HIDE DEF found
    <2>. QED BY Zenon, <2>1 DEF HalfAmong
<1>. HIDE DEF found
<1>4. ASSUME NEW m \in found, NEW n \in found
      PROVE  /\ m.kind = "OWN_TRANSFER" /\ n.kind = "OWN_TRANSFER" => m.account = n.account
             /\ m.id = n.id => m.kind = n.kind
    <2>1. CASE m.kind = "OWN_TRANSFER" /\ n.kind = "OWN_TRANSFER"
        <3>1. PICK b \in counterparts : CounterpartyFits(line, b, account) /\ m.account = b.accountId
            BY <1>2, <2>1 DEF Fitting
        <3>2. PICK c \in counterparts : CounterpartyFits(line, c, account) /\ n.account = c.accountId
            BY <1>2, <2>1 DEF Fitting
        <3>. QED BY <2>1, <3>1, <3>2
    <2>2. CASE m.kind = "TRANSACTION" /\ n.kind = "OWN_TRANSFER"
        <3>1. PICK b \in transactions : TransactionFits(line, b, account) /\ m.id = b.id
            BY <1>2, <2>2 DEF Fitting
        <3>2. PICK c \in counterparts : CounterpartyFits(line, c, account) /\ n.id = c.id
            BY <1>2, <2>2 DEF Fitting
        <3>. QED BY <2>2, <3>1, <3>2
    <2>3. CASE m.kind = "OWN_TRANSFER" /\ n.kind = "TRANSACTION"
        <3>1. PICK b \in transactions : TransactionFits(line, b, account) /\ n.id = b.id
            BY <1>2, <2>3 DEF Fitting
        <3>2. PICK c \in counterparts : CounterpartyFits(line, c, account) /\ m.id = c.id
            BY <1>2, <2>3 DEF Fitting
        <3>. QED BY <2>3, <3>1, <3>2
    <2>4. CASE m.kind = "TRANSACTION" /\ n.kind = "TRANSACTION"
        BY <2>4
    <2>. QED BY <1>3, <2>1, <2>2, <2>3, <2>4
<1>5. PICK m \in found : m.kind = "OWN_TRANSFER" /\ m.id = half.id
    BY <1>3
<1>6. ClaimKey(m) = <<"tx", half.id>>
    BY <1>5 DEF ClaimKey
<1>7. CASE ClaimKey(m) \in taken
    BY <1>6, <1>7 DEF known
<1>8. CASE ClaimKey(m) \notin taken
    <2>1. m \in left /\ \A n \in left : n \in found
        BY <1>8 DEF Offers
    <2>. HIDE DEF left
    <2>2. Readable(line, left)
        BY <1>2, <2>1 DEF Readable
    <2>3. \A n \in left : /\ IsMatch(n) /\ n.kind \in {"TRANSACTION", "OWN_TRANSFER"}
                          /\ n.high => n.kind = "OWN_TRANSFER"
        BY <1>2, <1>3, <2>1
    <2>4. \A n, o \in left : n.kind = "OWN_TRANSFER" /\ o.kind = "OWN_TRANSFER" => n.account = o.account
        BY <1>4, <2>1
    <2>5. \A n, o \in left : n.id = o.id => n.kind = o.kind
        BY <1>4, <2>1
    <2>6. Resolve(line, left, strategy).suggestedAction = "RECORD_TRANSFER"
        BY <1>5, <2>1, <2>2, <2>3, <2>4, <2>5, HalfTied
    <2>. QED BY <1>1, <2>6 DEF known
<1>. QED BY <1>7, <1>8
=============================================================================
