--------------------------- MODULE ImportMatching ---------------------------
(***************************************************************************)
(* match-import-rows.ts: what the rows of a statement may already be in the *)
(* household's books. Pure operators over sets of records; ids are integers *)
(* so that ties can be broken as the code breaks them, dates are day        *)
(* numbers, amounts are cents, texts are normalized descriptions.           *)
(***************************************************************************)
EXTENDS Integers, FiniteSets

ReconcileTxDays == 3
TightBefore == 5
TightAfter == 15
WideBefore == 10
WideAfter == 45
TolerancePercent == 15

Distance(x, y) == IF x < y THEN y - x ELSE x - y

Between(gap, before, after) == -before <= gap /\ gap <= after

\* Math.abs(left - right) / right <= 0.15, and zero is close to zero only.
AmountClose(left, right) ==
    IF right = 0 THEN left = 0 ELSE 100 * Distance(left, right) <= TolerancePercent * right

SameAmountAndDays(line, c) ==
    c.amount = line.amount /\ Distance(c.day, line.day) <= ReconcileTxDays

TransactionFits(line, c, account) ==
    /\ SameAmountAndDays(line, c)
    /\ \/ line.out /\ c.type = "EXPENSE" /\ c.accountId = account
       \/ line.out /\ c.type = "TRANSFER" /\ c.fromAccountId = account /\ ~c.linked
       \/ ~line.out /\ c.type = "INCOME" /\ c.accountId = account

MirrorFits(line, c, account) ==
    /\ c.type = "TRANSFER"
    /\ SameAmountAndDays(line, c)
    /\ \/ ~line.out /\ c.toAccountId = account
       \/ line.out /\ c.fromAccountId = account /\ c.linked

CounterpartyFits(line, c, account) ==
    /\ c.accountId # account
    /\ SameAmountAndDays(line, c)
    /\ c.type = (IF line.out THEN "INCOME" ELSE "EXPENSE")

BillFits(line, c) ==
    /\ line.out
    /\ Between(line.day - c.day, WideBefore, WideAfter)
    /\ c.amount = line.amount \/ AmountClose(line.amount, c.amount)

-----------------------------------------------------------------------------
Match(kind, c, account, high) ==
    [kind |-> kind, id |-> c.id, account |-> account, day |-> c.day,
     text |-> c.text, high |-> high]

Only(c, set) == set = {c}

\* candidatesFor: every candidate of the line, and which of them is sure.
CandidatesFor(line, transactions, bills, counterparts, account, none) ==
    LET hits == {c \in transactions : TransactionFits(line, c, account)}
        mirrors == {c \in transactions : MirrorFits(line, c, account)}
        billHits == {c \in bills : BillFits(line, c)}
        tight == {c \in billHits : c.amount = line.amount
                                   /\ Between(line.day - c.day, TightBefore, TightAfter)}
        opposite == {c \in counterparts : CounterpartyFits(line, c, account)}
        alreadyTransfer == \/ Cardinality(mirrors) = 1
                           \/ \E c \in hits : Only(c, hits) /\ c.type = "TRANSFER"
    IN  {Match("TRANSACTION", c, none, Only(c, hits) /\ c.ofBill) : c \in hits}
        \cup {Match("TRANSFER_MIRROR", c, none, Only(c, mirrors) /\ (c.ofBill \/ c.linked))
                : c \in mirrors}
        \cup {Match("BILL", c, none, Only(c, tight)) : c \in billHits}
        \cup IF alreadyTransfer THEN {}
             ELSE {Match("OWN_TRANSFER", c, c.accountId, Only(c, opposite)) : c \in opposite}

ClaimKey(m) == IF m.kind = "BILL" THEN <<"bill", m.id>> ELSE <<"tx", m.id>>

\* pickClosest: nearest date, then equal description, then the smaller key
\* ("bill:" sorts before "tx:"). The score 1 of a contained text is left out.
Ranks(line, m) ==
    <<Distance(m.day, line.day),
      IF m.text = line.text THEN 0 ELSE 1,
      IF m.kind = "BILL" THEN 0 ELSE 1,
      m.id>>

LexLess(p, q) ==
    \E i \in DOMAIN p : p[i] < q[i] /\ \A j \in 1..(i - 1) : p[j] = q[j]

PickClosest(line, matches) ==
    CHOOSE m \in matches :
        \A n \in matches : ClaimKey(n) = ClaimKey(m) \/ LexLess(Ranks(line, m), Ranks(line, n))

ActionFor(m) ==
    CASE m.kind = "BILL" -> "PAY_BILL"
      [] m.kind = "OWN_TRANSFER" -> "RECORD_TRANSFER"
      [] m.kind = "TRANSFER_MIRROR" -> "SKIP"
      [] OTHER -> IF m.high THEN "LINK_TRANSACTION" ELSE "IMPORT"

-----------------------------------------------------------------------------
\* All the OWN_TRANSFER options are of one account and nothing else is sure.
SameAccountTransfer(options) ==
    LET transfers == {m \in options : m.kind = "OWN_TRANSFER"}
    IN  /\ \A m \in options : m.high => m.kind = "OWN_TRANSFER"
        /\ Cardinality({m.account : m \in transfers}) = 1

\* linkExistingTransaction, the strategy of the Open Finance sync.
LinksExisting(options) ==
    /\ \A m \in options : m.high => m.kind = "TRANSACTION"
    /\ \E m \in options : m.kind = "TRANSACTION"

Decided(m, action) == [matches |-> {[m EXCEPT !.high = TRUE]}, suggestedAction |-> action]

Resolve(line, options, strategy) ==
    LET high == {m \in options : m.high}
        chosen == PickClosest(line, options)
        transfers == {m \in options : m.kind = "OWN_TRANSFER"}
        existing == {m \in options : m.kind = "TRANSACTION"}
    IN  IF options # {} /\ Cardinality(high) = 1 /\ ClaimKey(chosen) \in {ClaimKey(m) : m \in high}
        THEN [matches |-> {chosen}, suggestedAction |-> ActionFor(chosen)]
        ELSE IF SameAccountTransfer(options)
        THEN Decided(PickClosest(line, transfers), "RECORD_TRANSFER")
        ELSE IF strategy = "link-existing" /\ LinksExisting(options)
        THEN Decided(PickClosest(line, existing), "LINK_TRANSACTION")
        ELSE [matches |-> {[m EXCEPT !.high = FALSE] : m \in options},
              suggestedAction |-> "IMPORT"]

Claims(resolution) ==
    IF resolution.suggestedAction = "IMPORT" THEN {} ELSE {ClaimKey(m) : m \in resolution.matches}

Offers(options, claimed) == {m \in options : ClaimKey(m) \notin claimed}

StatementBefore(l, m) == l.day < m.day \/ (l.day = m.day /\ l.id < m.id)

\* matchImportRows: the lines by date, each with what earlier lines left over.
MatchImportRows(lines, transactions, bills, counterparts, account, none, strategy) ==
    LET Resolution[line \in lines] ==
            LET earlier == {l \in lines : StatementBefore(l, line)}
                claimed == UNION {Claims(Resolution[l]) : l \in earlier}
            IN  Resolve(line, Offers(CandidatesFor(line, transactions, bills, counterparts,
                                                   account, none), claimed), strategy)
    IN  [i \in {l.id : l \in lines} |-> Resolution[CHOOSE l \in lines : l.id = i]]
=============================================================================
