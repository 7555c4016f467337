--------------------------- MODULE DrawdownEpochs ---------------------------
(***************************************************************************)
(* The capital epoch of a portfolio (modules/portfolio/drawdown.py and     *)
(* drawdown_flows.py): units issued and cancelled for deposits and         *)
(* withdrawals at the net value of a unit, the risk state that drawdowns   *)
(* raise and only consecutive calm sessions lower, and the closing,        *)
(* cooling and reauthorization of an epoch.                                *)
(*                                                                         *)
(* The account is the environment: cash and one holding, which would cost  *)
(* something to liquidate, in two accounts; trades while the market is     *)
(* open, one close a day, transfers at any time.  A command is decided     *)
(* with its cutoff at the present instant, on the snapshot of that         *)
(* instant; snapshots since the last accounting are what a declared flow   *)
(* may be valued at.                                                       *)
(***************************************************************************)
EXTENDS Integers, Sequences, FiniteSets, FiniteSetsExt

CONSTANTS
    Horizons,      \* bounds: sessions, transfers and trades that happen, prices
                   \* the holding may close at, what a transfer may move, and
                   \* the shares held at first
    OpeningCash,   \* cash before the first epoch
    Costs,         \* what liquidating so many shares may cost
    MaxShares,     \* bound: shares held
    Budgets,       \* drawdown budgets of the authorizations, in the order
                   \* the user confirms them
    DrawdownPolicy \* the epoch's policy: recovery ratios, sessions, cooling

(* A policy asks for sessions before risk is lowered or an epoch cools. *)
ASSUME PolicyAssumption ==
    {DrawdownPolicy.cautionSessions, DrawdownPolicy.defensiveSessions, DrawdownPolicy.cooling}
        \subseteq Nat \ {0}

(* Prices, transfers and costs are numbers, and a transfer moves something. *)
ASSUME MarketAssumption ==
    /\ OpeningCash \in Int
    /\ \A h \in Horizons :
           /\ h.shares \in 0 .. MaxShares /\ h.prices \subseteq Int
           /\ \A m \in h.moves : /\ {m.cash, m.shares} \subseteq Int \X Int
                                 /\ {m.cash, m.shares} # {<<0, 0>>}
    /\ \A n \in 0 .. MaxShares : Costs[n] \subseteq Int

(* Before the first epoch no state is retained. *)
NoEpoch == [epoch |-> 0]
Rank == [NORMAL |-> 0, CAUTION |-> 1, DEFENSIVE |-> 2, PRESERVATION |-> 3]

VARIABLES
    account,   \* cash, shares, price, liquidation cost, day, phase and
               \* stock-event facts
    snaps,     \* snapshots since the accounting cutoff, the latest last
    pending,   \* transfer entries the capital state has not processed
    confirmed, \* authorizations the user confirmed, all effective
    fresh,     \* the last one was confirmed after the last recorded state
    state,     \* the retained DrawdownState
    fair,      \* units of one who saw every transfer as it happened
    calm       \* closes observed in calm, and the risk state they were in

epochVars == <<account, snaps, pending, confirmed, fresh, state, fair, calm>>

-----------------------------------------------------------------------------
(* Exact ratios: pairs in lowest terms with a positive denominator.        *)

gcd[p \in Nat \X Nat] == IF p[2] = 0 THEN p[1] ELSE gcd[<<p[2], p[1] % p[2]>>]

Ratio(n, d) ==
    LET m == IF n < 0 THEN -n ELSE n
        g == gcd[<<m, d>>]
    IN  <<n \div g, d \div g>>

Zero == <<0, 1>>
One == <<1, 1>>
Plus(r, s) == Ratio(r[1] * s[2] + s[1] * r[2], r[2] * s[2])
Times(r, s) == Ratio(r[1] * s[1], r[2] * s[2])
Over(r, s) == Ratio(r[1] * s[2], r[2] * s[1])
Less(r, s) == r[1] * s[2] < s[1] * r[2]
Larger(r, s) == IF Less(r, s) THEN s ELSE r
Fall(nav, peak) == Plus(One, Over(<<-nav[1], nav[2]>>, peak))

-----------------------------------------------------------------------------
(* The account.                                                            *)

(* The session that closed last. *)
LastClose == IF account.phase = "closed" THEN account.day ELSE account.day - 1

(* Equity is what would be left of cash and the holding if it were sold.   *)
HoldingValue == account.shares * account.price
Equity == account.cash + HoldingValue - account.cost

(* A position snapshot: its equity and how many pending transfers it holds. *)
Snapshot == [equity |-> Equity, moved |-> Len(pending)]

(* What a market move or a trade leaves of the account. *)
Moved(acc) ==
    \E cost \in Costs[acc.shares] : account' = [acc EXCEPT !.cost = cost, !.still = FALSE]

Trade(q) ==
    /\ account.phase = "open"
    /\ account.traded < account.horizon.trades
    /\ account.shares + q \in 0 .. MaxShares
    /\ account.cash - q * account.price >= 0
    /\ Moved([account EXCEPT !.shares = @ + q, !.cash = @ - q * account.price,
                             !.lastStock = account.day, !.stock = @ + 1,
                             !.traded = @ + 1, !.atClose = FALSE])
    /\ UNCHANGED <<snaps, pending, confirmed, fresh, state, fair, calm>>

CloseSession(p) ==
    /\ account.phase = "open"
    /\ Moved([account EXCEPT !.price = p, !.phase = "closed", !.atClose = TRUE])
    /\ UNCHANGED <<snaps, pending, confirmed, fresh, state, fair, calm>>

NextDay ==
    /\ account.phase = "closed"
    /\ account.day < account.horizon.days
    /\ account' = [account EXCEPT !.day = @ + 1, !.phase = "open"]
    /\ UNCHANGED <<snaps, pending, confirmed, fresh, state, fair, calm>>

(* The portfolio is held in two accounts, and a transfer has an entry in   *)
(* each whose cash or shares it moves: from outside, to it, or from one    *)
(* account to the other.                                                   *)
Accounts == {1, 2}
Nothing == <<0, 0>>
Both(amounts) == amounts[1] + amounts[2]

(* What the holding may cost to liquidate after a transfer of shares.      *)
CostsAfter(shares) ==
    IF shares = Nothing THEN {account.cost} ELSE Costs[account.shares + Both(shares)]

(* A deposit, a withdrawal, or shares moved in kind.  The account may be   *)
(* valued just before: the snapshot is the last one that has not expired   *)
(* when the transfer occurs.                                               *)
Transfer(cash, shares) ==
    /\ account.moved < account.horizon.transfers
    /\ \A a \in Accounts : account.cash + cash[a] >= 0 /\ account.shares + shares[a] >= 0
    /\ account.cash + Both(cash) >= 0
    /\ account.shares + Both(shares) \in 0 .. MaxShares
    /\ \E cost \in CostsAfter(shares) :
          account' = [account EXCEPT !.cash = @ + Both(cash), !.shares = @ + Both(shares),
                                     !.cost = cost,
                                     !.moved = @ + 1, !.atClose = FALSE, !.still = TRUE,
                                     !.lastStock = IF shares = Nothing THEN @ ELSE account.day,
                                     !.stock = IF shares = Nothing THEN @ ELSE @ + 1]
    /\ IF state.epoch = 0 THEN UNCHANGED <<snaps, pending>>
       ELSE /\ snaps' = IF account.still /\ Len(pending) = 0 THEN snaps
                        ELSE Append(snaps, Snapshot)
            /\ pending' = Append(pending, [cash |-> cash, shares |-> shares,
                                           last |-> Len(snaps')])
    /\ fair' = IF Equity <= 0 THEN fair
               ELSE Times(fair, Ratio(Equity + Both(cash) + Both(shares) * account.price, Equity))
    /\ UNCHANGED <<confirmed, fresh, state, calm>>

(* The user confirms the next authorization; it is effective at once. *)
ConfirmBudget ==
    /\ confirmed < Len(Budgets)
    /\ confirmed' = confirmed + 1
    /\ fresh' = TRUE
    /\ UNCHANGED <<account, snaps, pending, state, fair, calm>>

-----------------------------------------------------------------------------
(* Unit accounting of declared flows (adjusted_units).                     *)

(* The ledger entries of a transfer, and of the first n. *)
Entries(k) ==
    {<<k, a>> : a \in {b \in Accounts : pending[k].cash[b] # 0 \/ pending[k].shares[b] # 0}}
TransferKeys(n) == UNION {Entries(k) : k \in 1 .. n}

(* What a flow moved: the cash of its entries, and their shares at the     *)
(* market price of the command's own snapshot.                             *)
FlowAmount(f) ==
    LET of(a) == IF <<f.at, a>> \notin f.keys THEN 0
                 ELSE pending[f.at].cash[a] + pending[f.at].shares[a] * account.price
    IN  of(1) + of(2)

(* The entries of a flow occurred at its instant.  A flow in kind is       *)
(* valued by the command's own snapshot, which must be effective then.     *)
FlowValued(f) ==
    \A key \in f.keys :
        /\ key[1] = f.at
        /\ pending[key[1]].shares[key[2]] # 0 => key[1] = Len(pending) /\ account.still

(* A transfer between accounts moves nothing in or out.                    *)
FlowReconciled(f) ==
    f.kind = "INTERNAL" => FlowAmount(f) = 0 /\ {key[2] : key \in f.keys} = Accounts

FlowOfAnyAge(a, f) ==
    /\ f.before <= pending[f.at].last
    /\ a.at > 0 => f.before > pending[a.at].last
    /\ TransferKeys(snaps[f.before].moved) = a.keys

(* The snapshot before a flow follows the preceding flow, holds exactly    *)
(* the transfers processed so far and has not expired.                     *)
FlowInSequence(a, f) ==
    /\ f.before <= pending[f.at].last
    /\ a.at > 0 => f.before > pending[a.at].last
    /\ TransferKeys(snaps[f.before].moved) = a.keys
    /\ f.before >= pending[f.at].last

FlowApplied(a, f) ==
    LET equity == snaps[f.before].equity
        nav == Over(<<equity, 1>>, a.units)
        peak == Larger(a.peak, nav)
        units == IF f.kind = "INTERNAL" THEN a.units
                 ELSE Plus(a.units, Over(<<FlowAmount(f), 1>>, nav))
    IN  IF /\ a.valid
           /\ FlowInSequence(a, f)
           /\ equity > 0 /\ Less(Zero, a.units)
           /\ FlowValued(f)
           /\ FlowReconciled(f)
           /\ ~Less(units, Zero)
        THEN [a EXCEPT !.units = units, !.peak = peak, !.keys = @ \union f.keys,
                       !.at = f.at, !.dip = Larger(@, Fall(nav, peak))]
        ELSE [a EXCEPT !.valid = FALSE]

(* Every new transfer is declared once, in flows at increasing instants.   *)
FlowsCover(flows) ==
    /\ UNION {flows[i].keys : i \in DOMAIN flows} = TransferKeys(Len(pending))
    /\ \A i, j \in DOMAIN flows :
           i < j => /\ flows[i].keys \intersect flows[j].keys = {}
                    /\ flows[i].at < flows[j].at

AdjustedUnits(flows) ==
    LET fold[i \in 0 .. Len(flows)] ==
            IF i = 0
            THEN [valid |-> FlowsCover(flows), units |-> state.units,
                  peak |-> state.peak, dip |-> Zero, keys |-> {}, at |-> 0]
            ELSE FlowApplied(fold[i - 1], flows[i])
    IN  fold[Len(flows)]

(* What a command may declare: some entries, each group at the instant of  *)
(* a transfer, as from outside or internal and valued at some snapshot; two *)
(* groups are single entries or all those of a transfer.                   *)
Declarations ==
    LET flows(K) == [keys : K, at : DOMAIN pending, kind : {"EXTERNAL", "INTERNAL"},
                     before : DOMAIN snaps]
        all == TransferKeys(Len(pending))
        part == flows({{key} : key \in all} \union {Entries(k) : k \in DOMAIN pending})
    IN  {<<>>} \union {<<f>> : f \in flows((SUBSET all) \ {{}})}
               \union {<<f, g>> : f, g \in part}

-----------------------------------------------------------------------------
(* The decision (adjudicate).                                              *)

(* While an epoch is open the last effective authorization governs it,     *)
(* whichever one the command names.                                        *)
Capital(named) == IF state.epoch = 0 \/ state.status = "OPEN" THEN confirmed ELSE named

Expired(a) == account.day >= Budgets[a].expires

RaisedRisk(risk, dip, budget) ==
    IF ~Less(dip, budget.preservation) THEN "PRESERVATION"
    ELSE IF risk # "PRESERVATION" /\ ~Less(dip, budget.defensive) THEN "DEFENSIVE"
    ELSE IF risk = "NORMAL" /\ ~Less(dip, budget.caution) THEN "CAUTION"
    ELSE risk

(* The session a command names counts only on a snapshot of its own close. *)
ObservedClose(s) == s = LastClose /\ account.atClose
InvalidPeriod(s) == s # 0 /\ ~ObservedClose(s)
NewClose(s) == ObservedClose(s) /\ s > state.lastObserved

Calm(risk, o) ==
    \/ /\ risk = "CAUTION"
       /\ Less(o.dip, o.budget.caution)
       /\ Less(o.fall, DrawdownPolicy.cautionRatio)
    \/ /\ risk = "DEFENSIVE"
       /\ Less(o.dip, o.budget.defensive)
       /\ Less(o.fall, DrawdownPolicy.defensiveRatio)
       /\ ~Less(Times(<<Equity, 1>>, DrawdownPolicy.exposure), <<HoldingValue, 1>>)

SessionsRequired(risk) ==
    IF risk = "CAUTION" THEN DrawdownPolicy.cautionSessions ELSE DrawdownPolicy.defensiveSessions

StepDown(risk) == IF risk = "CAUTION" THEN "NORMAL" ELSE "CAUTION"

(* A close that does not follow the last counted one starts a new run. *)
RecoveryCountWithGaps(s) == state.recovery + 1
RecoveryCount(s) == IF state.lastRecovery = s - 1 THEN state.recovery + 1 ELSE 1

(* The recovery count after an observation, and the risk state it leaves.  *)
Recovery(o) ==
    LET risk == RaisedRisk(state.risk, o.dip, o.budget)
        count == RecoveryCount(o.session)
        kept == [risk |-> risk, recovery |-> state.recovery,
                 lastRecovery |-> state.lastRecovery]
    IN  IF ~(risk = state.risk /\ o.clear /\ ~InvalidPeriod(o.session) /\ o.known
             /\ Calm(risk, o))
        THEN [risk |-> risk, recovery |-> 0, lastRecovery |-> 0]
        ELSE IF ~NewClose(o.session) THEN kept
        ELSE IF count >= SessionsRequired(risk)
             THEN [risk |-> StepDown(risk), recovery |-> 0, lastRecovery |-> 0]
             ELSE [risk |-> risk, recovery |-> count, lastRecovery |-> o.session]

NewStock == account.stock > state.stock

TradedSinceUnseen(s) == NewStock
TradedSince(s) == account.lastStock >= s

(* Sessions cooled after an observation of a closed epoch.                 *)
Cooling(o, r) ==
    LET still == o.zero /\ o.clear
        counted == /\ still /\ NewClose(o.session)
                   /\ o.session > state.closedDay
                   /\ ~TradedSince(o.session)
        follows == state.lastRecovery = o.session - 1 /\ ~NewStock
    IN  IF counted
        THEN [cooling |-> IF follows THEN state.cooling + 1 ELSE 1,
              lastRecovery |-> o.session]
        ELSE IF still /\ ~NewStock /\ ~InvalidPeriod(o.session)
        THEN [cooling |-> state.cooling, lastRecovery |-> state.lastRecovery]
        ELSE [cooling |-> 0, lastRecovery |-> r.lastRecovery]

NewEpoch(epoch, a, session) ==
    [epoch |-> epoch, auth |-> a, units |-> <<Equity, 1>>, peak |-> One, known |-> TRUE,
     fall |-> Zero, risk |-> "NORMAL", blocked |-> Expired(a), recovery |-> 0,
     lastRecovery |-> 0, lastObserved |-> IF ObservedClose(session) THEN session ELSE 0,
     stock |-> account.stock, status |-> "OPEN", closedDay |-> 0, cooling |-> 0]

(* A session is remembered as observed even when it earns nothing. *)
LastObserved(s) ==
    IF ObservedClose(s) THEN Max({state.lastObserved, s}) ELSE state.lastObserved

(* A CLOSE closes an open epoch whose account is fully reconciled to zero. *)
Closes(op, zero) == op = "CLOSE" /\ zero /\ state.status = "OPEN"

(* The state an accepted observation leaves; a CLOSE that is refused still *)
(* observes.                                                               *)
ObservedState(closes, a, acc, o) ==
    LET r == Recovery(o)
        c == Cooling(o, r)
        s == [state EXCEPT
                !.auth = a, !.units = acc.units, !.peak = o.peak, !.known = o.known,
                !.fall = o.fall, !.risk = r.risk, !.stock = account.stock,
                !.lastObserved = LastObserved(o.session)]
    IN  [s EXCEPT
           !.status = IF closes THEN "CLOSED" ELSE @,
           !.closedDay = IF closes THEN account.day ELSE @,
           !.recovery = IF closes \/ state.status = "CLOSED" THEN 0 ELSE r.recovery,
           !.lastRecovery = IF closes THEN 0
                            ELSE IF state.status = "CLOSED" THEN c.lastRecovery
                            ELSE r.lastRecovery,
           !.cooling = IF state.status = "CLOSED" THEN c.cooling ELSE 0,
           !.blocked = \/ r.risk # "NORMAL" \/ closes \/ state.status = "CLOSED"
                       \/ Expired(a) \/ ~o.known]

(* Evidence that cannot be used keeps the epoch and ends every count.      *)
Retained ==
    [state EXCEPT !.known = FALSE, !.fall = Zero, !.blocked = TRUE, !.recovery = 0,
                  !.lastRecovery = 0, !.cooling = 0]

Accounted ==
    /\ pending' = <<>>
    /\ snaps' = <<[equity |-> Equity, moved |-> 0]>>
    /\ account' = [account EXCEPT !.still = TRUE]

(* The closes observed in calm since the risk state last changed or        *)
(* anything but calm was observed.                                         *)
CalmAfter(o) ==
    [risk |-> state.risk,
     days |-> IF ~(o.known /\ o.clear /\ Calm(state.risk, o)) THEN {}
              ELSE (IF calm.risk = state.risk THEN calm.days ELSE {})
                   \union {d \in {LastClose} : account.atClose}]

NoCalm == [risk |-> "NORMAL", days |-> {}]

OpenEpoch(session) ==
    /\ state.epoch = 0
    /\ confirmed > 0
    /\ ~Expired(confirmed)
    /\ Equity > 0
    /\ state' = NewEpoch(1, confirmed, session)
    /\ fair' = state'.units
    /\ calm' = NoCalm
    /\ fresh' = FALSE
    /\ Accounted
    /\ UNCHANGED confirmed

(* OBSERVE and CLOSE on usable evidence whose flows account for every new  *)
(* transfer.                                                               *)
Observe(closes, a, session, clear, zero, acc) ==
    /\ state.epoch > 0
    /\ acc.valid
    /\ LET known == acc.units # Zero
           nav == Over(<<Equity, 1>>, acc.units)
           peak == IF known THEN Larger(acc.peak, nav) ELSE acc.peak
           fall == IF known THEN Fall(nav, peak) ELSE Zero
           o == [budget |-> Budgets[a], session |-> session, clear |-> clear,
                 zero |-> zero, known |-> known,
                 peak |-> peak, fall |-> fall, dip |-> Larger(acc.dip, fall)]
       IN  /\ state' = ObservedState(closes, a, acc, o)
           /\ calm' = CalmAfter(o)
    /\ fresh' = FALSE
    /\ Accounted
    /\ UNCHANGED <<confirmed, fair>>

(* The evidence of any command but OPEN is missing, stale or incomplete.   *)
UnknownEvidence ==
    /\ state.epoch > 0
    /\ state' = Retained
    /\ calm' = NoCalm
    /\ fresh' = FALSE
    /\ UNCHANGED <<account, snaps, pending, confirmed, fair>>

MayReauthorize ==
    /\ state.epoch > 0
    /\ state.status = "CLOSED"
    /\ state.cooling >= DrawdownPolicy.cooling
    /\ state.auth # confirmed
    /\ fresh
    /\ ~Expired(confirmed)
    /\ Equity > 0
    /\ account.shares = 0

(* A fresh authorization opens the next epoch on a cooled, empty account. *)
Reauthorize(session) ==
    /\ MayReauthorize
    /\ ~NewStock
    /\ state' = NewEpoch(state.epoch + 1, confirmed, session)
    /\ fair' = state'.units
    /\ calm' = NoCalm
    /\ fresh' = FALSE
    /\ Accounted
    /\ UNCHANGED confirmed

(* Stock moved since the last observation: the cooling starts over. *)
ReauthorizeDenied ==
    /\ MayReauthorize
    /\ NewStock
    /\ UnknownEvidence

-----------------------------------------------------------------------------
EpochInit ==
    \E h \in Horizons : \E p \in h.prices, c \in Costs[h.shares] :
        /\ account = [cash |-> OpeningCash, shares |-> h.shares, price |-> p, cost |-> c,
                      day |-> 1, phase |-> "open", atClose |-> FALSE,
                      still |-> TRUE, lastStock |-> 0, stock |-> 0, traded |-> 0, moved |-> 0,
                      horizon |-> h]
        /\ snaps = <<[equity |-> Equity, moved |-> 0]>>
        /\ pending = <<>>
        /\ confirmed = 1
        /\ fresh = TRUE
        /\ state = NoEpoch
        /\ fair = One
        /\ calm = NoCalm

(* A command may name no session (0), the last that closed or an earlier one. *)
Named == {0, LastClose, Max({0, LastClose - 1})}

EpochNext ==
    \/ \E q \in {-1, 1} : Trade(q)
    \/ \E p \in account.horizon.prices : CloseSession(p)
    \/ NextDay
    \/ \E m \in account.horizon.moves : Transfer(m.cash, m.shares)
    \/ ConfirmBudget
    \/ \E session \in Named : OpenEpoch(session)
    \/ /\ state.epoch > 0
       /\ \E acc \in {AdjustedUnits(flows) : flows \in Declarations},
             a \in {Capital(named) : named \in 1 .. confirmed} :
             /\ acc.valid
             /\ \E session \in Named, clear \in BOOLEAN,
                   zero \in {settled /\ account.shares = 0 : settled \in BOOLEAN} :
                   \E closes \in {Closes(op, zero) : op \in {"OBSERVE", "CLOSE"}} :
                      Observe(closes, a, session, clear, zero, acc)
    \/ UnknownEvidence
    \/ \E session \in Named : Reauthorize(session)
    \/ ReauthorizeDenied

EpochSpec == EpochInit /\ [][EpochNext]_epochVars

-----------------------------------------------------------------------------
(* Properties.                                                             *)

(* Units computed afterwards, from the flows a command declares and the    *)
(* snapshots before them, are those of an accountant who sees every        *)
(* transfer as it happens and issues or cancels units at the net value a   *)
(* unit has just then: a transfer of cash, and one between accounts, leaves *)
(* the unit value alone, and one in kind changes it by what the holding    *)
(* then costs more or less to liquidate.  However transfers, trades and    *)
(* closes were interleaved, and whatever else was declared.                *)
UnitsAreFair ==
    state.epoch > 0 /\ pending = <<>> => state.units = fair

(* Within an epoch risk falls by one level at a time, never out of         *)
(* PRESERVATION, and only on a run of consecutive session closes, as long  *)
(* as the policy asks for that level, each observed once in calm with      *)
(* nothing but calm observed in between.                                   *)
RecoveryIsEarned ==
    [][(state.epoch > 0 /\ state'.epoch = state.epoch /\ Rank[state'.risk] < Rank[state.risk])
         => /\ Rank[state'.risk] = Rank[state.risk] - 1
            /\ state.risk # "PRESERVATION"
            /\ calm'.risk = state.risk
            /\ (LastClose - SessionsRequired(state.risk) + 1) .. LastClose
                   \subseteq calm'.days]_epochVars

(* A closed epoch gives way to a new one only after as many consecutive    *)
(* sessions as the policy demands, all after the day of the closing, with  *)
(* no stock bought, sold or moved on or after the first of them.           *)
CoolingIsIdle ==
    [][(state.epoch > 0 /\ state'.epoch # state.epoch)
         => \E d \in state.closedDay + 1 .. account.day :
               /\ d + DrawdownPolicy.cooling - 1 <= account.day
               /\ account.lastStock < d
               /\ account.shares = 0]_epochVars
=============================================================================
