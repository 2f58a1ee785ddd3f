-------------------------- MODULE ContinuousRolling -------------------------
(***************************************************************************)
(* A continuous future (tcg/data/_rolling): contracts one after the other, *)
(* each held up to its roll date, and the prices before a roll adjusted to *)
(* the contract after it.                                                  *)
(*                                                                         *)
(* A contract is [id, expiration, cycle, rows], a row [date, close]; of a  *)
(* bar only the close is kept, the other prices are adjusted alike. Dates  *)
(* are integers YYYYMMDD.                                                  *)
(***************************************************************************)
EXTENDS Floats, Dates, FiniteSets, FiniteSetsExt, SequencesExt

CONSTANT LastTradingDay(_, _)     \* of a year and a month, from the CME calendar
ASSUME PlainCalendar == LastTradingDay(2024, 1) \in Nat

Config(strategy, adjustment, cycle, offset, rank) ==
  [strategy |-> strategy, adjustment |-> adjustment, cycle |-> cycle, offset |-> offset,
   rank |-> rank]

Trades(row) == Positive(row.close)
TradedRows(c) == SelectSeq(c.rows, Trades)
FirstDate(rows) == IF rows = <<>> THEN None ELSE Head(rows).date
FirstTradeable(c) == FirstDate(TradedRows(c))
DatesOf(rows) == {rows[i].date : i \in DOMAIN rows}
CloseOn(rows, d) == rows[CHOOSE i \in DOMAIN rows : rows[i].date = d].close

(***************************************************************************)
(* Which contracts are held, and until when.                               *)
(***************************************************************************)
(* One contract of a month: one that traded, a monthly one, the last.      *)
Preferred(some, all) == IF some = {} THEN all ELSE some
MonthlyOf(pool) == Preferred({c \in pool : c.cycle = "M"}, pool)
LatestOf(pool) ==
  CHOOSE c \in pool : \A d \in pool :
    d.expiration < c.expiration \/ (d.expiration = c.expiration /\ d.id <= c.id)
Representative(members) ==
  LatestOf(MonthlyOf(Preferred({c \in members : FirstTradeable(c) # None}, members)))
OnePerMonth(contracts) ==
  LET Month1(c) == c.expiration \div 100
  IN SetToSortSeq({Representative({d \in Range(contracts) : Month1(d) = Month1(c)}) :
                     c \in Range(contracts)},
                  LAMBDA c, d : c.expiration < d.expiration)

(* An offset of 0 leaves the date alone. *)
Earlier(d, offset) == IF offset = 0 THEN d ELSE DaysBefore(d, offset)
Expirations(contracts, n, offset) ==
  [p \in 1..n |-> Earlier(contracts[p].expiration, offset)]
MonthEnds(contracts, offset) ==
  LET end == [p \in 1..(Len(contracts) - 1) |->
                Earlier(LastTradingDay(Year(contracts[p].expiration),
                                       Month(contracts[p].expiration)), offset)]
      R[p \in 0..(Len(contracts) - 1)] ==         \* a month-end that does not increase is dropped
        IF p = 0 THEN <<>>
        ELSE LET was == R[p - 1]
             IN IF was # <<>> /\ end[p] <= Last(was) THEN was ELSE Append(was, end[p])
  IN R[Len(contracts) - 1]

HeldContracts(all, config) ==
  CASE config.strategy = "end_of_month" -> OnePerMonth(all)
    [] config.strategy = "nth_nearest" -> SubSeq(all, config.rank, Len(all))
    [] config.strategy = "front_month" -> all

(* The n-th nearest rolls when the nearest expires. *)
ScheduledOwn(all, held, config) ==      \* a mutant: when the one that is held expires
  CASE config.strategy = "end_of_month" -> MonthEnds(held, config.offset)
    [] OTHER -> Expirations(held, Len(held) - 1, config.offset)
Scheduled(all, held, config) ==
  CASE config.strategy = "end_of_month" -> MonthEnds(held, config.offset)
    [] OTHER -> Expirations(IF config.strategy = "nth_nearest" THEN all ELSE held,
                            Len(held) - 1, config.offset)

(* With an offset, no roll before the contract that comes in has traded. *)
ClampedNot(held, schedule) == schedule               \* a mutant: the schedule as it is
NotBefore(d, first) == IF first = None THEN d ELSE Max({d, first})
Clamped(held, schedule) ==
  LET V[p \in 1..Len(schedule)] ==
        Max({NotBefore(schedule[p], FirstTradeable(held[p + 1]))}
              \cup (IF p = 1 THEN {} ELSE {V[p - 1]}))
  IN V

(* The rows of a contract between the rolls; a contract left with none is  *)
(* dropped.                                                                *)
Trimmed(held, schedule) ==
  LET n == Len(schedule)
      Within(p, row) ==
        /\ Trades(row)
        /\ p <= n => row.date <= schedule[p]
        /\ 1 < p /\ p <= n + 1 => row.date >= schedule[p - 1]
      cut == [p \in DOMAIN held |->
                [held[p] EXCEPT !.rows = SelectSeq(@, LAMBDA row : Within(p, row))]]
  IN SelectSeq(cut, LAMBDA c : c.rows # <<>>)

(* A date belongs to the last contract that has it, unless a later one has *)
(* already taken over.                                                     *)
OwnerOn(trimmed, d) == Max({p \in DOMAIN trimmed : d \in DatesOf(trimmed[p].rows)})
OwnedDates(trimmed) ==
  LET dates == UNION {DatesOf(trimmed[p].rows) : p \in DOMAIN trimmed}
  IN {d \in dates : \A e \in dates : e < d => OwnerOn(trimmed, e) <= OwnerOn(trimmed, d)}

Spliced(trimmed, dates, owner) ==
  LET new == SelectSeq([i \in DOMAIN dates |-> i], LAMBDA i : i > 1 /\ owner[i] # owner[i - 1])
  IN [rows |-> [i \in DOMAIN dates |->
                  [date |-> dates[i], close |-> CloseOn(trimmed[owner[i]].rows, dates[i])]],
      rolls |-> [k \in DOMAIN new |-> dates[new[k]]],
      held |-> <<trimmed[owner[1]]>> \o [k \in DOMAIN new |-> trimmed[owner[new[k]]]]]
OnDates(trimmed, dates) == Spliced(trimmed, dates, [i \in DOMAIN dates |-> OwnerOn(trimmed, dates[i])])
Concatenated(trimmed) == OnDates(trimmed, SetToSortSeq(OwnedDates(trimmed), <))

(***************************************************************************)
(* The gap at a roll, on the last day both contracts have; else on the day *)
(* of each that is nearest as an integer.                                  *)
(***************************************************************************)
NearestRow(rows, d) ==
  LET after == {i \in DOMAIN rows : rows[i].date >= d}
      i == IF after = {} THEN Len(rows) ELSE Min(after)
  IN IF i > 1 /\ after # {} /\ rows[i].date - d > d - rows[i - 1].date
     THEN rows[i - 1] ELSE rows[i]
GapAt(old, new, roll) ==
  LET shared == {d \in DatesOf(old.rows) \cap DatesOf(new.rows) : d <= roll}
  IN IF shared # {} THEN <<CloseOn(old.rows, Max(shared)), CloseOn(new.rows, Max(shared))>>
     ELSE <<NearestRow(old.rows, roll).close, NearestRow(new.rows, roll).close>>

Adjustable(gap) == \A i \in 1..2 : Positive(gap[i]) /\ IsFinite(gap[i])
AdjustedPrice(method, gap, x) ==
  IF method = "ratio" THEN Mul(x, Div(gap[2], gap[1])) ELSE Add(x, Sub(gap[2], gap[1]))

(* Backwards over the rolls: everything before one is brought to the       *)
(* contract after it.                                                      *)
AdjustedThrough(method, series) ==      \* a mutant: the day of the roll is moved too
  LET n == Len(series.rolls)
      Gap(k) == GapAt(series.held[k], series.held[k + 1], series.rolls[k])
      A[k \in 0..n] ==
        IF k = 0 THEN series.rows
        ELSE LET roll == n + 1 - k
                 was == A[k - 1]
                 gap == Gap(roll)
             IN [i \in DOMAIN was |->
                   IF was[i].date <= series.rolls[roll] /\ Adjustable(gap)
                   THEN [was[i] EXCEPT !.close = AdjustedPrice(method, gap, @)]
                   ELSE was[i]]
  IN A[n]
Adjusted(method, series) ==
  LET n == Len(series.rolls)
      Gap(k) == GapAt(series.held[k], series.held[k + 1], series.rolls[k])
      A[k \in 0..n] ==
        IF k = 0 THEN series.rows
        ELSE LET roll == n + 1 - k
                 was == A[k - 1]
                 gap == Gap(roll)
             IN [i \in DOMAIN was |->
                   IF was[i].date < series.rolls[roll] /\ Adjustable(gap)
                   THEN [was[i] EXCEPT !.close = AdjustedPrice(method, gap, @)]
                   ELSE was[i]]
  IN A[n]

(***************************************************************************)
(* ContinuousSeriesBuilder.build, of contracts in the order in which they  *)
(* expire, as every reader gives them.                                     *)
(***************************************************************************)
NoSeries == [rows |-> <<>>, rolls |-> <<>>, contracts |-> <<>>]
Quoted(contracts) == SelectSeq(contracts, LAMBDA c : c.rows # <<>>)

Schedule(all, held, config) == IF Len(held) <= 1 THEN <<>> ELSE Scheduled(all, held, config)
Rolling(held, schedule, config) ==
  Trimmed(held, IF config.offset > 0 THEN Clamped(held, schedule) ELSE schedule)
CutOf(all, held, config) == Rolling(held, Schedule(all, held, config), config)
Cut(all, config) == CutOf(all, HeldContracts(all, config), config)

Finished(adjustment, series) ==
  [rows |-> IF adjustment = "none" THEN series.rows ELSE Adjusted(adjustment, series),
   rolls |-> series.rolls, contracts |-> [k \in DOMAIN series.held |-> series.held[k].id]]
Joined(trimmed, adjustment) ==
  IF trimmed = <<>> THEN NoSeries ELSE Finished(adjustment, Concatenated(trimmed))
Built(contracts, config) == Joined(Cut(Quoted(contracts), config), config.adjustment)
=============================================================================
