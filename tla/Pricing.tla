------------------------------- MODULE Pricing -------------------------------
(***************************************************************************)
(* A registration's price: worked out by the server (pricing.py) and, while *)
(* the form is filled in, by the browser (calculatePrice.ts); and stored    *)
(* with the registration, by whoever saves something it depends on          *)
(* (Registration.recalculate_server_pricing), several of them at once.      *)
(* Registrars set a line's amount in a dialog (PriceLines, OverrideModal).  *)
(*                                                                         *)
(* Amounts are whole dollars, as the rules' are by convention, and every    *)
(* line is a number.  An expression adds a fixed amount, the camper's       *)
(* answer, the camper's charges and lines worked out before it.             *)
(***************************************************************************)
EXTENDS Integers, SequencesExt

CONSTANTS None,
          CamperIds,        \* the registration's campers, in order
          RegLogic, CampLogic, \* the event's price lines
          Answers, Charges, Amounts, \* what campers answer, are charged, registrars set
          Codes,            \* promo codes: a scope and a line
          Desks,            \* the registrars
          MaxWrites         \* bounds the saves in a run

VARIABLES
  rows,     \* what the price depends on
  price,    \* as stored
  dialog,   \* by registrar: the override dialog, if open
  write,    \* by registrar: their save under way
  lock,     \* who holds the registration's row
  crossed,  \* whether something was added during another save since the last one alone
  writes

priceVars == <<rows, price, dialog, write, lock, crossed, writes>>

CampersOf == {CamperIds[i] : i \in DOMAIN CamperIds}
VarsOf(logic) == {logic[i].var : i \in DOMAIN logic}
Vars == VarsOf(RegLogic) \cup VarsOf(CampLogic)
\* A line that can be overridden: a camper's, or the registration's.
Lines == {<<None, v>> : v \in VarsOf(RegLogic) \ {"total"}}
           \cup CampersOf \X (VarsOf(CampLogic) \ {"total"})

Override == [amount : Amounts, version : 1..(MaxWrites + 1)]
RowsType == [answer : [CampersOf -> Answers], live : [CampersOf -> BOOLEAN],
             charge : [CampersOf -> Charges \cup {0}], code : Codes \cup {None},
             override : [Lines -> Override \cup {None}]]
Idle == [at |-> "idle"]
Closed == [at |-> "closed"]

-----------------------------------------------------------------------------
(* The price, as the server works it out *)

Sums(line, data, camper) ==
  line.fixed + (IF line.answer THEN camper.answer ELSE 0) + (IF line.charges THEN camper.charge ELSE 0)
    + FoldFunctionOnSet(+, 0, data, line.vars)

Nobody == [answer |-> 0, charge |-> 0]
NoLines == [v \in Vars |-> 0]
AtLeastZero(n) == IF n < 0 THEN 0 ELSE n
Least(m, n) == IF m < n THEN m ELSE n

Floored(total) == AtLeastZero(total)

Person(of, c) == [answer |-> of.answer[c], charge |-> of.charge[c]]
LiveCampers(of) == SelectSeq(CamperIds, LAMBDA c : of.live[c])

\* A line worked out, or overridden, is what the lines after it add.
ServerLine(acc, line, who, camper, override) ==
  LET worked == Sums(line, acc.data, camper)
      set == override[<<who, line.var>>]
      amount == IF line.var = "total" THEN IF who = None THEN worked ELSE Floored(worked)
                ELSE IF set = None THEN worked ELSE set.amount IN
  [data |-> [acc.data EXCEPT ![line.var] = amount], own |-> [acc.own EXCEPT ![line.var] = amount]]

ServerLines(logic, data, who, camper, override) ==
  FoldLeft(LAMBDA acc, line : ServerLine(acc, line, who, camper, override), [data |-> data, own |-> NoLines], logic)

\* A camper's lines add to the registration's of the same names.
ServerCamper(acc, of, c) ==
  LET done == ServerLines(CampLogic, acc.data, c, Person(of, c), of.override) IN
  [data |-> done.data, lines |-> [v \in Vars |-> acc.lines[v] + done.own[v]],
   campers |-> Append(acc.campers, [lines |-> done.own, promo |-> 0])]

Discount(code, data, camper, cap) == AtLeastZero(Least(Sums(code.line, data, camper), cap))

\* A code for each camper sees that camper's lines.
SeenBy(data, lines) == [v \in Vars |-> IF v \in VarsOf(CampLogic) THEN lines[v] ELSE data[v]]

\* A camper's discount is no more than their total, nor than is left of the registration's.
ServerCamperPromo(acc, i, of) ==
  LET lines == acc.campers[i].lines
      off == Discount(of.code, SeenBy(acc.data, lines), Person(of, LiveCampers(of)[i]),
                      AtLeastZero(Least(lines["total"], acc.remaining))) IN
  [acc EXCEPT !.remaining = @ - off, !.promo = @ + off,
              !.campers = [@ EXCEPT ![i] = [lines |-> [lines EXCEPT !["total"] = @ - off], promo |-> off]]]

ServerPromo(of, priced) ==
  LET remaining == AtLeastZero(priced.lines["total"])
      each == FoldLeftDomain(LAMBDA acc, i : ServerCamperPromo(acc, i, of),
                [data |-> priced.data, remaining |-> remaining, promo |-> 0, campers |-> priced.campers],
                priced.campers)
      off == IF of.code.scope = "camper" THEN each.promo ELSE Discount(of.code, priced.lines, Nobody, remaining) IN
  [lines |-> [priced.lines EXCEPT !["total"] = @ - off], promo |-> off,
   campers |-> IF of.code.scope = "camper" THEN each.campers ELSE priced.campers]

ServerPrice(of) ==
  LET start == ServerLines(RegLogic, NoLines, None, Nobody, of.override)
      all == FoldLeft(LAMBDA acc, c : ServerCamper(acc, of, c),
                      [data |-> start.data, lines |-> start.own, campers |-> <<>>], LiveCampers(of))
      priced == [all EXCEPT !.lines = [@ EXCEPT !["total"] = Floored(@)]] IN
  IF of.code = None THEN [lines |-> priced.lines, promo |-> 0, campers |-> priced.campers]
  ELSE ServerPromo(of, priced)

-----------------------------------------------------------------------------
(* The price, as the browser works it out while the form is filled in: there are no overrides *)
(* yet, nor charges.                                                                          *)

ClientRegistration ==
  FoldLeft(LAMBDA data, line : [data EXCEPT ![line.var] = Sums(line, data, Nobody)], NoLines, RegLogic)

FlooredTotal(var, value) == IF var = "total" THEN AtLeastZero(value) ELSE value

ClientCamper(acc, answer) ==
  LET data == FoldLeft(LAMBDA d, line : [d EXCEPT ![line.var] =
                         FlooredTotal(line.var, Sums(line, d, [answer |-> answer, charge |-> 0]))],
                       acc.data, CampLogic)
      own == [v \in Vars |-> IF v \in VarsOf(CampLogic) THEN data[v] ELSE 0] IN
  [data |-> data, sums |-> [v \in Vars |-> acc.sums[v] + own[v]], campers |-> Append(acc.campers, own)]

\* What a code for each camper has taken off before each of them, and in the end.
TakenOff(code, done, answers, total) ==
  FoldLeftDomain(LAMBDA offs, i :
      LET so == offs[Len(offs)]
          cap == AtLeastZero(Least(done.campers[i]["total"], total - so)) IN
      Append(offs, so + Discount(code, SeenBy(done.data, done.campers[i]), [answer |-> answers[i], charge |-> 0], cap)),
    <<0>>, done.campers)

ClientPrice(of) ==
  LET answers == [i \in DOMAIN LiveCampers(of) |-> of.answer[LiveCampers(of)[i]]]
      done == FoldLeft(ClientCamper, [data |-> ClientRegistration, sums |-> ClientRegistration, campers |-> <<>>], answers)
      lines == [done.sums EXCEPT !["total"] = AtLeastZero(@)]
      each == of.code # None /\ of.code.scope = "camper"
      offs == IF each THEN TakenOff(of.code, done, answers, lines["total"])
              ELSE [i \in 1..(Len(answers) + 1) |-> 0]
      promo == IF of.code = None THEN 0
               ELSE IF each THEN offs[Len(offs)] ELSE Discount(of.code, lines, Nobody, lines["total"]) IN
  [lines |-> [lines EXCEPT !["total"] = @ - promo], promo |-> promo,
   campers |-> [i \in DOMAIN answers |->
                  [lines |-> [done.campers[i] EXCEPT !["total"] = @ - (offs[i + 1] - offs[i])],
                   promo |-> offs[i + 1] - offs[i]]]]

-----------------------------------------------------------------------------
(* Saving what the price depends on *)

\* Registrations and their campers are made together, and priced as they are; here, with the
\* same answer to begin with, and some lines overridden already.
PricingInit ==
  /\ \E answer \in Answers, code \in Codes \cup {None},
        override \in [Lines -> [amount : Amounts, version : {1}] \cup {None}] :
       rows = [answer |-> [c \in CampersOf |-> answer], live |-> [c \in CampersOf |-> TRUE],
               charge |-> [c \in CampersOf |-> 0], code |-> code, override |-> override]
  /\ price = ServerPrice(rows)
  /\ dialog = [d \in Desks |-> Closed]
  /\ write = [d \in Desks |-> Idle]
  /\ lock = None
  /\ crossed = FALSE
  /\ writes = 0

UnderWay == {d \in Desks : write[d] # Idle}

Change(what, of, to) == [what |-> what, of |-> of, to |-> to]

Changed(of, change) ==
  IF change.what = "code" THEN [of EXCEPT !.code = change.to]
  ELSE [of EXCEPT ![change.what] = [@ EXCEPT ![change.of] = change.to]]

Begin(d, at, change) ==
  /\ writes < MaxWrites
  /\ writes' = writes + 1
  /\ write' = [e \in Desks |->
                 IF e = d THEN [at |-> at, change |-> change, alone |-> UnderWay = {},
                                seen |-> IF dialog[d] = Closed THEN None ELSE dialog[d].shown]
                 ELSE IF e \in UnderWay THEN [write[e] EXCEPT !.alone = FALSE] ELSE Idle]
  /\ crossed' = \/ crossed
                \/ at = "added" /\ UnderWay # {}
                \/ \E e \in UnderWay : write[e].at \in {"added", "priced"}

\* A save of a record there is takes the registration before it reads the record, and is seen by
\* others once it has repriced it.
Take(d, change) ==
  /\ write[d] = Idle /\ lock = None
  /\ Begin(d, "held", change)
  /\ lock' = d
  /\ UNCHANGED <<rows, price>>

\* A record's own row refers to the one it is part of, which a save holding it keeps it from.
KeptOut(change) ==
  /\ lock # None
  /\ \/ change.what = "override"
     \/ change.what = "charge" /\ write[lock].change.what \in {"answer", "live"} /\ write[lock].change.of = change.of

\* One that's added, or restored, takes nothing: it is seen at once, and repriced after.
Add(d, change) ==
  /\ write[d] = Idle /\ ~KeptOut(change)
  /\ Begin(d, "added", change)
  /\ rows' = Changed(rows, change)
  /\ UNCHANGED <<price, lock>>

Reprice(d) ==
  /\ write[d].at \in {"held", "added"}
  /\ write' = [write EXCEPT ![d] = [at |-> IF write[d].at = "held" THEN "repriced" ELSE "priced",
                                    change |-> write[d].change, alone |-> write[d].alone,
                                    seen |-> write[d].seen,
                                    price |-> ServerPrice(Changed(rows, write[d].change))]]
  /\ UNCHANGED <<rows, price, dialog, lock, crossed, writes>>

Store(d) ==
  /\ \/ write[d].at = "repriced" /\ rows' = Changed(rows, write[d].change) /\ lock' = None
     \/ write[d].at = "priced" /\ lock = None /\ UNCHANGED <<rows, lock>>
  /\ price' = write[d].price
  /\ crossed' = (crossed /\ ~write[d].alone)
  /\ write' = [write EXCEPT ![d] = Idle]
  /\ dialog' = IF write[d].change.what = "override" THEN [dialog EXCEPT ![d] = Closed] ELSE dialog
  /\ UNCHANGED writes

EditCamper(d, c, answer) ==
  /\ rows.live[c] /\ answer # rows.answer[c]
  /\ Take(d, Change("answer", c, answer))
  /\ UNCHANGED dialog

DeleteCamper(d, c) ==
  /\ rows.live[c]
  /\ Take(d, Change("live", c, FALSE))
  /\ UNCHANGED dialog

RestoreCamper(d, c) ==
  /\ ~rows.live[c]
  /\ Add(d, Change("live", c, TRUE))
  /\ UNCHANGED dialog

AddCharge(d, c, charge) ==
  /\ rows.live[c] /\ rows.charge[c] = 0 /\ charge # 0
  /\ Add(d, Change("charge", c, charge))
  /\ UNCHANGED dialog

SetCode(d, code) ==
  /\ code # rows.code
  /\ Take(d, Change("code", None, code))
  /\ UNCHANGED dialog

-----------------------------------------------------------------------------
(* Overriding a line *)

\* A registrar turns to another line once their save is over.
Choose(d, line) ==
  /\ write[d] = Idle /\ dialog[d] = Closed
  /\ line[1] # None => rows.live[line[1]]
  /\ dialog' = [dialog EXCEPT ![d] = [at |-> "open", line |-> line, shown |-> rows.override[line]]]
  /\ UNCHANGED <<rows, price, write, lock, crossed, writes>>

Cancel(d) ==
  /\ dialog[d] # Closed
  /\ dialog' = [dialog EXCEPT ![d] = Closed]
  /\ UNCHANGED <<rows, price, write, lock, crossed, writes>>

\* A line has one override; what's set is added while the line has none.
SetAmount(d, amount) ==
  /\ dialog[d] # Closed /\ dialog[d].shown = None
  /\ rows.override[dialog[d].line] = None
  /\ Add(d, Change("override", dialog[d].line, [amount |-> amount, version |-> 1]))
  /\ UNCHANGED dialog

\* The override is the version the dialog opened at.
Current(d) == rows.override[dialog[d].line] = dialog[d].shown

ChangeAmount(d, amount) ==
  /\ dialog[d] # Closed /\ dialog[d].shown # None /\ amount # dialog[d].shown.amount
  /\ Current(d)
  /\ Take(d, Change("override", dialog[d].line, [amount |-> amount, version |-> rows.override[dialog[d].line].version + 1]))
  /\ UNCHANGED dialog

RemoveOverride(d) ==
  /\ dialog[d] # Closed /\ dialog[d].shown # None
  /\ Current(d)
  /\ Take(d, Change("override", dialog[d].line, None))
  /\ UNCHANGED dialog

\* Refused: someone else's is shown, to save over or keep.
Refused(d) ==
  /\ dialog[d] # Closed /\ dialog[d].shown # None /\ write[d] = Idle /\ lock = None
  /\ ~Current(d) /\ rows.override[dialog[d].line] # None
  /\ dialog' = [dialog EXCEPT ![d] = [@ EXCEPT !.shown = rows.override[dialog[d].line]]]
  /\ UNCHANGED <<rows, price, write, lock, crossed, writes>>

PricingNext ==
  \E d \in Desks :
    \/ \E c \in CampersOf :
         \/ \E n \in Answers : EditCamper(d, c, n)
         \/ \E n \in Charges : AddCharge(d, c, n)
         \/ DeleteCamper(d, c) \/ RestoreCamper(d, c)
    \/ \E code \in Codes \cup {None} : SetCode(d, code)
    \/ \E line \in Lines : Choose(d, line)
    \/ \E n \in Amounts : SetAmount(d, n) \/ ChangeAmount(d, n)
    \/ Cancel(d) \/ RemoveOverride(d) \/ Refused(d) \/ Reprice(d) \/ Store(d)

PricingSpec == PricingInit /\ [][PricingNext]_priceVars

PriceType == [lines : [Vars -> Int], promo : Nat, campers : Seq([lines : [Vars -> Int], promo : Nat])]

PricingTypeOK ==
  /\ rows \in RowsType
  /\ price \in PriceType
  /\ \A d \in Desks :
       /\ dialog[d] = Closed \/ (dialog[d].line \in Lines /\ dialog[d].shown \in Override \cup {None})
       /\ write[d] = Idle \/ write[d].at \in {"held", "added", "repriced", "priced"}
  /\ lock \in Desks \cup {None}
  /\ crossed \in BOOLEAN
  /\ writes \in 0..MaxWrites

-----------------------------------------------------------------------------
(* Properties *)

\* As registered: what a registration is before registrars come to it.
Registered(of) == [of EXCEPT !.charge = [c \in CampersOf |-> 0], !.override = [l \in Lines |-> None]]

\* The price shown while the form is filled in is the one the server comes to (calculatePrice.ts:4,
\* "parity is a hard requirement").
EnginesAgree == ClientPrice(Registered(rows)) = ServerPrice(Registered(rows))

\* A price `now' is in bounds, and its code takes off of the price `before' it what it may.
Holds(now, before) ==
  LET PartOf(i) == Discount(rows.code, SeenBy(before.lines, before.campers[i].lines), Person(rows, LiveCampers(rows)[i]),
                            before.campers[i].lines["total"]) IN
  /\ now.lines["total"] >= 0 /\ \A i \in DOMAIN now.campers : now.campers[i].lines["total"] >= 0
  /\ now.lines["total"] = before.lines["total"] - now.promo
  /\ rows.code # None /\ rows.code.scope = "camper" =>
       now.promo = Least(before.lines["total"], FoldLeftDomain(LAMBDA sum, i : sum + PartOf(i), 0, before.campers))

\* No total is below zero, and a code takes off no more than there is, whatever registrars set
\* and in whichever order the campers come: each camper's part of it, or what the total has left.
TotalsHold == Holds(ServerPrice(rows), ServerPrice([rows EXCEPT !.code = None]))

\* The stored price is that of the records as they are, once nobody is saving, unless something
\* was added or restored while another save was under way.
PricedUnlessCrossed == UnderWay = {} /\ ~crossed => price = ServerPrice(rows)

\* A registrar's save of an override replaces the one they were shown (OverrideModal.tsx).
OverrideAsSeen ==
  [][\A d \in Desks :
       write[d].at = "repriced" /\ write'[d] = Idle /\ write[d].change.what = "override" =>
         rows.override[write[d].change.of] = write[d].seen]_priceVars

\* views.py:234 says every write that reprices a registration takes it first, and DR-56 that an
\* override is applied on every recalculation; two overrides set at once leave a price without
\* one of them, as adding one takes nothing.
PriceIsCurrent == UnderWay = {} => price = ServerPrice(rows)
=============================================================================
