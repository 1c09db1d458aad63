------------------------------- MODULE Rewards -------------------------------
(***************************************************************************)
(* Rewards and their codes (server/database/rewards.go): the forms that    *)
(* store them (server/web/tracker/rewards_new.go, rewards_edit.go), the    *)
(* list operators work through, one code at a time (reward_codes.go), the  *)
(* page of a code (reward_code.go), and the public page that a visitor     *)
(* opens by scanning the link of a code (server/web/rewards/redeem.go).    *)
(*                                                                         *)
(* Nothing reserves a code: the list shows the newest code that is not     *)
(* redeemed, and "next" marks it and shows the list again.  A page stays   *)
(* open while others change what it shows, and a link that was shown can   *)
(* be opened by anybody, at any time.  A handler that checks access and    *)
(* then writes one statement is one step, for only a deletion that         *)
(* cascades to the codes can come in between.                              *)
(***************************************************************************)
EXTENDS Integers, Sequences, FiniteSets, FiniteSetsExt, SequencesExt, Functions

CONSTANTS
  Operators,   \* Discord users, each with the list in one tab
  Shared,      \* those with a row in reward_members, which no code writes
  Visitors,
  Codes,       \* digital codes
  Forms,       \* what is pasted into a form: sequences of codes
  MaxRewards,  \* bound on the rewards created
  MaxRows,     \* bound on reward_code_id
  MaxVisits,   \* bound on the visits counted of a code
  MaxFaults    \* bound on statements that fail

ASSUME RewardsAssumption ==
  /\ Shared \subseteq Operators
  /\ Forms \subseteq Seq(Codes) \ {<<>>}
  /\ {MaxRewards, MaxRows, MaxVisits, MaxFaults} \subseteq Nat
  /\ "none" \notin Codes

VARIABLES
  rewards,  \* the table rewards: who created each
  codes,    \* the table reward_codes by id
  serials,  \* the last id of each table
  form,     \* the codes to insert into the reward just created
  list,     \* the code on each operator's list
  links,    \* the rows whose link a page has shown
  visit,    \* what the request of each visitor has read
  seen,     \* codes shown to visitors, by row
  used,     \* codes marked as used, and since then neither unmarked nor deleted
  stale,    \* operators whose code was marked after they loaded the list
  faults    \* failures so far

tables == <<rewards, codes, serials>>
vars == <<tables, form, list, links, visit, seen, used, stale, faults>>

NoForm == [reward |-> 0, codes |-> <<>>]
NoVisit == [row |-> 0, code |-> "none", counted |-> FALSE]
NoCode == [reward |-> 0, row |-> 0, code |-> "none"]

Row == [code : Codes, reward : DOMAIN rewards, redeemed : BOOLEAN, visited : Nat]

\* Every code belongs to a reward, and to one.
TypeOK ==
  /\ DOMAIN rewards \subseteq 1..MaxRewards /\ Range(rewards) \subseteq Operators
  /\ DOMAIN codes \subseteq 1..MaxRows /\ Range(codes) \subseteq Row
  /\ \A i, j \in DOMAIN codes : codes[i].code = codes[j].code => i = j
  /\ list \in [Operators -> {NoCode} \cup [reward : 1..MaxRewards, row : 1..MaxRows, code : Codes]]
  /\ links \subseteq 1..MaxRows
  /\ seen \subseteq [visitor : Visitors, row : 1..MaxRows, code : Codes]

Fault == faults < MaxFaults /\ faults' = faults + 1

-----------------------------------------------------------------------------
(* Queries. *)

\* The creator of a reward and its members see it.
GetReward(o, r) == r \in DOMAIN rewards /\ (rewards[r] = o \/ o \in Shared)

CodesOf(r) == {i \in DOMAIN codes : codes[i].reward = r}

\* GetRewardCodes with the filter "unredeemed".
GetRewardCodes(r) == {i \in CodesOf(r) : ~codes[i].redeemed}

\* Mutant: a code has one row in each reward.
NewCodesOfReward(r, s) ==
  {i \in DOMAIN s : /\ \A j \in CodesOf(r) : codes[j].code # s[i]
                    /\ \A j \in 1 .. i - 1 : s[j] # s[i]}

\* ON CONFLICT DO NOTHING: the positions in s of codes that have no row.
NewCodes(r, s) ==
  {i \in DOMAIN s : /\ \A j \in DOMAIN codes : codes[j].code # s[i]
                    /\ \A j \in 1 .. i - 1 : s[j] # s[i]}

\* Ids are drawn for every code, stored or not.
InsertRewardCodes(r, s) ==
  codes' = [i \in DOMAIN codes \cup {serials.code + k : k \in NewCodes(r, s)} |->
              IF i \in DOMAIN codes THEN codes[i]
              ELSE [code |-> s[i - serials.code], reward |-> r,
                    redeemed |-> FALSE, visited |-> 0]]

\* Mutant: the newest code of the reward is marked, not the one on the page.
UpdateNewestRedeemed(i, redeemed) ==
  codes' = IF i \in DOMAIN codes
             THEN [codes EXCEPT ![Max({i} \cup GetRewardCodes(codes[i].reward))].redeemed = redeemed]
             ELSE codes

\* Without a row the statement does nothing.  Who redeemed a code, and when,
\* is overwritten with it.
UpdateRewardCodeRedeemed(i, redeemed) ==
  codes' = IF i \in DOMAIN codes THEN [codes EXCEPT ![i].redeemed = redeemed] ELSE codes

-----------------------------------------------------------------------------
(* The forms; one reward is created at a time. *)

InsertReward(o) ==
  LET r == serials.reward + 1 IN
    /\ rewards' = [x \in DOMAIN rewards \cup {r} |-> IF x = r THEN o ELSE rewards[x]]
    /\ serials' = [serials EXCEPT !.reward = r]

\* The reward is stored in a statement of its own.
PostTrackerRewardsNew(o, s) ==
  /\ form = NoForm
  /\ serials.reward < MaxRewards
  /\ InsertReward(o)
  /\ form' = [reward |-> serials'.reward, codes |-> s]
  /\ UNCHANGED <<codes, list, links, visit, seen, used, stale, faults>>

\* reward_code_reward_id references rewards: once the reward is deleted the
\* statement fails, and whatever the failure, no code is stored.
InsertInto(r, s) ==
  \/ /\ r \in DOMAIN rewards
     /\ serials.code + Len(s) <= MaxRows
     /\ InsertRewardCodes(r, s)
     /\ serials' = [serials EXCEPT !.code = @ + Len(s)]
     /\ UNCHANGED faults
  \/ r \notin DOMAIN rewards /\ UNCHANGED <<codes, serials, faults>>
  \/ Fault /\ UNCHANGED <<codes, serials>>

PostCodes ==
  /\ form # NoForm
  /\ InsertInto(form.reward, form.codes)
  /\ form' = NoForm
  /\ UNCHANGED <<rewards, list, links, visit, seen, used, stale>>

\* UpdateReward before it changes the name and the description only.
PostTrackerRewardEdit(r, s) ==
  /\ InsertInto(r, s)
  /\ UNCHANGED <<rewards, form, list, links, visit, seen, used, stale>>

\* ON DELETE CASCADE: the codes are deleted with the reward.
DeleteReward(r) ==
  /\ rewards' = Restrict(rewards, DOMAIN rewards \ {r})
  /\ codes' = Restrict(codes, DOMAIN codes \ CodesOf(r))

\* The codes may be imported anew.
TrackerRewardDelete(r) ==
  /\ r \in DOMAIN rewards
  /\ DeleteReward(r)
  /\ used' = used \ {codes[i].code : i \in CodesOf(r)}
  /\ UNCHANGED <<serials, form, list, links, visit, seen, stale, faults>>

-----------------------------------------------------------------------------
(* The list and the page of a code.  Each shows the link of its code.       *)

\* The newest code that is not redeemed.
TrackerRewardCodes(o, r) ==
  /\ GetReward(o, r)
  /\ LET i == Max({0} \cup GetRewardCodes(r)) IN
       /\ list' = [list EXCEPT ![o] =
                     IF i = 0 THEN NoCode ELSE [reward |-> r, row |-> i, code |-> codes[i].code]]
       /\ links' = links \cup ({i} \ {0})
  /\ stale' = stale \ {o}
  /\ UNCHANGED <<tables, form, visit, seen, used, faults>>

\* Any code, redeemed or not, with any reward the operator can see: nothing
\* checks that the code is one of its codes.
TrackerRewardCode(o, r, i) ==
  /\ GetReward(o, r)
  /\ i \in DOMAIN codes
  /\ links' = links \cup {i}
  /\ UNCHANGED <<tables, form, list, visit, seen, used, stale, faults>>

\* Whoever has the code on a list has loaded it before.
MarkUsed(i, code) ==
  /\ UpdateRewardCodeRedeemed(i, TRUE)
  /\ IF i \in DOMAIN codes
       THEN /\ used' = used \cup {code}
            /\ stale' = stale \cup {o \in Operators : list[o].code = code}
       ELSE UNCHANGED <<used, stale>>

\* A statement that fails leaves the list as it was.
TrackerRewardCodeNext(o) ==
  /\ list[o] # NoCode
  /\ GetReward(o, list[o].reward)
  /\ MarkUsed(list[o].row, list[o].code)
  /\ list' = [list EXCEPT ![o] = NoCode]
  /\ UNCHANGED <<rewards, serials, form, links, visit, seen, faults>>

\* The buttons of the page of a code, which has shown its link.
CodePage(o, r, i) == GetReward(o, r) /\ i \in links \cap DOMAIN codes

TrackerRewardCodeMarkAsUsed(o, r, i) ==
  /\ CodePage(o, r, i)
  /\ MarkUsed(i, codes[i].code)
  /\ UNCHANGED <<rewards, serials, form, list, links, visit, seen, faults>>

TrackerRewardCodeMarkAsUnused(o, r, i) ==
  /\ CodePage(o, r, i)
  /\ UpdateRewardCodeRedeemed(i, FALSE)
  /\ used' = used \ {codes[i].code}
  /\ UNCHANGED <<rewards, serials, form, list, links, visit, seen, stale, faults>>

DeleteRewardCode(i) == codes' = Restrict(codes, DOMAIN codes \ {i})

TrackerRewardCodeDelete(o, r, i) ==
  /\ CodePage(o, r, i)
  /\ DeleteRewardCode(i)
  /\ used' = used \ {codes[i].code}
  /\ UNCHANGED <<rewards, serials, form, list, links, visit, seen, stale, faults>>

-----------------------------------------------------------------------------
(* The visitors, who open any link a page has shown, any number of times. *)

\* A code that was deleted is not found.
GetRewardCodeByRedeemCode(v, i) ==
  /\ visit[v] = NoVisit
  /\ i \in links \cap DOMAIN codes
  /\ visit' = [visit EXCEPT ![v] = [row |-> i, code |-> codes[i].code, counted |-> FALSE]]
  /\ UNCHANGED <<tables, form, list, links, seen, used, stale, faults>>

\* Mutant: visits of a redeemed code are not counted.
CountUnredeemed(i) ==
  codes' = IF i \in DOMAIN codes /\ ~codes[i].redeemed
             THEN [codes EXCEPT ![i].visited = @ + 1] ELSE codes

\* The count is read and written by the statement itself, which does nothing
\* when the row is gone.
IncreaseRewardCodeVisitedCount(i) ==
  codes' = IF i \in DOMAIN codes THEN [codes EXCEPT ![i].visited = @ + 1] ELSE codes

CountVisit(v) ==
  /\ visit[v] # NoVisit /\ ~visit[v].counted
  /\ LET i == visit[v].row IN
       \/ /\ i \in DOMAIN codes => codes[i].visited < MaxVisits
          /\ IncreaseRewardCodeVisitedCount(i)
          /\ visit' = [visit EXCEPT ![v].counted = TRUE]
          /\ UNCHANGED faults
       \/ Fault /\ visit' = [visit EXCEPT ![v] = NoVisit] /\ UNCHANGED codes
  /\ UNCHANGED <<rewards, serials, form, list, links, seen, used, stale>>

\* The page shows the code as it was read before the visit was counted.
Redeem(v) ==
  /\ visit[v].counted
  /\ seen' = seen \cup {[visitor |-> v, row |-> visit[v].row, code |-> visit[v].code]}
  /\ visit' = [visit EXCEPT ![v] = NoVisit]
  /\ UNCHANGED <<tables, form, list, links, used, stale, faults>>

-----------------------------------------------------------------------------

Init ==
  /\ rewards = <<>> /\ codes = <<>>
  /\ serials = [reward |-> 0, code |-> 0]
  /\ form = NoForm
  /\ list = [o \in Operators |-> NoCode] /\ links = {}
  /\ visit = [v \in Visitors |-> NoVisit]
  /\ seen = {} /\ used = {} /\ stale = {}
  /\ faults = 0

Next ==
  \/ \E s \in Forms :
       \/ \E o \in Operators : PostTrackerRewardsNew(o, s)
       \/ \E r \in 1 .. serials.reward : PostTrackerRewardEdit(r, s)
  \/ PostCodes
  \/ \E o \in Operators : TrackerRewardCodeNext(o)
  \/ \E r \in DOMAIN rewards :
       \/ TrackerRewardDelete(r)
       \/ \E o \in Operators :
            \/ TrackerRewardCodes(o, r)
            \/ \E i \in DOMAIN codes :
                 \/ TrackerRewardCode(o, r, i)
                 \/ TrackerRewardCodeMarkAsUsed(o, r, i)
                 \/ TrackerRewardCodeMarkAsUnused(o, r, i)
                 \/ TrackerRewardCodeDelete(o, r, i)
  \/ \E v \in Visitors :
       \/ \E i \in links : GetRewardCodeByRedeemCode(v, i)
       \/ CountVisit(v)
       \/ Redeem(v)

Spec == Init /\ [][Next]_vars

-----------------------------------------------------------------------------
(* Properties. *)

\* A list offers no code that was marked as used when the list was loaded,
\* however often the code is pasted again and whoever marked it: only one
\* marked meanwhile, or one unmarked or deleted since, is handed out again.
NotOfferedAgain == \A o \in Operators \ stale : list[o].code \notin used

\* No code is lost: what is marked as used is a code some page has shown,
\* though "next" is clicked on a list that is no longer the newest.
UsedWasShown == \A i \in DOMAIN codes : codes[i].redeemed => i \in links

\* Everybody who has seen a code was counted, whatever happened to the code
\* between the page of the operator and that of the visitor.
VisitorsCounted ==
  \A i \in DOMAIN codes :
    Cardinality({s.visitor : s \in {s \in seen : s.row = i}}) <= codes[i].visited

\* Each code has one row, in a reward that exists, and its visits are counted.
CodesInv == TypeOK /\ VisitorsCounted
=============================================================================
