-------------------------- MODULE CampaignPayloads --------------------------
(***************************************************************************)
(* What the requests on campaigns compute before they call the campaign    *)
(* service: dates, budget types, billing and the payloads of the patches.  *)
(* No state: Campaigns applies these to what a request asked (r) and to    *)
(* the campaign as its handler read it (s).                                *)
(*                                                                         *)
(* A date is a number, NoDate an absent or empty one (always-on).  Amounts,*)
(* pacing and the name go through unchanged: the name stands for them.     *)
(***************************************************************************)
EXTENDS Naturals, Sequences, SequencesExt

CONSTANTS
    TwoYears,   \* the number of dates within two years of a start date
    NoOne

ASSUME TwoYearsAssumption == TwoYears \in Nat

NoDate == 0
StartDate == 1

(* WEEKLY and MONTHLY are treated like DAILY everywhere.                   *)
ApiBudgets == {"DAILY", "LIFETIME"}
UpstreamBudgets == {"DAILY", "CUSTOM", "LIFETIME"}
Payers == {"client", "agency"}
PoNumbers == {"absent", "empty", "number"}

(* A lifetime budget is CUSTOM upstream.                                   *)
ToUpstream(b) == IF b = "LIFETIME" THEN "CUSTOM" ELSE b

(* ... and LIFETIME in the answers, whatever its capitals.                 *)
ToApi(b) == IF b = "CUSTOM" THEN "LIFETIME" ELSE b

(* validate_dates_with_budget, for a creation.                             *)
DatesFitBudget(r) ==
    /\ r.end # NoDate => r.end < StartDate + TwoYears
    /\ r.budget = "LIFETIME" => r.end # NoDate

(* An ad group that would outlive a campaign that ends on `end`.           *)
Outlives(groupEnd, ended, end) ==
    \/ groupEnd = NoDate /\ ~ended
    \/ groupEnd > end

(* validate_dates_with_ad_groups, for an update: the ad groups only count  *)
(* when the campaign had no end date.  `groups` holds pairs of an end date *)
(* and whether the ad group has ended.                                     *)
EndDateFits(r, s, groups) ==
    r.end # NoDate =>
        /\ s.end = NoDate => \A g \in groups : ~Outlives(g[1], g[2], r.end)
        /\ r.end < StartDate + TwoYears

(* The contact may stand beside an agency's address: it is an agency's, or *)
(* one of the account's, in the cache or as fetched again.                 *)
MayBill(r) == r.contact # "stranger"

(* validate_billing_info: who pays for a new campaign.                     *)
BillingOf(r) ==
    IF r.user = "agency" /\ r.address = "AGENCY"
    THEN (IF MayBill(r) THEN "agency" ELSE "refused")
    ELSE (IF r.contact = "AGENCY" THEN "refused" ELSE "client")

(* _process_agency_info: whose billing an update writes to, by the address *)
(* the campaign has.  The contact is not compared with the address unless  *)
(* both the user and the address are an agency's.                          *)
UpdateBillingOf(r, s) ==
    IF r.user = "agency" /\ s.address = "AGENCY"
    THEN (IF MayBill(r) THEN "agency" ELSE "refused")
    ELSE "client"

(* build_billing_info: a new campaign has a purchase order or none.        *)
NewPo(r) == IF r.po = "number" THEN "number" ELSE "empty"

(* process_billing_info: a draft's purchase order is set, cleared or left  *)
(* alone; any other campaign's is left alone.                              *)
UpdatedPo(r, s, old) == IF s.status # "DRAFT" \/ r.po = "absent" THEN old ELSE r.po

StatusAsked(r, s) == IF r.status = "same" THEN s.status ELSE r.status

(* The budget type of an update: only that of a draft can change, and what *)
(* is asked of another campaign is left out without a word.                *)
PatchedBudget(r, s) ==
    IF s.status = "DRAFT" THEN ToUpstream(IF r.budget = "same" THEN s.budget ELSE r.budget)
                          ELSE ToUpstream(s.budget)

AsksPause(r, s) == s.status = "ACTIVE" /\ r.status = "PAUSED"
AsksUnpause(r, s) == s.status = "PAUSED" /\ r.status = "ACTIVE"

(* request_implies_no_delta: what the request sets besides the status is   *)
(* what the campaign has; what it does not set does not count.             *)
NoDelta(r, s) ==
    /\ r.name = "kept"
    /\ r.end \in {NoDate, s.end}
    /\ r.budget \in {"same", s.budget}
    /\ r.po \in {"absent", s.po}

(* build_address_list: the corporate address and the one to bill.          *)
AddressList(billing) ==
    <<[type |-> "CORPORATE", of |-> "corporate"], [type |-> "ALTERNATE", of |-> billing]>>

(* get_address_internal_id: of several addresses the alternate one, else   *)
(* the first.                                                              *)
BillingAddress(list) ==
    IF list = <<>> THEN "none"
    ELSE LET alternates == {i \in DOMAIN list : list[i].type = "ALTERNATE"}
         IN  IF Len(list) > 1 /\ alternates # {} THEN list[Min(alternates)].of
                                                ELSE Head(list).of
=============================================================================
