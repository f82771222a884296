---------------------------- MODULE SubmitForms ----------------------------
(***************************************************************************)
(* The forms by which readers and administrators change the directory, as  *)
(* the browser and the site share them: the four steps of a submission     *)
(* (web/routes/submit, web/components/submit) with the two lists of        *)
(* categories that depend on each other (web/islands/                      *)
(* SubmitCategoryFields.tsx), the picker of a category                     *)
(* (CategoryPicker.tsx), and the bar that deletes the rows ticked in a     *)
(* table (AdminBulkBar.tsx, ConfirmModal.tsx).  The site keeps nothing     *)
(* between two steps: a page carries all that was filled in so far.        *)
(*                                                                         *)
(* The categories do not change while a form is open; a list of them may   *)
(* fail to load.  Replies to the browser come in any order; two requests   *)
(* for the children of one category count as one.                          *)
(***************************************************************************)
EXTENDS Integers, Sequences, FiniteSets, SequencesExt

CONSTANTS
    RootList,        \* the roots, in order
    Below,           \* category -> the list of those right below it
    Blank,           \* a space
    TypedUrl, TypedTitle, TypedDescription,    \* what is typed: sequences of characters
    HttpUrl,         \* the texts isHttpUrl() takes
    UrlMax, TitleMax, DescriptionMin, DescriptionMax,
    TypedName,       \* what is typed into the picker
    Label,           \* category -> its name with its id, as the picker shows it
    Findable,        \* bound: the categories searches find
    Searches,        \* bound: searches a picker waits for
    Rows             \* the rows of a table

Category == DOMAIN Below
Character == UNION {ToSet(text) : text \in TypedUrl \cup TypedTitle \cup TypedDescription}

(* Ids of categories begin with 1; 0 stands for none.                      *)
ASSUME CategoryAssumption ==
    /\ Category \subseteq Nat \ {0}
    /\ RootList \in Seq(Category) /\ \A c \in Category : Below[c] \in Seq(Category)

ASSUME TypedAssumption ==
    /\ TypedUrl \cup TypedTitle \cup TypedDescription \subseteq Seq(Character)
    /\ {UrlMax, TitleMax, DescriptionMax} \subseteq Nat

VARIABLES
    wizard,    \* the page of the submission in the browser
    picker,    \* a picker
    bulk       \* a table with its bar

formVars == <<wizard, picker, bulk>>

-----------------------------------------------------------------------------
(* The fields of a submission.                                             *)

EmptyState ==
    [url |-> <<>>, title |-> <<>>, description |-> <<>>, categoryId |-> 0, subcategoryId |-> 0,
     affiliated |-> FALSE]

Trim(s) ==
    LET kept == {k \in DOMAIN s : s[k] # Blank}
        least == CHOOSE k \in kept : \A j \in kept : k <= j
        most == CHOOSE k \in kept : \A j \in kept : j <= k
    IN  IF kept = {} THEN <<>> ELSE SubSeq(s, least, most)

ReadString(v, max) == Trim(SubSeq(v, 1, IF Len(v) < max THEN Len(v) ELSE max))

ParseFormState(form) ==
    [form EXCEPT !.url = ReadString(@, UrlMax), !.title = ReadString(@, TitleMax),
                 !.description = ReadString(@, DescriptionMax)]

ValidateStep1(state) ==
    (IF state.url \in HttpUrl THEN {} ELSE {"url"})
      \cup (IF state.title = <<>> \/ Len(state.title) > TitleMax THEN {"title"} ELSE {})
ValidateStep2(state) ==
    IF Len(state.description) \in DescriptionMin..DescriptionMax THEN {} ELSE {"description"}
ValidateStep3(state) == IF state.categoryId <= 0 THEN {"categoryId"} ELSE {}

ValidateForStep(step, state, confirmed) ==
    CASE step = 1 -> ValidateStep1(state)
      [] step = 2 -> ValidateStep2(state)
      [] step = 3 -> ValidateStep3(state)
      [] OTHER -> ValidateStep1(state) \cup ValidateStep2(state) \cup ValidateStep3(state)
                    \cup (IF confirmed THEN {} ELSE {"confirm"})

-----------------------------------------------------------------------------
(* The pages of a submission.                                              *)

StepDone == 5
StepBroken == 6      \* the page could not be made

NoWizard ==
    [step |-> 0, state |-> EmptyState, errors |-> {}, tops |-> <<>>, top |-> 0, subs |-> <<>>,
     sub |-> 0, preset |-> 0, loading |-> FALSE, asked |-> {}, raced |-> FALSE, sent |-> <<>>]

Broken == [NoWizard EXCEPT !.step = StepBroken]

(* A single root is drilled one level, unless that fails.                  *)
LoadTopCategories ==
    {RootList} \cup {Below[RootList[i]] : i \in {i \in DOMAIN RootList :
                       Len(RootList) = 1 /\ Below[RootList[i]] # <<>>}}
LoadSubCategories(id) == IF id <= 0 THEN {<<>>} ELSE {<<>>, Below[id]}

(* A page, with the lists as the island begins with them.                  *)
WizardPage(step, state, errors, raced, sent, tops, subs) ==
    LET preset == IF state.subcategoryId \in ToSet(subs) THEN state.subcategoryId ELSE 0 IN
    [NoWizard EXCEPT !.step = step, !.state = state, !.errors = errors, !.tops = tops,
                     !.top = IF state.categoryId \in ToSet(tops) THEN state.categoryId ELSE 0,
                     !.subs = subs, !.sub = preset, !.preset = preset,
                     !.raced = raced /\ step = 4, !.sent = sent]

(* buildData(); the page breaks when the roots cannot be listed.           *)
BuildData(step, state, errors, raced, sent) ==
    IF step = StepDone
    THEN {[NoWizard EXCEPT !.step = step, !.state = state, !.sent = sent, !.raced = raced]}
    ELSE {Broken} \cup
         {WizardPage(step, state, errors, raced, sent, tops, subs) :
            tops \in LoadTopCategories, subs \in LoadSubCategories(state.categoryId)}

HiddenStateOfTop(state) ==    \* mutant: the review page carries no subcategory
    [state EXCEPT !.subcategoryId = 0]

(* The fields a page carries unseen.                                       *)
HiddenState(state) == state

(* The form of each step: what it carries, and what was filled in.         *)
Step1Form(url, title) == [EmptyState EXCEPT !.url = url, !.title = title]

Step2Form(state, description) ==
    [EmptyState EXCEPT !.url = state.url, !.title = state.title, !.description = description]

Step3FormAlways(page, affiliated) ==    \* mutant: what is chosen below is sent whatever the lists do
    [EmptyState EXCEPT !.url = page.state.url, !.title = page.state.title,
                       !.description = page.state.description, !.categoryId = page.top,
                       !.subcategoryId = IF page.subs = <<>> THEN 0 ELSE page.sub,
                       !.affiliated = affiliated]

(* A list that is loading or empty is disabled, and not sent.              *)
Step3Form(page, affiliated) ==
    [EmptyState EXCEPT !.url = page.state.url, !.title = page.state.title,
                       !.description = page.state.description, !.categoryId = page.top,
                       !.subcategoryId = IF page.loading \/ page.subs = <<>> THEN 0 ELSE page.sub,
                       !.affiliated = affiliated]

Forms ==
    CASE wizard.step = 1 -> {Step1Form(url, title) : url \in TypedUrl, title \in TypedTitle}
      [] wizard.step = 2 -> {Step2Form(wizard.state, d) : d \in TypedDescription}
      [] wizard.step = 3 -> {Step3Form(wizard, affiliated) : affiliated \in BOOLEAN}
      [] wizard.step = 4 -> {HiddenState(wizard.state)}
      [] OTHER -> {}

(* What the review says; a category that is not in its list has no name.   *)
Named(id, list) == IF id \in ToSet(list) THEN id ELSE 0

Review(page) ==
    LET state == page.state IN
    [url |-> state.url, title |-> state.title, description |-> state.description,
     affiliated |-> state.affiliated, top |-> Named(state.categoryId, page.tops),
     sub |-> Named(state.subcategoryId, page.subs), atTop |-> state.subcategoryId = 0]

TargetCategory(state) == IF state.subcategoryId > 0 THEN state.subcategoryId ELSE state.categoryId

Begin ==
    /\ wizard = NoWizard
    /\ wizard' \in BuildData(1, EmptyState, {}, FALSE, <<>>)
    /\ UNCHANGED <<picker, bulk>>

(* The server takes the submission or refuses it; it may also have taken   *)
(* one whose answer is lost, and refuses it when it is sent again.         *)
Finalize(state) ==
    LET sent == <<[state |-> state, target |-> TargetCategory(state), shown |-> Review(wizard)]>>
    IN  BuildData(StepDone, state, {}, wizard.raced, sent)
          \cup BuildData(4, state, {"submit"}, wizard.raced, sent)

Post(action, form, confirmed) ==
    LET step == wizard.step
        state == ParseFormState(form)
        errors == ValidateForStep(step, state, confirmed)
    IN  /\ step \in 1..4
        /\ action = "back" => step \in {3, 4}
        /\ wizard' \in
             IF action = "back"
             THEN BuildData(step - 1, state, {}, FALSE, <<>>)
             ELSE IF errors # {} THEN BuildData(step, state, errors, wizard.raced, wizard.sent)
             ELSE IF step = 4 THEN Finalize(state)
             ELSE BuildData(step + 1, state, {}, wizard.raced, <<>>)
        /\ UNCHANGED <<picker, bulk>>

CloseWizard == wizard # NoWizard /\ wizard' = NoWizard /\ UNCHANGED <<picker, bulk>>

-----------------------------------------------------------------------------
(* The two lists of the third step.                                        *)

(* onTopChange(): the old list stays, disabled, until a reply comes; what  *)
(* the page came with is unselected, what the reader chose is not.         *)
ChooseTop(c) ==
    /\ wizard.step = 3 /\ c # wizard.top
    /\ wizard' = IF c = 0 THEN [wizard EXCEPT !.top = 0, !.sub = 0, !.preset = 0, !.subs = <<>>]
                 ELSE [wizard EXCEPT !.top = c, !.sub = IF @ = wizard.preset THEN 0 ELSE @,
                                     !.preset = 0, !.loading = TRUE, !.asked = @ \cup {c}]
    /\ UNCHANGED <<picker, bulk>>

(* The children of c come, whichever category is chosen by now, or an      *)
(* error does.                                                             *)
ChildrenCome(c) ==
    /\ wizard.step = 3 /\ c \in wizard.asked
    /\ \E list \in {<<>>, Below[c]} :
         wizard' = [wizard EXCEPT !.asked = @ \ {c}, !.loading = FALSE, !.subs = list,
                                  !.sub = IF @ \in ToSet(list) THEN @ ELSE 0,
                                  !.raced = c # wizard.top /\ list # <<>>]
    /\ UNCHANGED <<picker, bulk>>

ChooseSub(s) ==
    /\ wizard.step = 3 /\ ~wizard.loading
    /\ wizard' = [wizard EXCEPT !.sub = s]
    /\ UNCHANGED <<picker, bulk>>

WizardNext ==
    \/ Begin \/ CloseWizard
    \/ \E form \in Forms, action \in {"next", "back"}, confirmed \in BOOLEAN : Post(action, form, confirmed)
    \/ \E c \in {0} \cup ToSet(wizard.tops) : ChooseTop(c)
    \/ \E c \in wizard.asked : ChildrenCome(c)
    \/ \E s \in {0} \cup ToSet(wizard.subs) : ChooseSub(s)

-----------------------------------------------------------------------------
(* CategoryPicker.  Each keystroke sets a timer of its own, since the      *)
(* variable it is kept in is a new one after every render; so each text    *)
(* typed is searched for, and the results of an older one may come last.   *)

NoPicker == [open |-> FALSE, text |-> <<>>, id |-> 0, label |-> <<>>, timers |-> {}, asked |-> {},
             results |-> {}, sent |-> <<>>]

OpenPicker(id) ==
    /\ picker = NoPicker
    /\ picker' = [NoPicker EXCEPT !.open = TRUE, !.id = id,
                                  !.text = IF id = 0 THEN <<>> ELSE Label[id],
                                  !.label = IF id = 0 THEN <<>> ELSE Label[id]]
    /\ UNCHANGED <<wizard, bulk>>

(* A text that is no longer the label of what was picked unpicks it.       *)
Input(p, text) ==
    IF p.id # 0 /\ text # p.label THEN [p EXCEPT !.text = text, !.id = 0, !.label = <<>>]
    ELSE [p EXCEPT !.text = text]

OnInput(text) ==
    /\ picker.open /\ Cardinality(picker.timers \cup picker.asked \cup {text}) <= Searches
    /\ picker' = IF Len(Trim(text)) < 2 THEN [Input(picker, text) EXCEPT !.results = {}]
                 ELSE [Input(picker, text) EXCEPT !.timers = @ \cup {text}]
    /\ UNCHANGED <<wizard, bulk>>

TimerFires(text) ==
    /\ text \in picker.timers
    /\ picker' = [picker EXCEPT !.timers = @ \ {text}, !.asked = @ \cup {text}]
    /\ UNCHANGED <<wizard, bulk>>

ResultsCome(text) ==
    /\ text \in picker.asked
    /\ \E found \in SUBSET DOMAIN Below :
         picker' = [picker EXCEPT !.asked = @ \ {text}, !.results = found]
    /\ UNCHANGED <<wizard, bulk>>

Pick(id) ==
    /\ id \in picker.results
    /\ picker' = [picker EXCEPT !.id = id, !.text = Label[id], !.label = Label[id]]
    /\ UNCHANGED <<wizard, bulk>>

Clear ==
    /\ picker.id # 0
    /\ picker' = [picker EXCEPT !.id = 0, !.text = <<>>, !.label = <<>>, !.results = {}]
    /\ UNCHANGED <<wizard, bulk>>

(* The enclosing form goes out with what is picked.                        *)
SubmitPicked ==
    /\ picker.open
    /\ picker' = [NoPicker EXCEPT !.sent = <<[id |-> picker.id, shown |-> picker.text]>>]
    /\ UNCHANGED <<wizard, bulk>>

LeavePicker == picker.sent # <<>> /\ picker' = NoPicker /\ UNCHANGED <<wizard, bulk>>

PickerNext ==
    \/ \E id \in {0} \cup Findable : OpenPicker(id) \/ Pick(id)
    \/ \E text \in TypedName \cup {Label[id] : id \in Findable} :
         OnInput(text) \/ TimerFires(text) \/ ResultsCome(text)
    \/ Clear \/ SubmitPicked \/ LeavePicker

-----------------------------------------------------------------------------
(* AdminBulkBar and ConfirmModal.                                          *)

NoBulk == [listed |-> {}, ticked |-> {}, open |-> FALSE, typed |-> 0, fresh |-> FALSE, sent |-> <<>>]

LoadTable ==
    /\ \E listed \in SUBSET Rows : bulk' = [NoBulk EXCEPT !.listed = listed]
    /\ bulk = NoBulk \/ bulk.sent # <<>>     \* the page is loaded again
    /\ UNCHANGED <<wizard, picker>>

(* Boxes are ticked, also behind the dialog.                               *)
Toggle(row) ==
    /\ row \in bulk.listed
    /\ bulk' = [bulk EXCEPT !.ticked = IF row \in @ THEN @ \ {row} ELSE @ \cup {row}]
    /\ UNCHANGED <<wizard, picker>>

ClearSelection ==
    /\ bulk.ticked # {}
    /\ bulk' = [bulk EXCEPT !.ticked = {}]
    /\ UNCHANGED <<wizard, picker>>

(* The dialog asks for "delete n links", n as many as are ticked by now.   *)
AskToConfirm ==
    /\ bulk.ticked # {} /\ ~bulk.open
    /\ bulk' = [bulk EXCEPT !.open = TRUE, !.fresh = TRUE]
    /\ UNCHANGED <<wizard, picker>>

(* The effect that empties its text runs once it is on the screen.         *)
EmptyPhrase ==
    /\ bulk.open /\ bulk.fresh
    /\ bulk' = [bulk EXCEPT !.typed = 0, !.fresh = FALSE]
    /\ UNCHANGED <<wizard, picker>>

TypePhrase(n) ==
    /\ bulk.open /\ ~bulk.fresh
    /\ bulk' = [bulk EXCEPT !.typed = n]
    /\ UNCHANGED <<wizard, picker>>

Cancel ==
    /\ bulk.open
    /\ bulk' = [bulk EXCEPT !.open = FALSE, !.fresh = FALSE]
    /\ UNCHANGED <<wizard, picker>>

(* callBulk(): nothing ticked, nothing sent.                               *)
Send(op, phrase) ==
    IF bulk.ticked = {} THEN bulk.sent
    ELSE <<[op |-> op, ids |-> bulk.ticked, phrase |-> phrase]>>

Confirm ==
    /\ bulk.open /\ bulk.typed = Cardinality(bulk.ticked)
    /\ bulk' = [bulk EXCEPT !.open = FALSE, !.fresh = FALSE, !.sent = Send("delete", bulk.typed)]
    /\ UNCHANGED <<wizard, picker>>

SetStatus(status) ==
    /\ bulk.ticked # {}
    /\ bulk' = [bulk EXCEPT !.sent = Send(status, 0)]
    /\ UNCHANGED <<wizard, picker>>

BulkNext ==
    \/ LoadTable \/ ClearSelection \/ AskToConfirm \/ EmptyPhrase \/ Cancel \/ Confirm
    \/ \E row \in Rows : Toggle(row)
    \/ \E n \in 1..Cardinality(Rows) : TypePhrase(n)
    \/ \E status \in {"approved", "rejected"} : SetStatus(status)

-----------------------------------------------------------------------------

FormsIdle == wizard = NoWizard /\ picker = NoPicker /\ bulk = NoBulk

(* One form at a time: they share nothing.                                 *)
FormsNext ==
    \/ picker = NoPicker /\ bulk = NoBulk /\ WizardNext
    \/ wizard = NoWizard /\ bulk = NoBulk /\ PickerNext
    \/ wizard = NoWizard /\ picker = NoPicker /\ BulkNext

FormsSpec == FormsIdle /\ [][FormsNext]_formVars

-----------------------------------------------------------------------------
(* Properties.                                                             *)

(* A link goes to a category right below the one chosen, or to the one     *)
(* chosen: whatever the reader changes and however the replies come, the   *)
(* list of another category is not sent.  Excepted is what no code hinders:*)
(* a reply that comes late puts the children of a category left long ago   *)
(* into the list.                                                          *)
SubcategoryIsOfTop ==
    \A k \in DOMAIN wizard.sent :
      LET state == wizard.sent[k].state IN
      /\ state.categoryId # 0
      /\ state.subcategoryId # 0 /\ ~wizard.raced =>
           state.subcategoryId \in ToSet(Below[state.categoryId])

(* What a form sends is what it showed when it was sent: the submission    *)
(* what its last page listed, to no other category than the one named      *)
(* there; the picker the category whose label is in its box; the bar as    *)
(* many rows as the phrase says that was typed to delete them.             *)
SubmittedIsShown ==
    /\ \A k \in DOMAIN wizard.sent :
         LET sent == wizard.sent[k]
             shown == sent.shown
         IN  /\ sent.state.url = shown.url /\ sent.state.title = shown.title
             /\ sent.state.description = shown.description
             /\ sent.state.affiliated = shown.affiliated
             /\ shown.atTop => shown.top \in {0, sent.target}
             /\ ~shown.atTop => shown.sub \in {0, sent.target}
    /\ \A k \in DOMAIN picker.sent : picker.sent[k].id # 0 => picker.sent[k].shown = Label[picker.sent[k].id]
    /\ \A k \in DOMAIN bulk.sent :
         bulk.sent[k].op = "delete" => Cardinality(bulk.sent[k].ids) = bulk.sent[k].phrase

=============================================================================
