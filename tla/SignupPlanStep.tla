---------------------------- MODULE SignupPlanStep ----------------------------
(***************************************************************************)
(* The last steps of the signup wizard: the terms, the plan, the payment   *)
(* method, and the post of the form, which carries a token instead of the  *)
(* card if the SDK of Mercado Pago (external) is loaded.  A card form of   *)
(* the SDK cannot be taken off the page: unmountCardForm only forgets it,  *)
(* and all that were mounted hear the submit.                              *)
(***************************************************************************)
EXTENDS Naturals, OpenPage

CONSTANT MaxCardForms   \* bound on the card forms mounted by one page

ASSUME CardFormsAssumption == MaxCardForms \in Nat \ {0}

Plans == {"none", "free", "paid"}
NoPost == [plan |-> "none", method |-> "none", token |-> FALSE, names |-> FALSE]

\* The page as drawn: the plan and the terms are kept when a signup is refused.
NewPlanStep(sdk, plan, accepted) ==
    [kind |-> "signup_plan", sdk |-> sdk,
     accept_terms |-> accepted, termsError |-> FALSE, onPlan |-> FALSE,
     plan |-> plan, method |-> "none", ccForm |-> FALSE,
     cardForms |-> 0,             \* card forms the SDK has put on the form
     cardFormInstance |-> FALSE,  \* one of them is remembered
     token |-> FALSE,             \* the hidden input signup[card_token]
     cardNames |-> TRUE,          \* the inputs of the card have names
     post |-> NoPost]

\* terms-next-button, the checkbox, the step headers.
TermsNext ==
    /\ ~page.onPlan
    /\ page' = [page EXCEPT !.termsError = ~page.accept_terms, !.onPlan = page.accept_terms]

ToggleTerms ==
    /\ ~page.onPlan
    /\ page' = [page EXCEPT !.accept_terms = ~@, !.termsError = @ /\ page.accept_terms]

JumpToStep == page' = [page EXCEPT !.onPlan = ~@]

\* (A definition named ..._mutant is a wrong variant of the one that follows it.)
ChoosePlan_mutant(plan) ==       \* hides the payment methods, leaves one checked
    /\ page.onPlan
    /\ page' = IF plan = "paid" THEN [page EXCEPT !.plan = plan]
               ELSE [page EXCEPT !.plan = plan, !.ccForm = FALSE]

\* syncPaidPlanFields: without a paid plan no payment method is checked, without
\* an event that would unmount the card form.
ChoosePlan(plan) ==
    /\ page.onPlan
    /\ page' = IF plan = "paid" THEN [page EXCEPT !.plan = plan]
               ELSE [page EXCEPT !.plan = plan, !.method = "none", !.ccForm = FALSE]

mountCardForm(p) ==
    IF ~p.sdk \/ p.cardFormInstance THEN p
    ELSE [p EXCEPT !.cardForms = @ + 1, !.cardFormInstance = TRUE]

unmountCardForm(p) == [p EXCEPT !.cardFormInstance = FALSE]

toggleCCForm(p) == [p EXCEPT !.ccForm = p.method = "credit_card"]

\* The change event of a payment method, offered with a paid plan.
ChooseMethod(method) ==
    LET p == [page EXCEPT !.method = method]
    IN  /\ page.onPlan
        /\ page.plan = "paid"
        /\ method # page.method
        /\ method = "credit_card" => page.cardFormInstance \/ page.cardForms < MaxCardForms
        /\ page' = toggleCCForm(IF method = "credit_card" THEN mountCardForm(p)
                                ELSE unmountCardForm(p))

shouldTokenize(p) == p.method = "credit_card" /\ p.plan # "free" /\ p.ccForm

\* ensureHidden, removeSensitiveNames.
Tokenized(p) == [p EXCEPT !.token = TRUE, !.cardNames = FALSE]

\* form.submit(), or the submit nobody prevents.
Post(p) ==
    [p EXCEPT !.post = [plan |-> p.plan, method |-> p.method, token |-> p.token,
                        names |-> p.cardNames]]

\* The submit event: every card form mounted calls onSubmit, with a token or
\* without (an alert, and the page stays).
Submit(tokenized) ==
    /\ page.onPlan
    /\ page.post = NoPost
    /\ page.plan # "none"
    /\ IF page.cardForms > 0 /\ shouldTokenize(page)
         THEN /\ page.cardFormInstance   \* or onSubmit raises, and nothing is sent
              /\ page' = IF tokenized
                           THEN Post(Tokenized(page))
                           ELSE page
         ELSE page' = Post(page)

\* The answer 422 draws the page again; any other leaves it.
SignupRefused ==
    /\ page.post # NoPost
    /\ page' = NewPlanStep(page.sdk, page.plan, page.accept_terms)

PlanStepNext ==
    /\ Showing("signup_plan")
    /\ \/ TermsNext \/ ToggleTerms \/ SignupRefused
       \/ page.post = NoPost /\ JumpToStep
       \/ page.post = NoPost /\ \E plan \in {"free", "paid"} : ChoosePlan(plan)
       \/ page.post = NoPost /\ \E method \in {"pix", "credit_card"} : ChooseMethod(method)
       \/ \E tokenized \in BOOLEAN : Submit(tokenized)

----------------------------------------------------------------------------
(* Properties *)

\* With the SDK loaded, a signup that pays with a card is posted with a token and
\* without the inputs of the card, however often the plan and the payment method
\* changed before.
CardPostTokenized ==
    Showing("signup_plan") /\ page.sdk /\ page.post.method = "credit_card"
      => page.post.token /\ ~page.post.names

=============================================================================
