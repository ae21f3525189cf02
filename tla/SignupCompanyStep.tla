-------------------------- MODULE SignupCompanyStep --------------------------
(***************************************************************************)
(* The first step of the signup wizard, the data of the company: fields    *)
(* that are formatted on input and validated when they lose the focus, a   *)
(* "next" button, and the lookup of the address of a CEP, whose answers    *)
(* come in any order.  The stepper is not linear: the button advances      *)
(* whatever the fields hold, and the step can be left and entered by its   *)
(* header.  What is typed is told apart only as valid, or which CEP.       *)
(***************************************************************************)
EXTENDS Naturals, SequencesExt, OpenPage

CONSTANTS
    CEPS,         \* complete CEPs
    Blank,        \* no address, no field
    MaxLookups    \* bound on the lookups on their way at a time

Fields == {"document", "phone", "zip_code"}

ASSUME CepAssumption == /\ Blank \notin CEPS \cup Fields
                        /\ "valid" \notin CEPS /\ "invalid" \notin CEPS

Values(f) == IF f = "zip_code" THEN CEPS \cup {"invalid"} ELSE {"valid", "invalid"}

\* validateDoc; 10 or 11 digits of phone; 8 digits of CEP.
Valid(f, v) == v # "invalid"

NewCompanyStep ==
    [kind |-> "signup_company", onStep |-> TRUE, focus |-> Blank,
     field |-> [f \in Fields |-> [value |-> "invalid", error |-> FALSE, checked |-> FALSE]],
     address |-> Blank, lookups |-> <<>>,
     asked |-> Blank,        \* history: the CEP looked up last
     disordered |-> FALSE]   \* history: an answer was missing or overtaken since

\* (A definition named ..._mutant is a wrong variant of the one that follows it.)
Validate_mutant(p, f) ==         \* never clears an error
    [p EXCEPT !.field[f].error = @ \/ ~Valid(f, p.field[f].value), !.field[f].checked = TRUE]

Validate(p, f) ==
    [p EXCEPT !.field[f].error = ~Valid(f, p.field[f].value), !.field[f].checked = TRUE]

Focus(f) ==
    /\ page.onStep
    /\ page.focus = Blank
    /\ page' = [page EXCEPT !.focus = f]

\* The input events: formatDoc, formatPhone, formatCEP.
Type(f, v) ==
    /\ page.focus = f
    /\ page' = [page EXCEPT !.field[f].value = v]

\* The blur event: the field is validated; a complete CEP is looked up.
Blur(f) ==
    LET cep == page.field["zip_code"].value
        asks == f = "zip_code" /\ cep \in CEPS
        p == [Validate(page, f) EXCEPT !.focus = Blank]
    IN  /\ page.focus = f
        /\ IF asks
             THEN /\ Len(page.lookups) < MaxLookups
                  /\ page' = [p EXCEPT !.lookups = Append(@, cep), !.asked = cep,
                                       !.disordered = @ /\ page.lookups # <<>>]
             ELSE page' = p

AddressAnswered_mutant(i) ==     \* fills an address only into empty inputs
    page' = [page EXCEPT !.lookups = RemoveAt(@, i),
                         !.address = IF @ = Blank THEN page.lookups[i] ELSE @,
                         !.disordered = @ \/ i > 1]

\* An answer fills the address.
AddressAnswered(i) ==
    page' = [page EXCEPT !.lookups = RemoveAt(@, i), !.address = page.lookups[i],
                         !.disordered = @ \/ i > 1]

\* "erro", or no answer: the address stays as it is.
AddressMissing(i) ==
    page' = [page EXCEPT !.lookups = RemoveAt(@, i), !.disordered = TRUE]

\* The fields the next button looks at, if they are not valid.
WrongFields == {f \in {"document", "zip_code"} : ~Valid(f, page.field[f].value)}

\* The next button: stepper1.next(), then the errors.  The pane that is leaving
\* may still take the focus.
NextStep ==
    /\ page.onStep
    /\ page.focus = Blank
    /\ \E f \in {Blank} \cup WrongFields :
         page' = [page EXCEPT
            !.onStep = FALSE, !.focus = f,
            !.field = [g \in Fields |->
                         IF g \in WrongFields THEN [@[g] EXCEPT !.error = TRUE, !.checked = TRUE]
                         ELSE @[g]]]

\* A step header, or the previous button of the next step.
BackToCompany ==
    /\ ~page.onStep
    /\ page.focus = Blank
    /\ page' = [page EXCEPT !.onStep = TRUE]

CompanyStepNext ==
    /\ Showing("signup_company")
    /\ \/ NextStep \/ BackToCompany
       \/ \E f \in Fields : Focus(f) \/ Blur(f) \/ \E v \in Values(f) : Type(f, v)
       \/ \E i \in DOMAIN page.lookups : AddressAnswered(i) \/ AddressMissing(i)

----------------------------------------------------------------------------
(* Properties *)

\* A field that was left shows an error exactly if what it holds is not valid,
\* whether the blur or the next button looked at it last.
ErrorsAreCurrent ==
    Showing("signup_company") =>
      \A f \in Fields : LET d == page.field[f]
                        IN  page.focus # f /\ d.checked => d.error = ~Valid(f, d.value)

\* Once no lookup is on its way the address is that of the CEP looked up last,
\* unless an answer was missing or overtook an earlier one.
AddressUnlessOvertaken ==
    Showing("signup_company") /\ page.lookups = <<>> /\ ~page.disordered
      => page.address = page.asked

=============================================================================
