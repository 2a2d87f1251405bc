---------------------------- MODULE NumberingPage ----------------------------
(***************************************************************************)
(* The auto number configuration page of one form.  The page holds the     *)
(* counter it was loaded with, and writes it into its Next Number field    *)
(* under whatever format and number of digits are chosen on it; saving     *)
(* reads that text back into the counter.  Meanwhile records take numbers. *)
(* The two forms whose counter the page corrects by the records there are, *)
(* shipment PODs and support tickets, are left out.                        *)
(***************************************************************************)
EXTENDS ReferenceNumbers

CONSTANTS
    PageFormats,    \* the formats this form is ever given
    MaxDigits,      \* bound: the width, 10 in the code
    MaxNumber       \* bound: the numbers taken, and those alpha texts are tried with

ASSUME PageAssumption ==
    PageFormats \subseteq Formats /\ MaxDigits \in Nat \ {0} /\ MaxNumber \in Nat

VARIABLES
    format, digits,    \* AutoNumberConfiguration
    next,              \* AutoNumberSequence.next_number
    shown              \* the counter the page was loaded with

vars == <<format, digits, next, shown>>

NotLoaded == 0

Init ==
    /\ format \in PageFormats
    /\ digits \in 1 .. MaxDigits
    /\ next = 1
    /\ shown = NotLoaded

\* A record takes the next number.
Take ==
    /\ next < MaxNumber
    /\ next' = next + 1
    /\ UNCHANGED <<format, digits, shown>>

\* The page is loaded.
Load ==
    /\ shown = NotLoaded
    /\ shown' = next
    /\ UNCHANGED <<format, digits, next>>

\* The page is saved with format f and d digits, its number left as it is.
Save(f, d) ==
    /\ shown # NotLoaded
    /\ shown' = NotLoaded
    /\ LET read == Parse(f, d, Render(f, d, shown), MaxNumber)
       IN  \/ /\ read = Unread
              /\ UNCHANGED <<format, digits, next>>
           \/ /\ read # Unread
              /\ format' = f /\ digits' = d /\ next' = read

Next == Take \/ Load \/ \E f \in PageFormats, d \in 1 .. MaxDigits : Save(f, d)

Spec == Init /\ [][Next]_vars

-----------------------------------------------------------------------------

\* "The system will assign this number to the next item": the number the page
\* shows, written and read back, is the number the counter is set to.
SavesWhatIsShown ==
    [][shown # NotLoaded /\ shown' = NotLoaded => next' = shown]_vars

\* No number below the counter is written like the counter, under any format
\* and width the form may have had when that number was taken.
WrittenApart ==
    \A f \in PageFormats, d \in 1 .. MaxDigits, i \in 1 .. next - 1 :
        Render(f, d, i) # Render(format, digits, next)
=============================================================================
