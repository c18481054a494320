----------------------- MODULE JournalOwnershipProofs -----------------------
(***************************************************************************)
(* The journals of several processes on one file, for every set of         *)
(* processes and every number of edits: sessions write beside each other,  *)
(* synced work is kept, and a process that quits cleans up after itself.   *)
(***************************************************************************)
EXTENDS JournalOwnership, TLAPS

Ended(p) == phase[p] \in {"quit", "dead"}

(* Under a process's alternate name there is only a journal of its own,    *)
(* and it writes under that name and the document's only.                  *)
NamesInv ==
    \A p \in Proc : /\ disk[p] # Absent => disk[p].owner = p
                    /\ file[p] \in {Primary, p}

(* A process has journals only once it has answered its prompt.            *)
OwnersInv ==
    \A p \in Proc, f \in File :
        phase[p] \in {"off", "prompt", "adopt"} => disk[f].owner # p

(* What a process left is its own, at a name it writes, no more than it    *)
(* holds in memory, and all of it synced; a Live writer left it at `file`. *)
LeftInv ==
    \A p \in Proc :
        /\ left[p] # Nowhere =>
              /\ left[p].journal.owner = p
              /\ left[p].file \in {Primary, p}
              /\ left[p].journal.text \subseteq synced
        /\ phase[p] \in {"off", "prompt", "adopt"} => left[p] = Nowhere
        /\ phase[p] = "adopted" =>
              /\ left[p] # Nowhere
              /\ left[p].file = file[p]
              /\ left[p].journal.text = offer[p].journal.text
        /\ phase[p] \in {"edit", "write", "rescue"} =>
              left[p].journal.text \subseteq buf[p]
        /\ (phase[p] \in {"edit", "write"} /\ state[p] = "Live") =>
              left[p] # Nowhere /\ left[p].file = file[p]

(* What a prompt shows was left by a process that has ended.               *)
OfferInv ==
    \A p \in Proc :
        /\ offer[p].journal # Absent => Ended(offer[p].journal.owner)
        /\ offer[p].file # Primary =>
              Ended(offer[p].file) /\ offer[p].journal.owner = offer[p].file
        /\ phase[p] \in {"prompt", "adopt", "adopted"} => offer[p].journal # Absent
        /\ phase[p] = "off" => offer[p] = NoOffer

(* Nobody claims a name over the journal of a process that still runs: one *)
(* that means to write over such a journal has lost its own to a stale     *)
(* decision.                                                               *)
LookInv ==
    \A p \in Proc :
        phase[p] \in {"adopt", "write", "rescue"} /\ p \notin hit /\ look[p] # Absent
            => look[p].owner = p \/ Ended(look[p].owner)

(* KeptApart's second half.                                                *)
ApartInv ==
    \A p \in Proc :
        (Running(p) /\ left[p] # Nowhere /\ (p \notin hit \/ left[p].file = p))
            => disk[left[p].file] = left[p].journal

(* The journal a prompt showed only grows while it is there, and once the  *)
(* prompt is answered its text is in the buffer, in the archive or let go, *)
(* or the document's name holds another journal for good.                  *)
OfferedInv ==
    \A p \in Proc :
        offer[p].journal # Absent =>
            /\ disk[offer[p].file].owner = offer[p].journal.owner
                  => offer[p].journal.text \subseteq disk[offer[p].file].text
            /\ phase[p] \in {"edit", "write", "rescue"} =>
                  \/ offer[p].journal.text \subseteq buf[p] \cup archive \cup released
                  \/ disk[Primary].owner # offer[p].journal.owner

(* Work that is neither archived, let go nor overwritten is in a journal   *)
(* that still holds what its owner last wrote of it.                       *)
KeptInv ==
    \A e \in synced :
        \/ e \in archive \cup released \cup forfeit
        \/ \E p \in Proc, f \in File :
              disk[f].owner = p /\ e \in disk[f].text \cap left[p].journal.text

(* A session that recovered nothing has an alternate only while its writer *)
(* is Live under that name.                                                *)
AlternateInv ==
    \A p \in Proc :
        phase[p] \in {"edit", "write"} /\ offer[p] = NoOffer /\ disk[p] # Absent
            => state[p] = "Live" /\ file[p] = p

IInv ==
    /\ TypeOK
    /\ NamesInv
    /\ OwnersInv
    /\ LeftInv
    /\ OfferInv
    /\ LookInv
    /\ ApartInv
    /\ OfferedInv
    /\ KeptInv
    /\ AlternateInv
    /\ QuitLeavesNothing

----------------------------------------------------------------------------
(* What the records are, so that the proofs need not look inside them.     *)
LEMMA Names == /\ Primary \in File /\ Primary \notin Proc
               /\ \A p \in Proc : p \in File
               /\ \A f \in File : f = Primary \/ f \in Proc
BY NamesAssumption DEF File

LEMMA Journaling ==
    /\ Absent \in Journals /\ Absent.owner \notin Proc /\ Absent.text = {} /\ {} \in Text
    /\ \A j \in Journals : j.text \in Text /\ (j # Absent => j.owner \in Proc)
    /\ \A p \in Proc, t \in Text : /\ Journal(p, t) \in Journals
                                   /\ Journal(p, t) # Absent
                                   /\ Journal(p, t).owner = p
                                   /\ Journal(p, t).text = t
    /\ \A s, t \in Text : s \cup t \in Text
BY NamesAssumption DEF Absent, Journals, Journal, Text

LEMMA Blanks ==
    /\ NoOffer \in [file : File, journal : Journals, inUse : BOOLEAN]
    /\ NoOffer.file = Primary /\ NoOffer.journal = Absent
    /\ Nowhere \in [file : File, journal : Journals]
    /\ Nowhere.file = Primary /\ Nowhere.journal = Absent
BY Names, Journaling DEF NoOffer, Nowhere

(* A file with nothing to recover is opened.                               *)
LEMMA OpenPlainPreserves ==
    ASSUME IInv, NEW p \in Proc, OpenPlain(p)
    PROVE  IInv'
<1> USE Names, Journaling, Blanks DEF IInv, OpenPlain, StartsEditing, ghosts
<1>1. TypeOK'
  BY DEF TypeOK, Claim
<1>2. NamesInv' /\ OwnersInv' /\ LeftInv'
  BY DEF TypeOK, NamesInv, OwnersInv, LeftInv, Claim
<1>3. OfferInv'
  BY DEF TypeOK, OfferInv, OwnersInv, NamesInv, Ended
<1>4. LookInv'
  BY DEF TypeOK, LookInv, OwnersInv, NamesInv, Ended
<1>5. ApartInv'
  BY DEF TypeOK, ApartInv, LeftInv, Running
<1>6. AlternateInv'
  BY DEF TypeOK, AlternateInv, OwnersInv, NamesInv
<1>7. QuitLeavesNothing'
  BY DEF TypeOK, QuitLeavesNothing, OwnersInv
<1>8. OfferedInv' /\ KeptInv'
  BY DEF TypeOK, OfferedInv, KeptInv, OfferInv, LeftInv
<1> QED
  BY <1>1, <1>2, <1>3, <1>4, <1>5, <1>6, <1>7, <1>8

(* A prompt shows the journal of a process that has ended: the owner of a  *)
(* journal has left "off", and is not running.                             *)
LEMMA OpenPromptPreserves ==
    ASSUME IInv, NEW p \in Proc, NEW f \in File, OpenPrompt(p, f)
    PROVE  IInv'
<1> USE Names, Journaling, Blanks DEF IInv, OpenPrompt, filesVars, writerVars, ghosts
<1>1. TypeOK'
  <2>1. InUse(p) \in BOOLEAN
    BY DEF InUse
  <2> QED
    BY <2>1 DEF TypeOK
<1>2. NamesInv' /\ OwnersInv' /\ LeftInv'
  BY DEF TypeOK, NamesInv, OwnersInv, LeftInv
<1>3. OfferInv'
  BY DEF TypeOK, OfferInv, OwnersInv, NamesInv, Ended, Candidates, Offers,
         LiveOther, Running
<1>4. LookInv'
  BY DEF TypeOK, LookInv, OwnersInv, NamesInv, Ended
<1>5. ApartInv' /\ AlternateInv' /\ QuitLeavesNothing'
  BY DEF TypeOK, ApartInv, AlternateInv, QuitLeavesNothing, OwnersInv,
         OfferInv, LeftInv, NamesInv, Running
<1>6. OfferedInv' /\ KeptInv'
  BY DEF TypeOK, OfferedInv, KeptInv, OfferInv, LeftInv
<1> QED
  BY <1>1, <1>2, <1>3, <1>4, <1>5, <1>6

(* The in-use prompt passes the crashed journal over.                      *)
LEMMA EditAnywayPreserves ==
    ASSUME IInv, NEW p \in Proc, EditAnyway(p)
    PROVE  IInv'
<1> USE Names, Journaling, Blanks DEF IInv, EditAnyway, StartsEditing, ghosts
<1>1. TypeOK'
  BY DEF TypeOK, Claim
<1>2. NamesInv' /\ OwnersInv' /\ LeftInv'
  BY DEF TypeOK, NamesInv, OwnersInv, LeftInv, Claim
<1>3. OfferInv'
  BY DEF TypeOK, OfferInv, OwnersInv, NamesInv, Ended
<1>4. LookInv'
  BY DEF TypeOK, LookInv, OwnersInv, NamesInv, Ended
<1>5. ApartInv'
  BY DEF TypeOK, ApartInv, LeftInv, Running
<1>6. AlternateInv'
  BY DEF TypeOK, AlternateInv, OwnersInv, NamesInv
<1>7. QuitLeavesNothing'
  BY DEF TypeOK, QuitLeavesNothing, OwnersInv
<1>8. OfferedInv' /\ KeptInv'
  BY DEF TypeOK, OfferedInv, KeptInv, OfferInv, LeftInv
<1> QED
  BY <1>1, <1>2, <1>3, <1>4, <1>5, <1>6, <1>7, <1>8

(* An answer that could not archive lets the offered text go.              *)
LEMMA AnswerDiskFailsPreserves ==
    ASSUME IInv, NEW p \in Proc, AnswerDiskFails(p)
    PROVE  IInv'
<1> USE Names, Journaling, Blanks DEF IInv, AnswerDiskFails, StartsEditing
<1>1. TypeOK'
  BY DEF TypeOK, Claim
<1>2. NamesInv' /\ OwnersInv' /\ LeftInv'
  BY DEF TypeOK, NamesInv, OwnersInv, LeftInv, Claim
<1>3. OfferInv'
  BY DEF TypeOK, OfferInv, OwnersInv, NamesInv, Ended
<1>4. LookInv'
  BY DEF TypeOK, LookInv, OwnersInv, NamesInv, Ended
<1>5. ApartInv' /\ AlternateInv' /\ QuitLeavesNothing'
  BY DEF TypeOK, ApartInv, AlternateInv, QuitLeavesNothing, OwnersInv,
         OfferInv, LeftInv, NamesInv, Running
<1>6. OfferedInv' /\ KeptInv'
  BY DEF TypeOK, OfferedInv, KeptInv, OfferInv, LeftInv
<1> QED
  BY <1>1, <1>2, <1>3, <1>4, <1>5, <1>6

(* A prompt left by quitting.                                              *)
LEMMA AnswerQuitPreserves ==
    ASSUME IInv, NEW p \in Proc, AnswerQuit(p)
    PROVE  IInv'
<1> USE Names, Journaling, Blanks DEF IInv, AnswerQuit, filesVars, writerVars, ghosts
<1>1. TypeOK'
  BY DEF TypeOK
<1>2. NamesInv' /\ OwnersInv' /\ LeftInv'
  BY DEF TypeOK, NamesInv, OwnersInv, LeftInv
<1>3. OfferInv'
  BY DEF TypeOK, OfferInv, OwnersInv, NamesInv, Ended
<1>4. LookInv'
  BY DEF TypeOK, LookInv, OwnersInv, NamesInv, Ended
<1>5. ApartInv' /\ AlternateInv' /\ QuitLeavesNothing'
  BY DEF TypeOK, ApartInv, AlternateInv, QuitLeavesNothing, OwnersInv,
         OfferInv, LeftInv, NamesInv, Running
<1>6. OfferedInv' /\ KeptInv'
  BY DEF TypeOK, OfferedInv, KeptInv, OfferInv, LeftInv
<1> QED
  BY <1>1, <1>2, <1>3, <1>4, <1>5, <1>6

(* A recovery claims its name.                                             *)
LEMMA AnswerRecoverPreserves ==
    ASSUME IInv, NEW p \in Proc, AnswerRecover(p)
    PROVE  IInv'
<1> USE Names, Journaling, Blanks DEF IInv, AnswerRecover, filesVars, ghosts
<1>1. TypeOK'
  BY DEF TypeOK, Claim
<1>2. NamesInv' /\ OwnersInv' /\ LeftInv'
  BY DEF TypeOK, NamesInv, OwnersInv, LeftInv, Claim
<1>3. OfferInv'
  BY DEF TypeOK, OfferInv, OwnersInv, NamesInv, Ended
<1>4. LookInv'
  BY DEF TypeOK, LookInv, OwnersInv, NamesInv, Ended, Claim, LiveOther,
         Running
<1>5. ApartInv' /\ AlternateInv' /\ QuitLeavesNothing'
  BY DEF TypeOK, ApartInv, AlternateInv, QuitLeavesNothing, OwnersInv,
         OfferInv, LeftInv, NamesInv, Running
<1>6. OfferedInv' /\ KeptInv'
  BY DEF TypeOK, OfferedInv, KeptInv, OfferInv, LeftInv
<1> QED
  BY <1>1, <1>2, <1>3, <1>4, <1>5, <1>6

(* A recovery whose journal could not be written starts with the offered text.*)
LEMMA AdoptFailsPreserves ==
    ASSUME IInv, NEW p \in Proc, AdoptFails(p)
    PROVE  IInv'
<1> USE Names, Journaling, Blanks DEF IInv, AdoptFails, StartsEditing, AdoptEnds, ghosts
<1>1. TypeOK'
  BY DEF TypeOK, Claim
<1>2. NamesInv' /\ OwnersInv' /\ LeftInv'
  BY DEF TypeOK, NamesInv, OwnersInv, LeftInv, Claim
<1>3. OfferInv'
  BY DEF TypeOK, OfferInv, OwnersInv, NamesInv, Ended
<1>4. LookInv'
  BY DEF TypeOK, LookInv, OwnersInv, NamesInv, Ended
<1>5. ApartInv' /\ AlternateInv' /\ QuitLeavesNothing'
  BY DEF TypeOK, ApartInv, AlternateInv, QuitLeavesNothing, OwnersInv,
         OfferInv, LeftInv, NamesInv, Running
<1>6. OfferedInv' /\ KeptInv'
  BY DEF TypeOK, OfferedInv, KeptInv, OfferInv, LeftInv
<1> QED
  BY <1>1, <1>2, <1>3, <1>4, <1>5, <1>6

(* A recovery that archives nothing starts with the text it wrote.         *)
LEMMA AdoptArchivesNothingPreserves ==
    ASSUME IInv, NEW p \in Proc, AdoptArchivesNothing(p)
    PROVE  IInv'
<1> USE Names, Journaling, Blanks DEF IInv, AdoptArchivesNothing, StartsEditing, AdoptEnds, ghosts
<1>1. TypeOK'
  BY DEF TypeOK, Claim
<1>2. NamesInv' /\ OwnersInv' /\ LeftInv'
  BY DEF TypeOK, NamesInv, OwnersInv, LeftInv, Claim
<1>3. OfferInv'
  BY DEF TypeOK, OfferInv, OwnersInv, NamesInv, Ended
<1>4. LookInv'
  BY DEF TypeOK, LookInv, OwnersInv, NamesInv, Ended
<1>5. ApartInv' /\ AlternateInv' /\ QuitLeavesNothing'
  BY DEF TypeOK, ApartInv, AlternateInv, QuitLeavesNothing, OwnersInv,
         OfferInv, LeftInv, NamesInv, Running
<1>6. OfferedInv' /\ KeptInv'
  BY DEF TypeOK, OfferedInv, KeptInv, OfferInv, LeftInv
<1> QED
  BY <1>1, <1>2, <1>3, <1>4, <1>5, <1>6

(* A change grows the buffer.                                              *)
LEMMA EditPreserves ==
    ASSUME IInv, NEW p \in Proc, Edit(p)
    PROVE  IInv'
<1> USE Names, Journaling, Blanks DEF IInv, Edit, filesVars, ghosts
<1>1. TypeOK'
  <2>1. edits' \in 0 .. MaxEdits /\ buf[p] \cup {edits'} \in Text
    BY OwnershipAssumption DEF TypeOK, Text
  <2> QED
    BY <2>1 DEF TypeOK
<1>2. NamesInv' /\ OwnersInv' /\ LeftInv'
  BY DEF TypeOK, NamesInv, OwnersInv, LeftInv
<1>3. OfferInv'
  BY DEF TypeOK, OfferInv, OwnersInv, NamesInv, Ended
<1>4. LookInv'
  BY DEF TypeOK, LookInv, OwnersInv, NamesInv, Ended
<1>5. ApartInv' /\ AlternateInv' /\ QuitLeavesNothing'
  BY DEF TypeOK, ApartInv, AlternateInv, QuitLeavesNothing, OwnersInv,
         OfferInv, LeftInv, NamesInv, Running
<1>6. OfferedInv' /\ KeptInv'
  BY DEF TypeOK, OfferedInv, KeptInv, OfferInv, LeftInv
<1> QED
  BY <1>1, <1>2, <1>3, <1>4, <1>5, <1>6

(* A claim goes past the journals of running processes.                    *)
LEMMA FlushClaimsPreserves ==
    ASSUME IInv, NEW p \in Proc, FlushClaims(p)
    PROVE  IInv'
<1> USE Names, Journaling, Blanks DEF IInv, FlushClaims, filesVars, ghosts
<1>1. TypeOK'
  BY DEF TypeOK, Claim
<1>2. NamesInv' /\ OwnersInv' /\ LeftInv'
  BY DEF TypeOK, NamesInv, OwnersInv, LeftInv, Claim
<1>3. OfferInv'
  BY DEF TypeOK, OfferInv, OwnersInv, NamesInv, Ended
<1>4. LookInv'
  BY DEF TypeOK, LookInv, OwnersInv, NamesInv, Ended, Claim, LiveOther,
         Running
<1>5. ApartInv' /\ AlternateInv' /\ QuitLeavesNothing'
  BY DEF TypeOK, ApartInv, AlternateInv, QuitLeavesNothing, OwnersInv,
         OfferInv, LeftInv, NamesInv, Running
<1>6. OfferedInv' /\ KeptInv'
  BY DEF TypeOK, OfferedInv, KeptInv, OfferInv, LeftInv
<1> QED
  BY <1>1, <1>2, <1>3, <1>4, <1>5, <1>6

(* A Live writer looks at no owner; but unless it was disturbed, what it   *)
(* finds is its own.                                                       *)
LEMMA FlushRewritesPreserves ==
    ASSUME IInv, NEW p \in Proc, FlushRewrites(p)
    PROVE  IInv'
<1> USE Names, Journaling, Blanks DEF IInv, FlushRewrites, filesVars, ghosts, Unsynced
<1>1. TypeOK'
  BY DEF TypeOK
<1>2. NamesInv' /\ OwnersInv' /\ LeftInv'
  BY DEF TypeOK, NamesInv, OwnersInv, LeftInv
<1>3. OfferInv'
  BY DEF TypeOK, OfferInv, OwnersInv, NamesInv, Ended
<1>4. LookInv'
  BY DEF TypeOK, LookInv, OwnersInv, NamesInv, Ended, LeftInv, ApartInv,
         Running
<1>5. ApartInv' /\ AlternateInv' /\ QuitLeavesNothing'
  BY DEF TypeOK, ApartInv, AlternateInv, QuitLeavesNothing, OwnersInv,
         OfferInv, LeftInv, NamesInv, Running
<1>6. OfferedInv' /\ KeptInv'
  BY DEF TypeOK, OfferedInv, KeptInv, OfferInv, LeftInv
<1> QED
  BY <1>1, <1>2, <1>3, <1>4, <1>5, <1>6

(* A write that failed.                                                    *)
LEMMA WriteFailsPreserves ==
    ASSUME IInv, NEW p \in Proc, WriteFails(p)
    PROVE  IInv'
<1> USE Names, Journaling, Blanks DEF IInv, WriteFails, filesVars, writerVars, ghosts
<1>1. TypeOK'
  BY DEF TypeOK
<1>2. NamesInv' /\ OwnersInv' /\ LeftInv'
  BY DEF TypeOK, NamesInv, OwnersInv, LeftInv
<1>3. OfferInv'
  BY DEF TypeOK, OfferInv, OwnersInv, NamesInv, Ended
<1>4. LookInv'
  BY DEF TypeOK, LookInv, OwnersInv, NamesInv, Ended
<1>5. ApartInv' /\ AlternateInv' /\ QuitLeavesNothing'
  BY DEF TypeOK, ApartInv, AlternateInv, QuitLeavesNothing, OwnersInv,
         OfferInv, LeftInv, NamesInv, Running
<1>6. OfferedInv' /\ KeptInv'
  BY DEF TypeOK, OfferedInv, KeptInv, OfferInv, LeftInv
<1> QED
  BY <1>1, <1>2, <1>3, <1>4, <1>5, <1>6

(* A rescue claims its name.                                               *)
LEMMA RescueClaimsPreserves ==
    ASSUME IInv, NEW p \in Proc, RescueClaims(p)
    PROVE  IInv'
<1> USE Names, Journaling, Blanks DEF IInv, RescueClaims, filesVars, ghosts
<1>1. TypeOK'
  BY DEF TypeOK, Claim
<1>2. NamesInv' /\ OwnersInv' /\ LeftInv'
  BY DEF TypeOK, NamesInv, OwnersInv, LeftInv, Claim
<1>3. OfferInv'
  BY DEF TypeOK, OfferInv, OwnersInv, NamesInv, Ended
<1>4. LookInv'
  BY DEF TypeOK, LookInv, OwnersInv, NamesInv, Ended, Claim, LiveOther,
         Running
<1>5. ApartInv' /\ AlternateInv' /\ QuitLeavesNothing'
  BY DEF TypeOK, ApartInv, AlternateInv, QuitLeavesNothing, OwnersInv,
         OfferInv, LeftInv, NamesInv, Running
<1>6. OfferedInv' /\ KeptInv'
  BY DEF TypeOK, OfferedInv, KeptInv, OfferInv, LeftInv
<1> QED
  BY <1>1, <1>2, <1>3, <1>4, <1>5, <1>6

(* A process that is killed leaves everything as it is.                    *)
LEMMA KillPreserves ==
    ASSUME IInv, NEW p \in Proc, Kill(p)
    PROVE  IInv'
<1> USE Names, Journaling, Blanks DEF IInv, Kill, filesVars, writerVars, ghosts
<1>1. TypeOK'
  BY DEF TypeOK
<1>2. NamesInv' /\ OwnersInv' /\ LeftInv'
  BY DEF TypeOK, NamesInv, OwnersInv, LeftInv
<1>3. OfferInv'
  BY DEF TypeOK, OfferInv, OwnersInv, NamesInv, Ended
<1>4. LookInv'
  BY DEF TypeOK, LookInv, OwnersInv, NamesInv, Ended
<1>5. ApartInv' /\ AlternateInv' /\ QuitLeavesNothing'
  BY DEF TypeOK, ApartInv, AlternateInv, QuitLeavesNothing, OwnersInv,
         OfferInv, LeftInv, NamesInv, Running
<1>6. OfferedInv' /\ KeptInv'
  BY DEF TypeOK, OfferedInv, KeptInv, OfferInv, LeftInv
<1> QED
  BY <1>1, <1>2, <1>3, <1>4, <1>5, <1>6

----------------------------------------------------------------------------
(* Archiving.  What is moved away is in the archive; it was a journal the  *)
(* prompt showed, of a process that has ended, unless the look was stale.  *)
LEMMA ArchivesKeeps ==
    ASSUME IInv, NEW p \in Proc, Archives(p, offer[p].file),
           UNCHANGED <<offer, left, synced, released, forfeit>>
    PROVE  /\ KeptInv'
           /\ \A q \in Proc : /\ offer[q].journal # Absent
                              /\ disk'[offer[q].file].owner = offer[q].journal.owner
                    => offer[q].journal.text \subseteq disk'[offer[q].file].text
           /\ offer[p].journal # Absent =>
                 \/ offer[p].journal.text \subseteq archive'
                 \/ disk'[Primary].owner # offer[p].journal.owner
           /\ \A q \in Proc : disk'[Primary].owner = q => disk[Primary].owner = q
<1> USE Names, Journaling, Blanks DEF IInv, Archives
<1> DEFINE g == offer[p].file
<1>0. g \in File /\ disk[g] \in Journals
  BY DEF TypeOK
<1>1. archive' = archive \cup disk[g].text /\ disk' = [disk EXCEPT ![g] = Absent]
  OBVIOUS
<1>2. KeptInv'
  BY <1>0, <1>1 DEF KeptInv, TypeOK
<1>3. \A q \in Proc : /\ offer[q].journal # Absent
                      /\ disk'[offer[q].file].owner = offer[q].journal.owner
            => offer[q].journal.text \subseteq disk'[offer[q].file].text
  BY <1>0, <1>1 DEF OfferedInv, TypeOK
<1>4. offer[p].journal # Absent =>
         \/ offer[p].journal.text \subseteq archive'
         \/ disk'[Primary].owner # offer[p].journal.owner
  <2> SUFFICES ASSUME offer[p].journal # Absent
               PROVE  \/ offer[p].journal.text \subseteq archive'
                      \/ disk'[Primary].owner # offer[p].journal.owner
    OBVIOUS
  <2>1. offer[p].journal.owner \in Proc
    BY DEF TypeOK
  <2>2. disk[g].owner = offer[p].journal.owner => offer[p].journal.text \subseteq disk[g].text
    BY DEF OfferedInv
  <2>3. CASE g = Primary
    BY <1>0, <1>1, <2>1, <2>2, <2>3 DEF TypeOK
  <2>4. CASE g # Primary
    <3>1. disk[g].owner = offer[p].journal.owner
      BY <1>0, <2>4 DEF OfferInv, NamesInv
    <3> QED
      BY <1>1, <2>2, <3>1
  <2> QED
    BY <2>3, <2>4
<1>5. \A q \in Proc : disk'[Primary].owner = q => disk[Primary].owner = q
  BY <1>0, <1>1 DEF TypeOK
<1> QED
  BY <1>2, <1>3, <1>4, <1>5

(* The disk file is opened and the offered journal archived.               *)
LEMMA AnswerDiskPreserves ==
    ASSUME IInv, NEW p \in Proc, AnswerDisk(p)
    PROVE  IInv'
<1> USE Names, Journaling, Blanks DEF IInv, AnswerDisk, Archives, StartsEditing
<1>1. TypeOK'
  BY DEF TypeOK, Claim, Disturbs, Victims
<1>2. NamesInv' /\ OwnersInv'
  BY DEF TypeOK, NamesInv, OwnersInv, Claim
<1>3. LeftInv'
  BY DEF TypeOK, LeftInv
<1>4. OfferInv'
  BY DEF TypeOK, OfferInv, Ended
<1>5. LookInv'
  BY DEF TypeOK, LookInv, Disturbs, Ended
<1>6. ApartInv'
  <2> SUFFICES ASSUME NEW q \in Proc, Running(q)', left[q] # Nowhere,
                      q \notin hit' \/ left[q].file = q
               PROVE  disk'[left[q].file] = left[q].journal
    BY DEF ApartInv
  <2>1. q # p /\ Running(q)
    BY DEF TypeOK, LeftInv, Running
  <2>2. q \notin hit \/ left[q].file = q
    BY DEF Disturbs
  <2>3. disk[left[q].file] = left[q].journal /\ left[q].journal.owner = q
    BY <2>1, <2>2 DEF ApartInv, LeftInv
  <2>4. left[q].file # offer[p].file
    <3> SUFFICES ASSUME left[q].file = offer[p].file PROVE FALSE
      OBVIOUS
    <3>1. disk[offer[p].file] # offer[p].journal
      BY <2>1, <2>3 DEF OfferInv, Running, Ended
    <3>2. q \in hit'
      BY <2>1, <2>3, <3>1 DEF Disturbs, Victims
    <3> QED
      BY <2>1, <3>2 DEF OfferInv, Running, Ended
  <2> QED
    BY <2>3, <2>4 DEF TypeOK
<1>7. AlternateInv'
  BY DEF TypeOK, AlternateInv, OwnersInv, OfferInv
<1>8. QuitLeavesNothing'
  BY DEF TypeOK, QuitLeavesNothing
<1>9. KeptInv'
  BY ArchivesKeeps
<1>10. OfferedInv'
  <2> SUFFICES ASSUME NEW q \in Proc, offer[q].journal # Absent
               PROVE  /\ disk'[offer[q].file].owner = offer[q].journal.owner
                            => offer[q].journal.text \subseteq disk'[offer[q].file].text
                      /\ phase'[q] \in {"edit", "write", "rescue"} =>
                            \/ offer[q].journal.text \subseteq buf'[q] \cup archive' \cup released'
                            \/ disk'[Primary].owner # offer[q].journal.owner
    BY DEF OfferedInv
  <2>1. offer[q].journal.owner \in Proc
    BY DEF TypeOK
  <2>2. CASE q = p
    <3>1. \/ offer[p].journal.text \subseteq archive'
          \/ disk'[Primary].owner # offer[p].journal.owner
      BY <2>2, ArchivesKeeps
    <3>2. disk'[offer[p].file].owner = offer[p].journal.owner
             => offer[p].journal.text \subseteq disk'[offer[p].file].text
      BY <2>2, ArchivesKeeps
    <3> QED
      BY <2>2, <3>1, <3>2
  <2>3. CASE q # p
    <3>1. phase'[q] = phase[q] /\ buf'[q] = buf[q] /\ archive \subseteq archive'
      BY <2>3 DEF TypeOK
    <3> QED
      BY <2>1, <3>1, ArchivesKeeps DEF OfferedInv
  <2> QED
    BY <2>2, <2>3
<1> QED
  BY <1>1, <1>2, <1>3, <1>4, <1>5, <1>6, <1>7, <1>8, <1>9, <1>10

(* A recovery archives the journal whose text it wrote under another name. *)
LEMMA AdoptArchivesPreserves ==
    ASSUME IInv, NEW p \in Proc, AdoptArchives(p)
    PROVE  IInv'
<1> USE Names, Journaling, Blanks DEF IInv, AdoptArchives, AdoptEnds, Archives, StartsEditing
<1>1. TypeOK'
  BY DEF TypeOK, Claim, Disturbs, Victims
<1>2. NamesInv' /\ OwnersInv'
  BY DEF TypeOK, NamesInv, OwnersInv, Claim
<1>3. LeftInv'
  BY DEF TypeOK, LeftInv
<1>4. OfferInv'
  BY DEF TypeOK, OfferInv, Ended
<1>5. LookInv'
  BY DEF TypeOK, LookInv, Disturbs, Ended
<1>6. ApartInv'
  BY DEF TypeOK, ApartInv, NamesInv, LeftInv, OfferInv, Disturbs, Victims, Running, Ended
<1>7. AlternateInv'
  BY DEF TypeOK, AlternateInv, OwnersInv, OfferInv
<1>8. QuitLeavesNothing'
  BY DEF TypeOK, QuitLeavesNothing
<1>9. KeptInv'
  BY ArchivesKeeps
<1>10. OfferedInv'
  <2> SUFFICES ASSUME NEW q \in Proc, offer[q].journal # Absent
               PROVE  /\ disk'[offer[q].file].owner = offer[q].journal.owner
                            => offer[q].journal.text \subseteq disk'[offer[q].file].text
                      /\ phase'[q] \in {"edit", "write", "rescue"} =>
                            \/ offer[q].journal.text \subseteq buf'[q] \cup archive' \cup released'
                            \/ disk'[Primary].owner # offer[q].journal.owner
    BY DEF OfferedInv
  <2>1. offer[q].journal.owner \in Proc
    BY DEF TypeOK
  <2>2. CASE q = p
    <3>1. \/ offer[p].journal.text \subseteq archive'
          \/ disk'[Primary].owner # offer[p].journal.owner
      BY <2>2, ArchivesKeeps
    <3>2. disk'[offer[p].file].owner = offer[p].journal.owner
             => offer[p].journal.text \subseteq disk'[offer[p].file].text
      BY <2>2, ArchivesKeeps
    <3> QED
      BY <2>2, <3>1, <3>2
  <2>3. CASE q # p
    <3>1. phase'[q] = phase[q] /\ buf'[q] = buf[q] /\ archive \subseteq archive'
      BY <2>3 DEF TypeOK
    <3> QED
      BY <2>1, <3>1, ArchivesKeeps DEF OfferedInv
  <2> QED
    BY <2>2, <2>3
<1> QED
  BY <1>1, <1>2, <1>3, <1>4, <1>5, <1>6, <1>7, <1>8, <1>9, <1>10

----------------------------------------------------------------------------
(* Writing a whole journal.  Its text covers what the process left before; *)
(* the journal of another that it replaces was offered to it and is in its *)
(* buffer, in the archive or let go, or is counted as overwritten.         *)
LEMMA ReplacesKeeps ==
    ASSUME IInv, NEW p \in Proc, NEW t \in Text, NEW stale \in BOOLEAN,
           Replaces(p, file[p], t, stale),
           left[p].journal.text \subseteq t,
           disk[file[p]] = offer[p].journal =>
               offer[p].journal.text \subseteq t \cup archive \cup released,
           UNCHANGED <<archive, released>>
    PROVE  KeptInv'
<1> USE Names, Journaling, Blanks DEF IInv
<1> DEFINE g == file[p]
<1>0. g \in File /\ disk[g] \in Journals /\ Journal(p, t).text = t /\ Journal(p, t).owner = p
  BY DEF TypeOK
<1>1. /\ disk' = [disk EXCEPT ![g] = Journal(p, t)]
      /\ left' = [left EXCEPT ![p] = [file |-> g, journal |-> Journal(p, t)]]
      /\ synced' = synced \cup t
  BY DEF Replaces
<1>2. disk'[g].owner = p /\ disk'[g].text = t /\ left'[p].journal.text = t
  BY <1>0, <1>1 DEF TypeOK
<1>3. \/ disk[g].owner = p
      \/ disk[g].text \subseteq forfeit'
      \/ disk[g].text \subseteq t \cup archive \cup released
  BY DEF Replaces
<1>4. forfeit \subseteq forfeit' /\ archive' = archive /\ released' = released
  BY DEF Replaces
<1> SUFFICES ASSUME NEW e \in synced'
             PROVE  \/ e \in archive \cup released \cup forfeit'
                    \/ \E q \in Proc, f \in File : disk'[f].owner = q
                           /\ e \in disk'[f].text \cap left'[q].journal.text
  BY <1>4 DEF KeptInv
<1>5. CASE e \in t
  BY <1>0, <1>2, <1>5
<1>6. CASE e \notin t
  <2>1. e \in synced
    BY <1>1, <1>6
  <2>2. CASE e \in archive \cup released \cup forfeit
    BY <1>4, <2>2
  <2>3. CASE e \notin archive \cup released \cup forfeit
    <3>1. PICK q \in Proc, f \in File :
             disk[f].owner = q /\ e \in disk[f].text \cap left[q].journal.text
      BY <2>1, <2>3 DEF KeptInv
    <3>2. CASE f = g
      BY <1>3, <1>6, <2>3, <3>1, <3>2
    <3>3. CASE f # g
      <4>1. disk'[f] = disk[f]
        BY <1>1, <3>3 DEF TypeOK
      <4>2. q # p
        BY <1>6, <3>1
      <4>3. left'[q] = left[q]
        BY <1>1, <4>2 DEF TypeOK
      <4> QED
        BY <3>1, <4>1, <4>3
    <3> QED
      BY <3>2, <3>3
  <2> QED
    BY <2>2, <2>3
<1> QED
  BY <1>5, <1>6

(* A prompt's journal belongs to a process that has ended, so nobody       *)
(* writes one with that owner again.                                       *)
LEMMA ReplacesSparesOffers ==
    ASSUME IInv, NEW p \in Proc, Running(p), NEW t \in Text,
           disk' = [disk EXCEPT ![file[p]] = Journal(p, t)],
           NEW q \in Proc, offer[q].journal # Absent
    PROVE  /\ disk'[offer[q].file].owner = offer[q].journal.owner
                 => offer[q].journal.text \subseteq disk'[offer[q].file].text
           /\ disk'[Primary].owner = offer[q].journal.owner
                 => disk[Primary].owner = offer[q].journal.owner
<1> USE Names, Journaling, Blanks DEF IInv
<1>1. offer[q].journal.owner # p
  BY DEF OfferInv, Running, Ended
<1>2. \A f \in File : disk'[f] = disk[f] \/ disk'[f].owner = p
  BY DEF TypeOK
<1>3. offer[q].file \in File
  BY DEF TypeOK
<1> QED
  BY <1>1, <1>2, <1>3 DEF OfferedInv

(* A recovery writes the offered text under the name it claimed.           *)
LEMMA AdoptWritesPreserves ==
    ASSUME IInv, NEW p \in Proc, AdoptWrites(p)
    PROVE  IInv'
<1> USE Names, Journaling, Blanks DEF IInv, AdoptWrites, writerVars
<1> DEFINE t == offer[p].journal.text
<1>0. /\ t \in Text /\ Running(p)
      /\ Replaces(p, file[p], t, disk[file[p]] # look[p])
      /\ UNCHANGED <<archive, released, offer>>
      /\ disk' = [disk EXCEPT ![file[p]] = Journal(p, t)]
  BY DEF TypeOK, Running, Replaces
<1>1. TypeOK'
  BY DEF TypeOK, Replaces, Disturbs, Victims
<1>2. NamesInv'
  BY DEF TypeOK, NamesInv, Replaces
<1>3. OwnersInv'
  BY DEF TypeOK, OwnersInv, Replaces
<1>4. LeftInv'
  BY DEF TypeOK, LeftInv, NamesInv, Replaces
<1>5. OfferInv'
  BY DEF TypeOK, OfferInv, Ended
<1>6. LookInv'
  BY DEF TypeOK, LookInv, Replaces, Disturbs, Ended
<1>7. ApartInv'
  BY DEF TypeOK, ApartInv, NamesInv, LeftInv, LookInv, Replaces, Disturbs, Victims, Running, Ended
<1>8. AlternateInv'
  BY DEF TypeOK, AlternateInv, NamesInv, OfferInv, Replaces
<1>9. QuitLeavesNothing'
  BY DEF TypeOK, QuitLeavesNothing, Replaces
<1>10. KeptInv'
  <2>1. left[p].journal.text \subseteq t
    BY DEF LeftInv
  <2>2. disk[file[p]] = offer[p].journal =>
           offer[p].journal.text \subseteq t \cup archive \cup released
    <3> SUFFICES ASSUME disk[file[p]] = offer[p].journal, offer[p].journal # Absent
                 PROVE  offer[p].journal.text \subseteq t \cup archive \cup released
      OBVIOUS
    <3>1. file[p] = Primary
      BY <1>0 DEF NamesInv, OfferInv, Ended, Running
    <3> QED
      BY <3>1 DEF OfferedInv
  <2>3. PICK u \in Text, stale \in BOOLEAN : u = t /\ stale = (disk[file[p]] # look[p])
    BY <1>0
  <2>4. /\ Replaces(p, file[p], u, stale) /\ left[p].journal.text \subseteq u
        /\ disk[file[p]] = offer[p].journal =>
              offer[p].journal.text \subseteq u \cup archive \cup released
        /\ UNCHANGED <<archive, released>>
    BY <1>0, <2>1, <2>2, <2>3
  <2>5. IInv /\ u \in Text /\ stale \in BOOLEAN /\ p \in Proc
    OBVIOUS
  <2> HIDE DEF IInv
  <2> QED
    BY ONLY <2>4, <2>5, ReplacesKeeps
<1>11. OfferedInv'
  <2> SUFFICES ASSUME NEW q \in Proc, offer[q].journal # Absent
               PROVE  /\ disk'[offer[q].file].owner = offer[q].journal.owner
                            => offer[q].journal.text \subseteq disk'[offer[q].file].text
                      /\ phase'[q] \in {"edit", "write", "rescue"} =>
                            \/ offer[q].journal.text \subseteq buf[q] \cup archive \cup released
                            \/ disk'[Primary].owner # offer[q].journal.owner
    BY DEF OfferedInv
  <2>1. phase'[q] \in {"edit", "write", "rescue"} => phase[q] \in {"edit", "write", "rescue"}
    BY DEF TypeOK
  <2> QED
    BY <1>0, <2>1, ReplacesSparesOffers DEF OfferedInv
<1> QED
  BY <1>1, <1>2, <1>3, <1>4, <1>5, <1>6, <1>7, <1>8, <1>9, <1>10, <1>11

(* A flush writes the whole text.                                          *)
LEMMA WriteOutPreserves ==
    ASSUME IInv, NEW p \in Proc, WriteOut(p)
    PROVE  IInv'
<1> USE Names, Journaling, Blanks DEF IInv, WriteOut
<1> DEFINE t == buf[p]
<1>0. /\ t \in Text /\ Running(p)
      /\ Replaces(p, file[p], t, disk[file[p]] # look[p])
      /\ UNCHANGED <<archive, released, offer>>
      /\ disk' = [disk EXCEPT ![file[p]] = Journal(p, t)]
  BY DEF TypeOK, Running, Replaces
<1>1. TypeOK'
  BY DEF TypeOK, Replaces, Disturbs, Victims
<1>2. NamesInv'
  BY DEF TypeOK, NamesInv, Replaces
<1>3. OwnersInv'
  BY DEF TypeOK, OwnersInv, Replaces
<1>4. LeftInv'
  BY DEF TypeOK, LeftInv, NamesInv, Replaces
<1>5. OfferInv'
  BY DEF TypeOK, OfferInv, Ended
<1>6. LookInv'
  BY DEF TypeOK, LookInv, Replaces, Disturbs, Ended
<1>7. ApartInv'
  BY DEF TypeOK, ApartInv, NamesInv, LeftInv, LookInv, Replaces, Disturbs, Victims, Running, Ended
<1>8. AlternateInv'
  BY DEF TypeOK, AlternateInv, NamesInv, OfferInv, Replaces
<1>9. QuitLeavesNothing'
  BY DEF TypeOK, QuitLeavesNothing, Replaces
<1>10. KeptInv'
  <2>1. left[p].journal.text \subseteq t
    BY DEF LeftInv
  <2>2. disk[file[p]] = offer[p].journal =>
           offer[p].journal.text \subseteq t \cup archive \cup released
    <3> SUFFICES ASSUME disk[file[p]] = offer[p].journal, offer[p].journal # Absent
                 PROVE  offer[p].journal.text \subseteq t \cup archive \cup released
      OBVIOUS
    <3>1. file[p] = Primary
      BY <1>0 DEF NamesInv, OfferInv, Ended, Running
    <3> QED
      BY <3>1 DEF OfferedInv
  <2>3. PICK u \in Text, stale \in BOOLEAN : u = t /\ stale = (disk[file[p]] # look[p])
    BY <1>0
  <2>4. /\ Replaces(p, file[p], u, stale) /\ left[p].journal.text \subseteq u
        /\ disk[file[p]] = offer[p].journal =>
              offer[p].journal.text \subseteq u \cup archive \cup released
        /\ UNCHANGED <<archive, released>>
    BY <1>0, <2>1, <2>2, <2>3
  <2>5. IInv /\ u \in Text /\ stale \in BOOLEAN /\ p \in Proc
    OBVIOUS
  <2> HIDE DEF IInv
  <2> QED
    BY ONLY <2>4, <2>5, ReplacesKeeps
<1>11. OfferedInv'
  <2> SUFFICES ASSUME NEW q \in Proc, offer[q].journal # Absent
               PROVE  /\ disk'[offer[q].file].owner = offer[q].journal.owner
                            => offer[q].journal.text \subseteq disk'[offer[q].file].text
                      /\ phase'[q] \in {"edit", "write", "rescue"} =>
                            \/ offer[q].journal.text \subseteq buf[q] \cup archive \cup released
                            \/ disk'[Primary].owner # offer[q].journal.owner
    BY DEF OfferedInv
  <2>1. phase'[q] \in {"edit", "write", "rescue"} => phase[q] \in {"edit", "write", "rescue"}
    BY DEF TypeOK
  <2> QED
    BY <1>0, <2>1, ReplacesSparesOffers DEF OfferedInv
<1> QED
  BY <1>1, <1>2, <1>3, <1>4, <1>5, <1>6, <1>7, <1>8, <1>9, <1>10, <1>11

(* A rescue writes the whole text and the process ends.                    *)
LEMMA RescueWritesPreserves ==
    ASSUME IInv, NEW p \in Proc, RescueWrites(p)
    PROVE  IInv'
<1> USE Names, Journaling, Blanks DEF IInv, RescueWrites, writerVars
<1> DEFINE t == buf[p]
<1>0. /\ t \in Text /\ Running(p)
      /\ Replaces(p, file[p], t, disk[file[p]] # look[p])
      /\ UNCHANGED <<archive, released, offer>>
      /\ disk' = [disk EXCEPT ![file[p]] = Journal(p, t)]
  BY DEF TypeOK, Running, Replaces
<1>1. TypeOK'
  BY DEF TypeOK, Replaces, Disturbs, Victims
<1>2. NamesInv'
  BY DEF TypeOK, NamesInv, Replaces
<1>3. OwnersInv'
  BY DEF TypeOK, OwnersInv, Replaces
<1>4. LeftInv'
  BY DEF TypeOK, LeftInv, NamesInv, Replaces
<1>5. OfferInv'
  BY DEF TypeOK, OfferInv, Ended
<1>6. LookInv'
  BY DEF TypeOK, LookInv, Replaces, Disturbs, Ended
<1>7. ApartInv'
  BY DEF TypeOK, ApartInv, NamesInv, LeftInv, LookInv, Replaces, Disturbs, Victims, Running, Ended
<1>8. AlternateInv'
  BY DEF TypeOK, AlternateInv, NamesInv, OfferInv, Replaces
<1>9. QuitLeavesNothing'
  BY DEF TypeOK, QuitLeavesNothing, Replaces
<1>10. KeptInv'
  <2>1. left[p].journal.text \subseteq t
    BY DEF LeftInv
  <2>2. disk[file[p]] = offer[p].journal =>
           offer[p].journal.text \subseteq t \cup archive \cup released
    <3> SUFFICES ASSUME disk[file[p]] = offer[p].journal, offer[p].journal # Absent
                 PROVE  offer[p].journal.text \subseteq t \cup archive \cup released
      OBVIOUS
    <3>1. file[p] = Primary
      BY <1>0 DEF NamesInv, OfferInv, Ended, Running
    <3> QED
      BY <3>1 DEF OfferedInv
  <2>3. PICK u \in Text, stale \in BOOLEAN : u = t /\ stale = (disk[file[p]] # look[p])
    BY <1>0
  <2>4. /\ Replaces(p, file[p], u, stale) /\ left[p].journal.text \subseteq u
        /\ disk[file[p]] = offer[p].journal =>
              offer[p].journal.text \subseteq u \cup archive \cup released
        /\ UNCHANGED <<archive, released>>
    BY <1>0, <2>1, <2>2, <2>3
  <2>5. IInv /\ u \in Text /\ stale \in BOOLEAN /\ p \in Proc
    OBVIOUS
  <2> HIDE DEF IInv
  <2> QED
    BY ONLY <2>4, <2>5, ReplacesKeeps
<1>11. OfferedInv'
  <2> SUFFICES ASSUME NEW q \in Proc, offer[q].journal # Absent
               PROVE  /\ disk'[offer[q].file].owner = offer[q].journal.owner
                            => offer[q].journal.text \subseteq disk'[offer[q].file].text
                      /\ phase'[q] \in {"edit", "write", "rescue"} =>
                            \/ offer[q].journal.text \subseteq buf[q] \cup archive \cup released
                            \/ disk'[Primary].owner # offer[q].journal.owner
    BY DEF OfferedInv
  <2>1. phase'[q] \in {"edit", "write", "rescue"} => phase[q] \in {"edit", "write", "rescue"}
    BY DEF TypeOK
  <2> QED
    BY <1>0, <2>1, ReplacesSparesOffers DEF OfferedInv
<1> QED
  BY <1>1, <1>2, <1>3, <1>4, <1>5, <1>6, <1>7, <1>8, <1>9, <1>10, <1>11

----------------------------------------------------------------------------
(* Appending.  The journal keeps its owner and only grows; if it is not    *)
(* the one the writer left, the writer was disturbed and what it appends   *)
(* is counted as lost.                                                     *)
LEMMA FlushAppendsPreserves ==
    ASSUME IInv, NEW p \in Proc, FlushAppends(p)
    PROVE  IInv'
<1> USE Names, Journaling, Blanks DEF IInv
<1> DEFINE g == file[p]
           ours == disk[g] = left[p].journal
           t == IF ours THEN buf[p] ELSE disk[g].text \cup {Garbled}
<1>1. /\ phase[p] = "edit" /\ state[p] = "Live" /\ disk[g] # Absent
      /\ disk' = [disk EXCEPT ![g] = Journal(disk[g].owner, t)]
      /\ left' = [left EXCEPT ![p] = [file |-> g, journal |-> Journal(p, buf[p])]]
      /\ synced' = synced \cup buf[p]
      /\ hit' = Disturbs(p, g, FALSE)
      /\ forfeit' = IF ~ours /\ p \in hit THEN forfeit \cup (buf[p] \ left[p].journal.text)
                                          ELSE forfeit
      /\ UNCHANGED <<archive, doc, edits, phase, buf, offer, state, file, rewrite, look, released>>
  BY DEF FlushAppends, AsLeft, writerVars
<1>2. /\ g \in File /\ disk[g] \in Journals /\ disk[g].owner \in Proc
      /\ buf[p] \in Text /\ left[p] # Nowhere /\ left[p].file = g
      /\ left[p].journal.owner = p /\ left[p].journal.text \subseteq buf[p]
      /\ left[p].journal.text \subseteq synced
  BY <1>1 DEF TypeOK, LeftInv
<1>3. t \in Text
  <2>1. {Garbled} \in Text
    BY OwnershipAssumption DEF Text, Garbled
  <2> QED
    BY <1>2, <2>1
<1>4. disk[g].text \subseteq t /\ (ours => t = buf[p])
  BY <1>2
<1>5. /\ disk'[g] = Journal(disk[g].owner, t) /\ disk'[g].owner = disk[g].owner
      /\ disk'[g].text = t /\ disk'[g] # Absent
      /\ \A f \in File \ {g} : disk'[f] = disk[f]
  BY <1>1, <1>2, <1>3 DEF TypeOK
<1>6. /\ left'[p].journal = Journal(p, buf[p]) /\ left'[p].file = g
      /\ left'[p].journal.text = buf[p] /\ left'[p].journal.owner = p /\ left'[p] # Nowhere
      /\ \A q \in Proc \ {p} : left'[q] = left[q]
  BY <1>1, <1>2 DEF TypeOK
<1>7. ~ours => p \in hit /\ g # p
  BY <1>1, <1>2 DEF ApartInv, Running
<1>8. hit \subseteq hit'
  BY <1>1 DEF Disturbs
<1> HIDE DEF t, ours
<1>9. TypeOK'
  <2>1. disk' \in [File -> Journals] /\ left' \in [Proc -> [file : File, journal : Journals]]
    BY <1>1, <1>2, <1>3 DEF TypeOK
  <2>2. hit' \subseteq Proc
    BY <1>1 DEF TypeOK, Disturbs, Victims
  <2>3. synced' \in Text /\ forfeit' \in Text
    <3>1. buf[p] \ left[p].journal.text \in Text
      BY <1>2 DEF Text
    <3> QED
      BY <1>1, <1>2, <3>1 DEF TypeOK
  <2> QED
    BY <1>1, <2>1, <2>2, <2>3 DEF TypeOK
<1>10. NamesInv' /\ OwnersInv'
  <2>1. \A f \in File : /\ disk'[f].owner = disk[f].owner
                        /\ disk'[f] # Absent => disk[f] # Absent
    BY <1>1, <1>5
  <2>2. NamesInv'
    BY <1>1, <2>1 DEF NamesInv
  <2>3. OwnersInv'
    BY <1>1, <2>1 DEF OwnersInv
  <2> QED
    BY <2>2, <2>3
<1>11. LeftInv'
  BY <1>1, <1>2, <1>6 DEF LeftInv, NamesInv
<1>12. OfferInv' /\ LookInv'
  BY <1>1, <1>8 DEF OfferInv, LookInv, Ended
<1>13. ApartInv'
  <2> SUFFICES ASSUME NEW q \in Proc, Running(q)', left'[q] # Nowhere,
                      q \notin hit' \/ left'[q].file = q
               PROVE  disk'[left'[q].file] = left'[q].journal
    BY DEF ApartInv
  <2>1. CASE q = p
    <3>1. ours
      BY <1>6, <1>7, <1>8, <2>1
    <3> QED
      BY <1>2, <1>4, <1>5, <1>6, <2>1, <3>1 DEF ours
  <2>2. CASE q # p
    <3>1. /\ left'[q] = left[q] /\ Running(q) /\ left[q].journal.owner = q
          /\ left[q].file \in {Primary, q} /\ disk[left[q].file] = left[q].journal
      <4>1. left'[q] = left[q] /\ Running(q) /\ (q \notin hit \/ left[q].file = q)
        BY <1>1, <1>6, <1>8, <2>2 DEF Running
      <4> QED
        BY <4>1 DEF ApartInv, LeftInv
    <3>2. left[q].file # g
      <4> SUFFICES ASSUME left[q].file = g PROVE FALSE
        OBVIOUS
      <4>1. ~ours
        BY <1>2, <2>2, <3>1 DEF ours
      <4>2. q \in hit'
        BY <1>1, <1>6, <1>7, <2>2, <3>1, <4>1 DEF Disturbs, Victims
      <4> QED
        BY <1>2, <2>2, <3>1, <4>2 DEF NamesInv
    <3> QED
      BY <1>5, <3>1, <3>2
  <2> QED
    BY <2>1, <2>2
<1>14. AlternateInv'
  BY <1>1, <1>5 DEF AlternateInv
<1>15. QuitLeavesNothing'
  BY <1>1, <1>5 DEF QuitLeavesNothing
<1>16. OfferedInv'
  <2>1. \A f \in File : disk'[f].owner = disk[f].owner /\ disk[f].text \subseteq disk'[f].text
    BY <1>4, <1>5
  <2>2. \A q \in Proc : offer[q].file \in File
    BY DEF TypeOK
  <2> SUFFICES ASSUME NEW q \in Proc, offer[q].journal # Absent
               PROVE  /\ disk'[offer[q].file].owner = offer[q].journal.owner
                            => offer[q].journal.text \subseteq disk'[offer[q].file].text
                      /\ phase[q] \in {"edit", "write", "rescue"} =>
                            \/ offer[q].journal.text \subseteq buf[q] \cup archive \cup released
                            \/ disk'[Primary].owner # offer[q].journal.owner
    BY <1>1 DEF OfferedInv
  <2> QED
    BY <2>1, <2>2 DEF OfferedInv
<1>17. KeptInv'
  <2> SUFFICES ASSUME NEW e \in synced'
               PROVE  \/ e \in archive \cup released \cup forfeit'
                      \/ \E q \in Proc, f \in File : disk'[f].owner = q
                             /\ e \in disk'[f].text \cap left'[q].journal.text
    BY <1>1 DEF KeptInv
  <2>1. CASE e \in synced
    <3>1. CASE e \in archive \cup released \cup forfeit
      BY <1>1, <3>1
    <3>2. CASE e \notin archive \cup released \cup forfeit
      <4>1. PICK q \in Proc, f \in File :
               disk[f].owner = q /\ e \in disk[f].text \cap left[q].journal.text
        BY <2>1, <3>2 DEF KeptInv
      <4>2. e \in left'[q].journal.text
        BY <1>2, <1>6, <4>1
      <4>3. disk'[f].owner = q /\ e \in disk'[f].text
        BY <1>4, <1>5, <4>1
      <4> QED
        BY <4>2, <4>3
    <3> QED
      BY <3>1, <3>2
  <2>2. CASE e \notin synced
    <3>1. e \in buf[p] \ left[p].journal.text
      BY <1>1, <1>2, <2>2
    <3>2. CASE ours
      BY <1>2, <1>4, <1>5, <1>6, <3>1, <3>2 DEF ours
    <3>3. CASE ~ours
      BY <1>1, <1>7, <3>1, <3>3
    <3> QED
      BY <3>2, <3>3
  <2> QED
    BY <2>1, <2>2
<1> QED
  BY <1>9, <1>10, <1>11, <1>12, <1>13, <1>14, <1>15, <1>16, <1>17

----------------------------------------------------------------------------
(* Letting go.  Only journals the process owns are removed, the document's *)
(* own name and the writer's among them.                                   *)
LEMMA DiscardsOwn ==
    ASSUME IInv, NEW p \in Proc
    PROVE  /\ WithoutJournals(p) \in [File -> Journals]
           /\ \A f \in File : \/ WithoutJournals(p)[f] = disk[f]
                              \/ disk[f].owner = p /\ WithoutJournals(p)[f] = Absent
           /\ WithoutJournals(p)[Primary].owner # p
           /\ state[p] # "Idle" => WithoutJournals(p)[file[p]].owner # p
<1> USE Names, Journaling DEF IInv, TypeOK
<1> DEFINE d == IF state[p] = "Idle" THEN disk ELSE DiscardFile(p, file[p], disk)
<1>1. /\ d \in [File -> Journals]
      /\ \A f \in File : d[f] = disk[f] \/ (disk[f].owner = p /\ d[f] = Absent)
      /\ state[p] # "Idle" => d[file[p]].owner # p
  BY DEF DiscardFile
<1>2. WithoutJournals(p) = DiscardFile(p, Primary, d)
  BY DEF WithoutJournals
<1> HIDE DEF d
<1> QED
  BY <1>1, <1>2 DEF DiscardFile

LEMMA LetsGoKeeps ==
    ASSUME IInv, NEW p \in Proc, phase[p] = "edit", LetsGo(p),
           UNCHANGED <<archive, synced, forfeit>>
    PROVE  KeptInv'
<1> USE Names, Journaling, Blanks DEF IInv
<1>1. /\ left' = [left EXCEPT ![p] = Nowhere] /\ released' = released \cup buf[p]
      /\ \A f \in File : disk'[f] = disk[f] \/ disk[f].owner = p
  BY DiscardsOwn DEF LetsGo
<1>2. left[p].journal.text \subseteq buf[p]
  BY DEF LeftInv
<1> SUFFICES ASSUME NEW e \in synced, e \notin archive \cup released' \cup forfeit
             PROVE  \E q \in Proc, f \in File : disk'[f].owner = q
                       /\ e \in disk'[f].text \cap left'[q].journal.text
  BY DEF KeptInv
<1>3. PICK q \in Proc, f \in File :
         disk[f].owner = q /\ e \in disk[f].text \cap left[q].journal.text
  BY <1>1 DEF KeptInv
<1>4. q # p
  BY <1>1, <1>2, <1>3
<1>5. left'[q] = left[q] /\ disk'[f] = disk[f]
  BY <1>1, <1>3, <1>4 DEF TypeOK
<1> QED
  BY <1>3, <1>5

(* A save leaves the file written and the journals gone.                   *)
LEMMA SavePreserves ==
    ASSUME IInv, NEW p \in Proc, Save(p)
    PROVE  IInv'
<1> USE Names, Journaling, Blanks DEF IInv, Save, LetsGo
<1>0. /\ disk' \in [File -> Journals]
      /\ \A f \in File : disk'[f] = disk[f] \/ (disk[f].owner = p /\ disk'[f] = Absent)
      /\ disk'[Primary].owner # p /\ (state[p] # "Idle" => disk'[file[p]].owner # p)
  BY DiscardsOwn
<1> HIDE DEF WithoutJournals
<1>1. TypeOK'
  BY <1>0 DEF TypeOK
<1>2. NamesInv' /\ OwnersInv'
  <2>1. \A f \in File, q \in Proc : disk'[f].owner = q => disk[f].owner = q
    BY <1>0
  <2>2. NamesInv'
    BY <1>0 DEF NamesInv
  <2>3. OwnersInv'
    <3> SUFFICES ASSUME NEW q \in Proc, NEW f \in File,
                        phase'[q] \in {"off", "prompt", "adopt"}, disk'[f].owner = q
                 PROVE  FALSE
      BY DEF OwnersInv
    <3>1. phase[q] \in {"off", "prompt", "adopt"}
      BY DEF TypeOK
    <3> QED
      BY <2>1, <3>1 DEF OwnersInv
  <2> QED
    BY <2>2, <2>3
<1>3. LeftInv'
  BY DEF TypeOK, LeftInv
<1>4. OfferInv' /\ LookInv'
  BY DEF TypeOK, OfferInv, LookInv, Ended
<1>5. ApartInv'
  <2> SUFFICES ASSUME NEW q \in Proc, Running(q)', left'[q] # Nowhere,
                      q \notin hit' \/ left'[q].file = q
               PROVE  disk'[left'[q].file] = left'[q].journal
    BY DEF ApartInv
  <2>1. q # p /\ left'[q] = left[q] /\ Running(q) /\ (q \notin hit \/ left[q].file = q)
    BY DEF TypeOK, Running
  <2>2. /\ disk[left[q].file] = left[q].journal /\ left[q].journal.owner = q
        /\ left[q].file \in File
    BY <2>1 DEF ApartInv, LeftInv
  <2> QED
    BY <1>0, <2>1, <2>2
<1>6. AlternateInv'
  BY <1>0 DEF TypeOK, AlternateInv, NamesInv
<1>7. QuitLeavesNothing'
  <2> SUFFICES ASSUME NEW q \in Proc, NEW f \in File, phase'[q] = "quit", disk'[f].owner = q
               PROVE  f = q /\ offer[q] # NoOffer
    BY DEF QuitLeavesNothing
  <2>1. disk[f].owner = q /\ disk[f] # Absent
    BY <1>0
  <2>2. CASE q = p
    BY <2>2
  <2>3. CASE q # p
    BY <2>1, <2>3 DEF TypeOK, QuitLeavesNothing
  <2> QED
    BY <2>2, <2>3
<1>8. OfferedInv'
  <2> SUFFICES ASSUME NEW q \in Proc, offer[q].journal # Absent
               PROVE  /\ disk'[offer[q].file].owner = offer[q].journal.owner
                            => offer[q].journal.text \subseteq disk'[offer[q].file].text
                      /\ phase'[q] \in {"edit", "write", "rescue"} =>
                            \/ offer[q].journal.text \subseteq buf[q] \cup archive \cup released'
                            \/ disk'[Primary].owner # offer[q].journal.owner
    BY DEF OfferedInv
  <2>1. offer[q].journal.owner \in Proc /\ offer[q].file \in File
    BY DEF TypeOK
  <2>2. \A f \in File : disk'[f].owner = offer[q].journal.owner => disk'[f] = disk[f]
    BY <1>0, <2>1
  <2>3. phase'[q] \in {"edit", "write", "rescue"} => phase[q] \in {"edit", "write", "rescue"}
    BY DEF TypeOK
  <2> QED
    BY <2>1, <2>2, <2>3 DEF OfferedInv
<1>9. KeptInv'
  BY LetsGoKeeps
<1> QED
  BY <1>1, <1>2, <1>3, <1>4, <1>5, <1>6, <1>7, <1>8, <1>9

(* A quit leaves the journals gone, and an alternate behind only after a   *)
(* recovery.                                                               *)
LEMMA QuitPreserves ==
    ASSUME IInv, NEW p \in Proc, Quit(p)
    PROVE  IInv'
<1> USE Names, Journaling, Blanks DEF IInv, Quit, LetsGo, writerVars
<1>0. /\ disk' \in [File -> Journals]
      /\ \A f \in File : disk'[f] = disk[f] \/ (disk[f].owner = p /\ disk'[f] = Absent)
      /\ disk'[Primary].owner # p /\ (state[p] # "Idle" => disk'[file[p]].owner # p)
  BY DiscardsOwn
<1> HIDE DEF WithoutJournals
<1>1. TypeOK'
  BY <1>0 DEF TypeOK
<1>2. NamesInv' /\ OwnersInv'
  <2>1. \A f \in File, q \in Proc : disk'[f].owner = q => disk[f].owner = q
    BY <1>0
  <2>2. NamesInv'
    BY <1>0 DEF NamesInv
  <2>3. OwnersInv'
    <3> SUFFICES ASSUME NEW q \in Proc, NEW f \in File,
                        phase'[q] \in {"off", "prompt", "adopt"}, disk'[f].owner = q
                 PROVE  FALSE
      BY DEF OwnersInv
    <3>1. phase[q] \in {"off", "prompt", "adopt"}
      BY DEF TypeOK
    <3> QED
      BY <2>1, <3>1 DEF OwnersInv
  <2> QED
    BY <2>2, <2>3
<1>3. LeftInv'
  BY DEF TypeOK, LeftInv
<1>4. OfferInv' /\ LookInv'
  BY DEF TypeOK, OfferInv, LookInv, Ended
<1>5. ApartInv'
  <2> SUFFICES ASSUME NEW q \in Proc, Running(q)', left'[q] # Nowhere,
                      q \notin hit' \/ left'[q].file = q
               PROVE  disk'[left'[q].file] = left'[q].journal
    BY DEF ApartInv
  <2>1. q # p /\ left'[q] = left[q] /\ Running(q) /\ (q \notin hit \/ left[q].file = q)
    BY DEF TypeOK, Running
  <2>2. /\ disk[left[q].file] = left[q].journal /\ left[q].journal.owner = q
        /\ left[q].file \in File
    BY <2>1 DEF ApartInv, LeftInv
  <2> QED
    BY <1>0, <2>1, <2>2
<1>6. AlternateInv'
  BY <1>0 DEF TypeOK, AlternateInv, NamesInv
<1>7. QuitLeavesNothing'
  <2> SUFFICES ASSUME NEW q \in Proc, NEW f \in File, phase'[q] = "quit", disk'[f].owner = q
               PROVE  f = q /\ offer[q] # NoOffer
    BY DEF QuitLeavesNothing
  <2>1. disk[f].owner = q /\ disk[f] # Absent
    BY <1>0
  <2>2. CASE q = p
    BY <1>0, <2>1, <2>2 DEF NamesInv, AlternateInv
  <2>3. CASE q # p
    BY <2>1, <2>3 DEF TypeOK, QuitLeavesNothing
  <2> QED
    BY <2>2, <2>3
<1>8. OfferedInv'
  <2> SUFFICES ASSUME NEW q \in Proc, offer[q].journal # Absent
               PROVE  /\ disk'[offer[q].file].owner = offer[q].journal.owner
                            => offer[q].journal.text \subseteq disk'[offer[q].file].text
                      /\ phase'[q] \in {"edit", "write", "rescue"} =>
                            \/ offer[q].journal.text \subseteq buf[q] \cup archive \cup released'
                            \/ disk'[Primary].owner # offer[q].journal.owner
    BY DEF OfferedInv
  <2>1. offer[q].journal.owner \in Proc /\ offer[q].file \in File
    BY DEF TypeOK
  <2>2. \A f \in File : disk'[f].owner = offer[q].journal.owner => disk'[f] = disk[f]
    BY <1>0, <2>1
  <2>3. phase'[q] \in {"edit", "write", "rescue"} => phase[q] \in {"edit", "write", "rescue"}
    BY DEF TypeOK
  <2> QED
    BY <2>1, <2>2, <2>3 DEF OfferedInv
<1>9. KeptInv'
  BY LetsGoKeeps
<1> QED
  BY <1>1, <1>2, <1>3, <1>4, <1>5, <1>6, <1>7, <1>8, <1>9

----------------------------------------------------------------------------
(* The inductive invariant holds however the processes interleave.         *)
THEOREM Inductive == Spec => []IInv
<1>1. Init => IInv
  <2> SUFFICES ASSUME Init PROVE IInv
    OBVIOUS
  <2> USE Names, Journaling, Blanks DEF Init
  <2>1. TypeOK
    BY OwnershipAssumption DEF TypeOK
  <2>2. NamesInv /\ OwnersInv /\ LeftInv /\ OfferInv /\ LookInv
    BY DEF NamesInv, OwnersInv, LeftInv, OfferInv, LookInv
  <2>3. ApartInv /\ OfferedInv /\ KeptInv /\ AlternateInv /\ QuitLeavesNothing
    BY DEF ApartInv, OfferedInv, KeptInv, AlternateInv, QuitLeavesNothing
  <2> QED
    BY <2>1, <2>2, <2>3 DEF IInv
<1>2. IInv /\ [Next]_vars => IInv'
  <2> SUFFICES ASSUME IInv, [Next]_vars PROVE IInv'
    OBVIOUS
  <2>1. CASE UNCHANGED vars
    BY <2>1 DEF vars, IInv, TypeOK, NamesInv, OwnersInv, LeftInv, OfferInv, LookInv, ApartInv,
                OfferedInv, KeptInv, AlternateInv, QuitLeavesNothing, Ended, Running
  <2>2. ASSUME NEW p \in Proc,
               \/ OpenPlain(p) \/ (\E f \in File : OpenPrompt(p, f))
               \/ EditAnyway(p) \/ AnswerDisk(p) \/ AnswerDiskFails(p) \/ AnswerQuit(p)
               \/ AnswerRecover(p)
        PROVE  IInv'
    BY <2>2, OpenPlainPreserves, OpenPromptPreserves, EditAnywayPreserves, AnswerDiskPreserves,
       AnswerDiskFailsPreserves, AnswerQuitPreserves, AnswerRecoverPreserves
  <2>3. ASSUME NEW p \in Proc,
               \/ AdoptWrites(p) \/ AdoptFails(p) \/ AdoptArchives(p) \/ AdoptArchivesNothing(p)
        PROVE  IInv'
    BY <2>3, AdoptWritesPreserves, AdoptFailsPreserves, AdoptArchivesPreserves,
       AdoptArchivesNothingPreserves
  <2>4. ASSUME NEW p \in Proc,
               \/ Edit(p) \/ FlushClaims(p) \/ FlushAppends(p) \/ FlushRewrites(p)
               \/ WriteOut(p) \/ WriteFails(p)
        PROVE  IInv'
    BY <2>4, EditPreserves, FlushClaimsPreserves, FlushAppendsPreserves, FlushRewritesPreserves,
       WriteOutPreserves, WriteFailsPreserves
  <2>5. ASSUME NEW p \in Proc,
               Save(p) \/ Quit(p) \/ RescueClaims(p) \/ RescueWrites(p) \/ Kill(p)
        PROVE  IInv'
    BY <2>5, SavePreserves, QuitPreserves, RescueClaimsPreserves, RescueWritesPreserves,
       KillPreserves
  <2> QED
    BY <2>1, <2>2, <2>3, <2>4, <2>5 DEF Next
<1> QED
  BY <1>1, <1>2, PTL DEF Spec

(* Sessions write beside each other: a running process's journal is as it  *)
(* left it unless a stale decision disturbed it, and nothing another       *)
(* process does ever reaches its alternate (claim, adopt, archive).        *)
THEOREM SessionsKeptApart == Spec => []KeptApart
<1>1. IInv => KeptApart
  BY DEF IInv, NamesInv, ApartInv, KeptApart
<1> QED
  BY <1>1, Inductive, PTL

(* Synced work that was neither saved nor let go is in a journal or in the *)
(* archive, but for what a session never offered it wrote over.            *)
THEOREM SyncedWorkIsKept == Spec => []WorkIsKept
<1>1. IInv => WorkIsKept
  <2> SUFFICES ASSUME IInv, NEW e \in synced, e \notin archive \cup released \cup forfeit
               PROVE  e \in UNION {disk[f].text : f \in File}
    BY DEF WorkIsKept
  <2>1. PICK f \in File : e \in disk[f].text
    BY DEF IInv, KeptInv
  <2> QED
    BY <2>1
<1> QED
  BY <1>1, Inductive, PTL

(* A process that quits leaves no journal but the alternate of a recovery  *)
(* (discard_journals).                                                     *)
THEOREM QuittingCleansUp == Spec => []QuitLeavesNothing
<1>1. IInv => QuitLeavesNothing
  BY DEF IInv
<1> QED
  BY <1>1, Inductive, PTL

=============================================================================
