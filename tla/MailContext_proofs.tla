------------------------- MODULE MailContext_proofs -------------------------
(***************************************************************************)
(* Proofs about the flags and counters of a mailbox, for any finite set of *)
(* messages and every driver.  The operators of MailFlags are dealt with   *)
(* one at a time: each keeps a context well formed and its counters exact. *)
(***************************************************************************)
EXTENDS MailContext, FiniteSetTheorems, TLAPS

(* A well-formed context over keys with exact counters. *)
Good(keys, c) == c \in ContextOver(keys) /\ Exact(c)

(* Putting i into a finite set, or taking it out, changes its size by what *)
(* the counter code adds and subtracts.                                    *)
LEMMA Recount ==
    ASSUME NEW S, IsFiniteSet(S), NEW i, NEW b \in BOOLEAN, NEW T,
           T = IF b THEN S \cup {i} ELSE S \ {i}
    PROVE  Cardinality(T) = Cardinality(S) + Bit(b) - Bit(i \in S)
<1>1. Cardinality(S) \in Nat
  BY FS_CardinalityType
<1>2. CASE b /\ i \in S
  <2>1. T = S
    BY <1>2
  <2> QED BY <1>1, <1>2, <2>1 DEF Bit
<1>3. CASE b /\ i \notin S
  <2>1. Cardinality(T) = Cardinality(S) + 1
    BY <1>3, FS_AddElement
  <2> QED BY <1>1, <1>3, <2>1 DEF Bit
<1>4. CASE ~b /\ i \in S
  <2>1. Cardinality(T) = Cardinality(S) - 1
    BY <1>4, FS_RemoveElement
  <2> QED BY <1>1, <1>4, <2>1 DEF Bit
<1>5. CASE ~b /\ i \notin S
  <2>1. T = S
    BY <1>5
  <2> QED BY <1>1, <1>5, <2>1 DEF Bit
<1> QED BY <1>2, <1>3, <1>4, <1>5

(* The messages a counter is about are finitely many. *)
LEMMA OnesFinite ==
    ASSUME NEW keys, IsFiniteSet(keys), NEW hdrs \in [keys -> Header]
    PROVE  /\ IsFiniteSet(NewOnes(hdrs))     /\ Cardinality(NewOnes(hdrs)) \in Nat
           /\ IsFiniteSet(UnreadOnes(hdrs))  /\ Cardinality(UnreadOnes(hdrs)) \in Nat
           /\ IsFiniteSet(FlaggedOnes(hdrs)) /\ Cardinality(FlaggedOnes(hdrs)) \in Nat
           /\ IsFiniteSet(DeletedOnes(hdrs)) /\ Cardinality(DeletedOnes(hdrs)) \in Nat
           /\ IsFiniteSet(TaggedOnes(hdrs))  /\ Cardinality(TaggedOnes(hdrs)) \in Nat
           /\ IsFiniteSet(ChangedOnes(hdrs)) /\ Cardinality(ChangedOnes(hdrs)) \in Nat
<1>1. /\ NewOnes(hdrs) \subseteq keys     /\ UnreadOnes(hdrs) \subseteq keys
      /\ FlaggedOnes(hdrs) \subseteq keys /\ DeletedOnes(hdrs) \subseteq keys
      /\ TaggedOnes(hdrs) \subseteq keys  /\ ChangedOnes(hdrs) \subseteq keys
  BY DEF NewOnes, UnreadOnes, FlaggedOnes, DeletedOnes, TaggedOnes, ChangedOnes
<1> QED BY <1>1, FS_Subset, FS_CardinalityType

(* Header i becomes h: how each of the sets the counters are about grows   *)
(* or shrinks.                                                             *)
LEMMA Put ==
    ASSUME NEW keys, IsFiniteSet(keys), NEW hdrs \in [keys -> Header],
           NEW i \in keys, NEW h \in Header,
           NEW g, g = [hdrs EXCEPT ![i] = h]
    PROVE  /\ g \in [keys -> Header]
           /\ Cardinality(NewOnes(g)) = Cardinality(NewOnes(hdrs))
                + Bit(~h.read /\ ~h.old) - Bit(~hdrs[i].read /\ ~hdrs[i].old)
           /\ Cardinality(UnreadOnes(g)) = Cardinality(UnreadOnes(hdrs))
                + Bit(~h.read) - Bit(~hdrs[i].read)
           /\ Cardinality(FlaggedOnes(g)) = Cardinality(FlaggedOnes(hdrs))
                + Bit(h.flagged) - Bit(hdrs[i].flagged)
           /\ Cardinality(DeletedOnes(g)) = Cardinality(DeletedOnes(hdrs))
                + Bit(h.deleted) - Bit(hdrs[i].deleted)
           /\ Cardinality(TaggedOnes(g)) = Cardinality(TaggedOnes(hdrs))
                + Bit(h.tagged) - Bit(hdrs[i].tagged)
<1>1. g \in [keys -> Header]
  OBVIOUS
<1>2. /\ h.read \in BOOLEAN /\ h.old \in BOOLEAN /\ h.flagged \in BOOLEAN
      /\ h.deleted \in BOOLEAN /\ h.tagged \in BOOLEAN
  BY DEF Header
<1>3. /\ (i \in NewOnes(hdrs)) = (~hdrs[i].read /\ ~hdrs[i].old)
      /\ (i \in UnreadOnes(hdrs)) = ~hdrs[i].read
  BY DEF Header, NewOnes, UnreadOnes
<1>4. /\ (i \in FlaggedOnes(hdrs)) = hdrs[i].flagged
      /\ (i \in DeletedOnes(hdrs)) = hdrs[i].deleted
      /\ (i \in TaggedOnes(hdrs)) = hdrs[i].tagged
  BY DEF Header, FlaggedOnes, DeletedOnes, TaggedOnes
<1>5. NewOnes(g) = IF ~h.read /\ ~h.old THEN NewOnes(hdrs) \cup {i}
                   ELSE NewOnes(hdrs) \ {i}
  BY DEF NewOnes
<1>6. UnreadOnes(g) = IF ~h.read THEN UnreadOnes(hdrs) \cup {i}
                      ELSE UnreadOnes(hdrs) \ {i}
  BY DEF UnreadOnes
<1>7. FlaggedOnes(g) = IF h.flagged THEN FlaggedOnes(hdrs) \cup {i}
                       ELSE FlaggedOnes(hdrs) \ {i}
  BY DEF FlaggedOnes
<1>8. DeletedOnes(g) = IF h.deleted THEN DeletedOnes(hdrs) \cup {i}
                       ELSE DeletedOnes(hdrs) \ {i}
  BY DEF DeletedOnes
<1>9. TaggedOnes(g) = IF h.tagged THEN TaggedOnes(hdrs) \cup {i}
                      ELSE TaggedOnes(hdrs) \ {i}
  BY DEF TaggedOnes
<1>10. Cardinality(NewOnes(g)) = Cardinality(NewOnes(hdrs))
         + Bit(~h.read /\ ~h.old) - Bit(i \in NewOnes(hdrs))
  BY <1>2, <1>5, OnesFinite, Recount
<1>11. Cardinality(UnreadOnes(g)) = Cardinality(UnreadOnes(hdrs))
         + Bit(~h.read) - Bit(i \in UnreadOnes(hdrs))
  BY <1>2, <1>6, OnesFinite, Recount
<1>12. Cardinality(FlaggedOnes(g)) = Cardinality(FlaggedOnes(hdrs))
         + Bit(h.flagged) - Bit(i \in FlaggedOnes(hdrs))
  BY <1>2, <1>7, OnesFinite, Recount
<1>13. Cardinality(DeletedOnes(g)) = Cardinality(DeletedOnes(hdrs))
         + Bit(h.deleted) - Bit(i \in DeletedOnes(hdrs))
  BY <1>2, <1>8, OnesFinite, Recount
<1>14. Cardinality(TaggedOnes(g)) = Cardinality(TaggedOnes(hdrs))
         + Bit(h.tagged) - Bit(i \in TaggedOnes(hdrs))
  BY <1>2, <1>9, OnesFinite, Recount
<1> QED BY <1>1, <1>3, <1>4, <1>10, <1>11, <1>12, <1>13, <1>14

(* The context left behind when header i becomes h, each counter moves by  *)
(* the difference that makes, and the changed mark becomes m.              *)
After(c, i, h, m) ==
    [ hdrs    |-> [c.hdrs EXCEPT ![i] = h],
      new     |-> c.new + Bit(~h.read /\ ~h.old)
                        - Bit(~c.hdrs[i].read /\ ~c.hdrs[i].old),
      unread  |-> c.unread + Bit(~h.read) - Bit(~c.hdrs[i].read),
      flagged |-> c.flagged + Bit(h.flagged) - Bit(c.hdrs[i].flagged),
      deleted |-> c.deleted + Bit(h.deleted) - Bit(c.hdrs[i].deleted),
      tagged  |-> c.tagged + Bit(h.tagged) - Bit(c.hdrs[i].tagged),
      changed |-> m, readonly |-> c.readonly ]

(* Two contexts with the same fields. *)
Same(d, e) ==
    /\ d.hdrs = e.hdrs /\ d.new = e.new /\ d.unread = e.unread
    /\ d.flagged = e.flagged /\ d.deleted = e.deleted
    /\ d.tagged = e.tagged /\ d.changed = e.changed
    /\ d.readonly = e.readonly

Fields(d) ==
    [ hdrs |-> d.hdrs, new |-> d.new, unread |-> d.unread,
      flagged |-> d.flagged, deleted |-> d.deleted, tagged |-> d.tagged,
      changed |-> d.changed, readonly |-> d.readonly ]

(* Such a context is good again. *)
LEMMA AfterGood ==
    ASSUME NEW keys, IsFiniteSet(keys), NEW c, Good(keys, c),
           NEW i \in keys, NEW h \in Header, NEW m \in {0, 1}
    PROVE  Good(keys, After(c, i, h, m))
<1> DEFINE d == After(c, i, h, m)
<1>1. c \in ContextOver(keys) /\ c.hdrs \in [keys -> Header] /\ Exact(c)
  BY DEF Good, ContextOver
<1>2. [c.hdrs EXCEPT ![i] = h] \in [keys -> Header]
  BY <1>1
<1>3. d \in ContextOver(keys)
  BY <1>1, <1>2 DEF After, ContextOver, Bit
<1>4. Exact(d)
  BY <1>1, Put DEF Exact, After
<1> QED BY <1>3, <1>4 DEF Good

(* It shows that a message is changed if it did before, unless it has just *)
(* been marked itself.                                                     *)
LEMMA AfterNoticed ==
    ASSUME NEW keys, NEW c \in ContextOver(keys), Noticed(c),
           NEW i \in keys, NEW h \in Header, NEW m \in {0, 1},
           m = 1 \/ (h.changed = c.hdrs[i].changed /\ m = c.changed)
    PROVE  Noticed(After(c, i, h, m))
<1>1. c.hdrs \in [keys -> Header]
  BY DEF ContextOver
<1>2. CASE m = 1
  BY <1>2 DEF Noticed, After
<1>3. CASE h.changed = c.hdrs[i].changed /\ m = c.changed
  <2>1. ChangedOnes([c.hdrs EXCEPT ![i] = h]) = ChangedOnes(c.hdrs)
    BY <1>1, <1>3 DEF ChangedOnes
  <2> QED BY <1>3, <2>1 DEF Noticed, After
<1> QED BY <1>2, <1>3

----------------------------------------------------------------------------
(* The flag operations, one by one: each keeps a context good, does not    *)
(* make it writable, and lets no change go unnoticed.                      *)

(* MarkDeleted does all that. *)
LEMMA MarkDeletedGood ==
    ASSUME NEW keys, IsFiniteSet(keys), NEW c, Good(keys, c), NEW i \in keys
    PROVE  /\ Good(keys, MarkDeleted(c, i)) /\ MarkDeleted(c, i).readonly = c.readonly
           /\ Noticed(c) => Noticed(MarkDeleted(c, i))
<1> DEFINE h == c.hdrs[i]
           g == [h EXCEPT !.deleted = TRUE, !.changed = @ \/ Magic = "imap"]
           d == MarkDeleted(c, i)
<1>1. c \in ContextOver(keys) /\ h \in Header /\ g \in Header
  BY DEF Good, ContextOver, Header
<1>2. CASE h.deleted
  BY <1>1, <1>2 DEF MarkDeleted, Header
<1>3. CASE ~h.deleted
  <2>1. d = Fields(d) /\ d.changed \in {0, 1}
    BY <1>1, <1>3 DEF MarkDeleted, Fields, ContextOver
  <2>2. Same(d, After(c, i, g, d.changed))
    BY <1>1, <1>3 DEF MarkDeleted, Same, After, ContextOver, Header, Bit
  <2>3. d.changed = 1 \/ (g.changed = h.changed /\ d.changed = c.changed)
    BY <1>1, <1>3 DEF MarkDeleted, ContextOver, Header
  <2> HIDE DEF g, d
  <2>4. d = After(c, i, g, d.changed)
    BY <2>1, <2>2 DEF Same, Fields, After
  <2>5. Good(keys, d)
    BY <1>1, <2>1, <2>4, AfterGood
  <2>6. Noticed(c) => Noticed(d)
    BY <1>1, <2>1, <2>3, <2>4, AfterNoticed
  <2> QED BY <2>2, <2>5, <2>6 DEF d, Same, After
<1> QED BY <1>2, <1>3

(* Undelete does all that. *)
LEMMA UndeleteGood ==
    ASSUME NEW keys, IsFiniteSet(keys), NEW c, Good(keys, c), NEW i \in keys
    PROVE  /\ Good(keys, Undelete(c, i)) /\ Undelete(c, i).readonly = c.readonly
           /\ Noticed(c) => Noticed(Undelete(c, i))
<1> DEFINE h == c.hdrs[i]
           g == [h EXCEPT !.deleted = FALSE, !.changed = @ \/ Magic = "imap"]
           d == Undelete(c, i)
<1>1. c \in ContextOver(keys) /\ h \in Header /\ g \in Header
  BY DEF Good, ContextOver, Header
<1>2. CASE ~h.deleted
  BY <1>1, <1>2 DEF Undelete, Header
<1>3. CASE h.deleted
  <2>1. d = Fields(d) /\ d.changed \in {0, 1}
    BY <1>1, <1>3 DEF Undelete, Fields, ContextOver
  <2>2. Same(d, After(c, i, g, d.changed))
    BY <1>1, <1>3 DEF Undelete, Same, After, ContextOver, Header, Bit
  <2>3. d.changed = 1 \/ (g.changed = h.changed /\ d.changed = c.changed)
    BY <1>1, <1>3 DEF Undelete, ContextOver, Header
  <2> HIDE DEF g, d
  <2>4. d = After(c, i, g, d.changed)
    BY <2>1, <2>2 DEF Same, Fields, After
  <2>5. Good(keys, d)
    BY <1>1, <2>1, <2>4, AfterGood
  <2>6. Noticed(c) => Noticed(d)
    BY <1>1, <2>1, <2>3, <2>4, AfterNoticed
  <2> QED BY <2>2, <2>5, <2>6 DEF d, Same, After
<1> QED BY <1>2, <1>3

(* MarkNew does all that. *)
LEMMA MarkNewGood ==
    ASSUME NEW keys, IsFiniteSet(keys), NEW c, Good(keys, c), NEW i \in keys
    PROVE  /\ Good(keys, MarkNew(c, i)) /\ MarkNew(c, i).readonly = c.readonly
           /\ Noticed(c) => Noticed(MarkNew(c, i))
<1> DEFINE h == c.hdrs[i]
           g == [h EXCEPT !.old = FALSE, !.read = FALSE, !.changed = TRUE]
           d == MarkNew(c, i)
<1>1. c \in ContextOver(keys) /\ h \in Header /\ g \in Header
  BY DEF Good, ContextOver, Header
<1>2. CASE ~h.read /\ ~h.old
  BY <1>1, <1>2 DEF MarkNew, Header
<1>3. CASE ~(~h.read /\ ~h.old)
  <2>1. d = Fields(d) /\ d.changed \in {0, 1}
    BY <1>1, <1>3 DEF MarkNew, Fields, ContextOver
  <2>2. Same(d, After(c, i, g, d.changed))
    BY <1>1, <1>3 DEF MarkNew, Same, After, ContextOver, Header, Bit
  <2>3. d.changed = 1 \/ (g.changed = h.changed /\ d.changed = c.changed)
    BY <1>1, <1>3 DEF MarkNew, ContextOver, Header
  <2> HIDE DEF g, d
  <2>4. d = After(c, i, g, d.changed)
    BY <2>1, <2>2 DEF Same, Fields, After
  <2>5. Good(keys, d)
    BY <1>1, <2>1, <2>4, AfterGood
  <2>6. Noticed(c) => Noticed(d)
    BY <1>1, <2>1, <2>3, <2>4, AfterNoticed
  <2> QED BY <2>2, <2>5, <2>6 DEF d, Same, After
<1> QED BY <1>2, <1>3

(* MarkRead does all that. *)
LEMMA MarkReadGood ==
    ASSUME NEW keys, IsFiniteSet(keys), NEW c, Good(keys, c), NEW i \in keys
    PROVE  /\ Good(keys, MarkRead(c, i)) /\ MarkRead(c, i).readonly = c.readonly
           /\ Noticed(c) => Noticed(MarkRead(c, i))
<1> DEFINE h == c.hdrs[i]
           g == [h EXCEPT !.read = TRUE, !.changed = TRUE]
           d == MarkRead(c, i)
<1>1. c \in ContextOver(keys) /\ h \in Header /\ g \in Header
  BY DEF Good, ContextOver, Header
<1>2. CASE h.read
  BY <1>1, <1>2 DEF MarkRead, Header
<1>3. CASE ~h.read
  <2>1. d = Fields(d) /\ d.changed \in {0, 1}
    BY <1>1, <1>3 DEF MarkRead, Fields, ContextOver
  <2>2. Same(d, After(c, i, g, d.changed))
    BY <1>1, <1>3 DEF MarkRead, Same, After, ContextOver, Header, Bit
  <2>3. d.changed = 1 \/ (g.changed = h.changed /\ d.changed = c.changed)
    BY <1>1, <1>3 DEF MarkRead, ContextOver, Header
  <2> HIDE DEF g, d
  <2>4. d = After(c, i, g, d.changed)
    BY <2>1, <2>2 DEF Same, Fields, After
  <2>5. Good(keys, d)
    BY <1>1, <2>1, <2>4, AfterGood
  <2>6. Noticed(c) => Noticed(d)
    BY <1>1, <2>1, <2>3, <2>4, AfterNoticed
  <2> QED BY <2>2, <2>5, <2>6 DEF d, Same, After
<1> QED BY <1>2, <1>3

(* MarkUnread does all that. *)
LEMMA MarkUnreadGood ==
    ASSUME NEW keys, IsFiniteSet(keys), NEW c, Good(keys, c), NEW i \in keys
    PROVE  /\ Good(keys, MarkUnread(c, i)) /\ MarkUnread(c, i).readonly = c.readonly
           /\ Noticed(c) => Noticed(MarkUnread(c, i))
<1> DEFINE h == c.hdrs[i]
           g == [h EXCEPT !.read = FALSE, !.changed = TRUE]
           d == MarkUnread(c, i)
<1>1. c \in ContextOver(keys) /\ h \in Header /\ g \in Header
  BY DEF Good, ContextOver, Header
<1>2. CASE ~h.read
  BY <1>1, <1>2 DEF MarkUnread, Header
<1>3. CASE h.read
  <2>1. d = Fields(d) /\ d.changed \in {0, 1}
    BY <1>1, <1>3 DEF MarkUnread, Fields, ContextOver
  <2>2. Same(d, After(c, i, g, d.changed))
    BY <1>1, <1>3 DEF MarkUnread, Same, After, ContextOver, Header, Bit
  <2>3. d.changed = 1 \/ (g.changed = h.changed /\ d.changed = c.changed)
    BY <1>1, <1>3 DEF MarkUnread, ContextOver, Header
  <2> HIDE DEF g, d
  <2>4. d = After(c, i, g, d.changed)
    BY <2>1, <2>2 DEF Same, Fields, After
  <2>5. Good(keys, d)
    BY <1>1, <2>1, <2>4, AfterGood
  <2>6. Noticed(c) => Noticed(d)
    BY <1>1, <2>1, <2>3, <2>4, AfterNoticed
  <2> QED BY <2>2, <2>5, <2>6 DEF d, Same, After
<1> QED BY <1>2, <1>3

(* MarkOld does all that. *)
LEMMA MarkOldGood ==
    ASSUME NEW keys, IsFiniteSet(keys), NEW c, Good(keys, c), NEW i \in keys
    PROVE  /\ Good(keys, MarkOld(c, i)) /\ MarkOld(c, i).readonly = c.readonly
           /\ Noticed(c) => Noticed(MarkOld(c, i))
<1> DEFINE h == c.hdrs[i]
           g == [h EXCEPT !.old = TRUE, !.changed = TRUE]
           d == MarkOld(c, i)
<1>1. c \in ContextOver(keys) /\ h \in Header /\ g \in Header
  BY DEF Good, ContextOver, Header
<1>2. CASE h.old
  BY <1>1, <1>2 DEF MarkOld, Header
<1>3. CASE ~h.old
  <2>1. d = Fields(d) /\ d.changed \in {0, 1}
    BY <1>1, <1>3 DEF MarkOld, Fields, ContextOver
  <2>2. Same(d, After(c, i, g, d.changed))
    BY <1>1, <1>3 DEF MarkOld, Same, After, ContextOver, Header, Bit
  <2>3. d.changed = 1 \/ (g.changed = h.changed /\ d.changed = c.changed)
    BY <1>1, <1>3 DEF MarkOld, ContextOver, Header
  <2> HIDE DEF g, d
  <2>4. d = After(c, i, g, d.changed)
    BY <2>1, <2>2 DEF Same, Fields, After
  <2>5. Good(keys, d)
    BY <1>1, <2>1, <2>4, AfterGood
  <2>6. Noticed(c) => Noticed(d)
    BY <1>1, <2>1, <2>3, <2>4, AfterNoticed
  <2> QED BY <2>2, <2>5, <2>6 DEF d, Same, After
<1> QED BY <1>2, <1>3

(* UnmarkOld does all that. *)
LEMMA UnmarkOldGood ==
    ASSUME NEW keys, IsFiniteSet(keys), NEW c, Good(keys, c), NEW i \in keys
    PROVE  /\ Good(keys, UnmarkOld(c, i)) /\ UnmarkOld(c, i).readonly = c.readonly
           /\ Noticed(c) => Noticed(UnmarkOld(c, i))
<1> DEFINE h == c.hdrs[i]
           g == [h EXCEPT !.old = FALSE, !.changed = TRUE]
           d == UnmarkOld(c, i)
<1>1. c \in ContextOver(keys) /\ h \in Header /\ g \in Header
  BY DEF Good, ContextOver, Header
<1>2. CASE ~h.old
  BY <1>1, <1>2 DEF UnmarkOld, Header
<1>3. CASE h.old
  <2>1. d = Fields(d) /\ d.changed \in {0, 1}
    BY <1>1, <1>3 DEF UnmarkOld, Fields, ContextOver
  <2>2. Same(d, After(c, i, g, d.changed))
    BY <1>1, <1>3 DEF UnmarkOld, Same, After, ContextOver, Header, Bit
  <2>3. d.changed = 1 \/ (g.changed = h.changed /\ d.changed = c.changed)
    BY <1>1, <1>3 DEF UnmarkOld, ContextOver, Header
  <2> HIDE DEF g, d
  <2>4. d = After(c, i, g, d.changed)
    BY <2>1, <2>2 DEF Same, Fields, After
  <2>5. Good(keys, d)
    BY <1>1, <2>1, <2>4, AfterGood
  <2>6. Noticed(c) => Noticed(d)
    BY <1>1, <2>1, <2>3, <2>4, AfterNoticed
  <2> QED BY <2>2, <2>5, <2>6 DEF d, Same, After
<1> QED BY <1>2, <1>3

(* MarkReplied does all that. *)
LEMMA MarkRepliedGood ==
    ASSUME NEW keys, IsFiniteSet(keys), NEW c, Good(keys, c), NEW i \in keys
    PROVE  /\ Good(keys, MarkReplied(c, i)) /\ MarkReplied(c, i).readonly = c.readonly
           /\ Noticed(c) => Noticed(MarkReplied(c, i))
<1> DEFINE h == c.hdrs[i]
           g == [h EXCEPT !.replied = TRUE, !.read = TRUE, !.changed = TRUE]
           d == MarkReplied(c, i)
<1>1. c \in ContextOver(keys) /\ h \in Header /\ g \in Header
  BY DEF Good, ContextOver, Header
<1>2. CASE h.replied
  BY <1>1, <1>2 DEF MarkReplied, Header
<1>3. CASE ~h.replied
  <2>1. d = Fields(d) /\ d.changed \in {0, 1}
    BY <1>1, <1>3 DEF MarkReplied, Fields, ContextOver
  <2>2. Same(d, After(c, i, g, d.changed))
    BY <1>1, <1>3 DEF MarkReplied, Same, After, ContextOver, Header, Bit
  <2>3. d.changed = 1 \/ (g.changed = h.changed /\ d.changed = c.changed)
    BY <1>1, <1>3 DEF MarkReplied, ContextOver, Header
  <2> HIDE DEF g, d
  <2>4. d = After(c, i, g, d.changed)
    BY <2>1, <2>2 DEF Same, Fields, After
  <2>5. Good(keys, d)
    BY <1>1, <2>1, <2>4, AfterGood
  <2>6. Noticed(c) => Noticed(d)
    BY <1>1, <2>1, <2>3, <2>4, AfterNoticed
  <2> QED BY <2>2, <2>5, <2>6 DEF d, Same, After
<1> QED BY <1>2, <1>3

(* UnmarkReplied does all that. *)
LEMMA UnmarkRepliedGood ==
    ASSUME NEW keys, IsFiniteSet(keys), NEW c, Good(keys, c), NEW i \in keys
    PROVE  /\ Good(keys, UnmarkReplied(c, i)) /\ UnmarkReplied(c, i).readonly = c.readonly
           /\ Noticed(c) => Noticed(UnmarkReplied(c, i))
<1> DEFINE h == c.hdrs[i]
           g == [h EXCEPT !.replied = FALSE, !.changed = TRUE]
           d == UnmarkReplied(c, i)
<1>1. c \in ContextOver(keys) /\ h \in Header /\ g \in Header
  BY DEF Good, ContextOver, Header
<1>2. CASE ~h.replied
  BY <1>1, <1>2 DEF UnmarkReplied, Header
<1>3. CASE h.replied
  <2>1. d = Fields(d) /\ d.changed \in {0, 1}
    BY <1>1, <1>3 DEF UnmarkReplied, Fields, ContextOver
  <2>2. Same(d, After(c, i, g, d.changed))
    BY <1>1, <1>3 DEF UnmarkReplied, Same, After, ContextOver, Header, Bit
  <2>3. d.changed = 1 \/ (g.changed = h.changed /\ d.changed = c.changed)
    BY <1>1, <1>3 DEF UnmarkReplied, ContextOver, Header
  <2> HIDE DEF g, d
  <2>4. d = After(c, i, g, d.changed)
    BY <2>1, <2>2 DEF Same, Fields, After
  <2>5. Good(keys, d)
    BY <1>1, <2>1, <2>4, AfterGood
  <2>6. Noticed(c) => Noticed(d)
    BY <1>1, <2>1, <2>3, <2>4, AfterNoticed
  <2> QED BY <2>2, <2>5, <2>6 DEF d, Same, After
<1> QED BY <1>2, <1>3

(* MarkFlagged does all that. *)
LEMMA MarkFlaggedGood ==
    ASSUME NEW keys, IsFiniteSet(keys), NEW c, Good(keys, c), NEW i \in keys
    PROVE  /\ Good(keys, MarkFlagged(c, i)) /\ MarkFlagged(c, i).readonly = c.readonly
           /\ Noticed(c) => Noticed(MarkFlagged(c, i))
<1> DEFINE h == c.hdrs[i]
           g == [h EXCEPT !.flagged = TRUE, !.changed = TRUE]
           d == MarkFlagged(c, i)
<1>1. c \in ContextOver(keys) /\ h \in Header /\ g \in Header
  BY DEF Good, ContextOver, Header
<1>2. CASE h.flagged
  BY <1>1, <1>2 DEF MarkFlagged, Header
<1>3. CASE ~h.flagged
  <2>1. d = Fields(d) /\ d.changed \in {0, 1}
    BY <1>1, <1>3 DEF MarkFlagged, Fields, ContextOver
  <2>2. Same(d, After(c, i, g, d.changed))
    BY <1>1, <1>3 DEF MarkFlagged, Same, After, ContextOver, Header, Bit
  <2>3. d.changed = 1 \/ (g.changed = h.changed /\ d.changed = c.changed)
    BY <1>1, <1>3 DEF MarkFlagged, ContextOver, Header
  <2> HIDE DEF g, d
  <2>4. d = After(c, i, g, d.changed)
    BY <2>1, <2>2 DEF Same, Fields, After
  <2>5. Good(keys, d)
    BY <1>1, <2>1, <2>4, AfterGood
  <2>6. Noticed(c) => Noticed(d)
    BY <1>1, <2>1, <2>3, <2>4, AfterNoticed
  <2> QED BY <2>2, <2>5, <2>6 DEF d, Same, After
<1> QED BY <1>2, <1>3

(* UnmarkFlagged does all that. *)
LEMMA UnmarkFlaggedGood ==
    ASSUME NEW keys, IsFiniteSet(keys), NEW c, Good(keys, c), NEW i \in keys
    PROVE  /\ Good(keys, UnmarkFlagged(c, i)) /\ UnmarkFlagged(c, i).readonly = c.readonly
           /\ Noticed(c) => Noticed(UnmarkFlagged(c, i))
<1> DEFINE h == c.hdrs[i]
           g == [h EXCEPT !.flagged = FALSE, !.changed = TRUE]
           d == UnmarkFlagged(c, i)
<1>1. c \in ContextOver(keys) /\ h \in Header /\ g \in Header
  BY DEF Good, ContextOver, Header
<1>2. CASE ~h.flagged
  BY <1>1, <1>2 DEF UnmarkFlagged, Header
<1>3. CASE h.flagged
  <2>1. d = Fields(d) /\ d.changed \in {0, 1}
    BY <1>1, <1>3 DEF UnmarkFlagged, Fields, ContextOver
  <2>2. Same(d, After(c, i, g, d.changed))
    BY <1>1, <1>3 DEF UnmarkFlagged, Same, After, ContextOver, Header, Bit
  <2>3. d.changed = 1 \/ (g.changed = h.changed /\ d.changed = c.changed)
    BY <1>1, <1>3 DEF UnmarkFlagged, ContextOver, Header
  <2> HIDE DEF g, d
  <2>4. d = After(c, i, g, d.changed)
    BY <2>1, <2>2 DEF Same, Fields, After
  <2>5. Good(keys, d)
    BY <1>1, <2>1, <2>4, AfterGood
  <2>6. Noticed(c) => Noticed(d)
    BY <1>1, <2>1, <2>3, <2>4, AfterNoticed
  <2> QED BY <2>2, <2>5, <2>6 DEF d, Same, After
<1> QED BY <1>2, <1>3

(* MarkTagged does all that. *)
LEMMA MarkTaggedGood ==
    ASSUME NEW keys, IsFiniteSet(keys), NEW c, Good(keys, c), NEW i \in keys
    PROVE  /\ Good(keys, MarkTagged(c, i)) /\ MarkTagged(c, i).readonly = c.readonly
           /\ Noticed(c) => Noticed(MarkTagged(c, i))
<1> DEFINE h == c.hdrs[i]
           g == [h EXCEPT !.tagged = TRUE]
           d == MarkTagged(c, i)
<1>1. c \in ContextOver(keys) /\ h \in Header /\ g \in Header
  BY DEF Good, ContextOver, Header
<1>2. CASE h.tagged
  BY <1>1, <1>2 DEF MarkTagged, Header
<1>3. CASE ~h.tagged
  <2>1. d = Fields(d) /\ d.changed \in {0, 1}
    BY <1>1, <1>3 DEF MarkTagged, Fields, ContextOver
  <2>2. Same(d, After(c, i, g, d.changed))
    BY <1>1, <1>3 DEF MarkTagged, Same, After, ContextOver, Header, Bit
  <2>3. d.changed = 1 \/ (g.changed = h.changed /\ d.changed = c.changed)
    BY <1>1, <1>3 DEF MarkTagged, ContextOver, Header
  <2> HIDE DEF g, d
  <2>4. d = After(c, i, g, d.changed)
    BY <2>1, <2>2 DEF Same, Fields, After
  <2>5. Good(keys, d)
    BY <1>1, <2>1, <2>4, AfterGood
  <2>6. Noticed(c) => Noticed(d)
    BY <1>1, <2>1, <2>3, <2>4, AfterNoticed
  <2> QED BY <2>2, <2>5, <2>6 DEF d, Same, After
<1> QED BY <1>2, <1>3

(* UnmarkTagged does all that. *)
LEMMA UnmarkTaggedGood ==
    ASSUME NEW keys, IsFiniteSet(keys), NEW c, Good(keys, c), NEW i \in keys
    PROVE  /\ Good(keys, UnmarkTagged(c, i)) /\ UnmarkTagged(c, i).readonly = c.readonly
           /\ Noticed(c) => Noticed(UnmarkTagged(c, i))
<1> DEFINE h == c.hdrs[i]
           g == [h EXCEPT !.tagged = FALSE]
           d == UnmarkTagged(c, i)
<1>1. c \in ContextOver(keys) /\ h \in Header /\ g \in Header
  BY DEF Good, ContextOver, Header
<1>2. CASE ~h.tagged
  BY <1>1, <1>2 DEF UnmarkTagged, Header
<1>3. CASE h.tagged
  <2>1. d = Fields(d) /\ d.changed \in {0, 1}
    BY <1>1, <1>3 DEF UnmarkTagged, Fields, ContextOver
  <2>2. Same(d, After(c, i, g, d.changed))
    BY <1>1, <1>3 DEF UnmarkTagged, Same, After, ContextOver, Header, Bit
  <2>3. d.changed = 1 \/ (g.changed = h.changed /\ d.changed = c.changed)
    BY <1>1, <1>3 DEF UnmarkTagged, ContextOver, Header
  <2> HIDE DEF g, d
  <2>4. d = After(c, i, g, d.changed)
    BY <2>1, <2>2 DEF Same, Fields, After
  <2>5. Good(keys, d)
    BY <1>1, <2>1, <2>4, AfterGood
  <2>6. Noticed(c) => Noticed(d)
    BY <1>1, <2>1, <2>3, <2>4, AfterNoticed
  <2> QED BY <2>2, <2>5, <2>6 DEF d, Same, After
<1> QED BY <1>2, <1>3

(* So does setting any flag, *)
LEMMA SetFlagGood ==
    ASSUME NEW keys, IsFiniteSet(keys), NEW c, Good(keys, c), NEW i \in keys,
           NEW flag \in Flags
    PROVE  /\ Good(keys, SetFlag(c, i, flag))
           /\ SetFlag(c, i, flag).readonly = c.readonly
           /\ Noticed(c) => Noticed(SetFlag(c, i, flag))
<1>1. CASE c.readonly /\ flag # "M_TAG"
  BY <1>1 DEF SetFlag
<1>2. CASE ~(c.readonly /\ flag # "M_TAG")
  <2>1. CASE flag = "M_DELETE"
    <3>1. SetFlag(c, i, flag) = MarkDeleted(c, i)
      BY <1>2, <2>1 DEF SetFlag
    <3> QED BY <3>1, MarkDeletedGood
  <2>2. CASE flag = "M_NEW"
    <3>1. SetFlag(c, i, flag) = MarkNew(c, i)
      BY <1>2, <2>2 DEF SetFlag
    <3> QED BY <3>1, MarkNewGood
  <2>3. CASE flag = "M_OLD"
    <3>1. SetFlag(c, i, flag) = MarkOld(c, i)
      BY <1>2, <2>3 DEF SetFlag
    <3> QED BY <3>1, MarkOldGood
  <2>4. CASE flag = "M_READ"
    <3>1. SetFlag(c, i, flag) = MarkRead(c, i)
      BY <1>2, <2>4 DEF SetFlag
    <3> QED BY <3>1, MarkReadGood
  <2>5. CASE flag = "M_REPLIED"
    <3>1. SetFlag(c, i, flag) = MarkReplied(c, i)
      BY <1>2, <2>5 DEF SetFlag
    <3> QED BY <3>1, MarkRepliedGood
  <2>6. CASE flag = "M_FLAG"
    <3>1. SetFlag(c, i, flag) = MarkFlagged(c, i)
      BY <1>2, <2>6 DEF SetFlag
    <3> QED BY <3>1, MarkFlaggedGood
  <2>7. CASE flag = "M_TAG"
    <3>1. SetFlag(c, i, flag) = MarkTagged(c, i)
      BY <1>2, <2>7 DEF SetFlag
    <3> QED BY <3>1, MarkTaggedGood
  <2> QED BY <2>1, <2>2, <2>3, <2>4, <2>5, <2>6, <2>7 DEF Flags
<1> QED BY <1>1, <1>2

(* and resetting it. *)
LEMMA ResetFlagGood ==
    ASSUME NEW keys, IsFiniteSet(keys), NEW c, Good(keys, c), NEW i \in keys,
           NEW flag \in Flags
    PROVE  /\ Good(keys, ResetFlag(c, i, flag))
           /\ ResetFlag(c, i, flag).readonly = c.readonly
           /\ Noticed(c) => Noticed(ResetFlag(c, i, flag))
<1>1. CASE c.readonly /\ flag # "M_TAG"
  BY <1>1 DEF ResetFlag
<1>2. CASE ~(c.readonly /\ flag # "M_TAG")
  <2>1. CASE flag = "M_DELETE"
    <3>1. ResetFlag(c, i, flag) = Undelete(c, i)
      BY <1>2, <2>1 DEF ResetFlag
    <3> QED BY <3>1, UndeleteGood
  <2>2. CASE flag = "M_NEW"
    <3>1. ResetFlag(c, i, flag) = MarkRead(c, i)
      BY <1>2, <2>2 DEF ResetFlag
    <3> QED BY <3>1, MarkReadGood
  <2>3. CASE flag = "M_OLD"
    <3>1. ResetFlag(c, i, flag) = UnmarkOld(c, i)
      BY <1>2, <2>3 DEF ResetFlag
    <3> QED BY <3>1, UnmarkOldGood
  <2>4. CASE flag = "M_READ"
    <3>1. ResetFlag(c, i, flag) = MarkUnread(c, i)
      BY <1>2, <2>4 DEF ResetFlag
    <3> QED BY <3>1, MarkUnreadGood
  <2>5. CASE flag = "M_REPLIED"
    <3>1. ResetFlag(c, i, flag) = UnmarkReplied(c, i)
      BY <1>2, <2>5 DEF ResetFlag
    <3> QED BY <3>1, UnmarkRepliedGood
  <2>6. CASE flag = "M_FLAG"
    <3>1. ResetFlag(c, i, flag) = UnmarkFlagged(c, i)
      BY <1>2, <2>6 DEF ResetFlag
    <3> QED BY <3>1, UnmarkFlaggedGood
  <2>7. CASE flag = "M_TAG"
    <3>1. ResetFlag(c, i, flag) = UnmarkTagged(c, i)
      BY <1>2, <2>7 DEF ResetFlag
    <3> QED BY <3>1, UnmarkTaggedGood
  <2> QED BY <2>1, <2>2, <2>3, <2>4, <2>5, <2>6, <2>7 DEF Flags
<1> QED BY <1>1, <1>2

(* ... whichever way the server's report says. *)
LEMMA AssignGood ==
    ASSUME NEW keys, IsFiniteSet(keys), NEW c, Good(keys, c), NEW i \in keys,
           NEW flag \in Flags, NEW b \in BOOLEAN
    PROVE  Good(keys, Assign(c, i, flag, b))
BY SetFlagGood, ResetFlagGood DEF Assign

(* Importing the flags an IMAP server reports keeps the counters exact.    *)
LEMMA ImapSetFlagsGood ==
    ASSUME NEW keys, IsFiniteSet(keys), NEW c, Good(keys, c), NEW i \in keys,
           NEW f \in ServerFlags
    PROVE  Good(keys, ImapSetFlags(c, i, f))
<1> DEFINE w  == [c EXCEPT !.readonly = FALSE]
           c1 == Assign(w,  i, "M_NEW", ~(f.read \/ f.old))
           c2 == Assign(c1, i, "M_OLD", f.old)
           c3 == Assign(c2, i, "M_READ", f.read)
           c4 == Assign(c3, i, "M_DELETE", f.deleted)
           c5 == Assign(c4, i, "M_FLAG", f.flagged)
           d  == Assign(c5, i, "M_REPLIED", f.replied)
           h  == [d.hdrs[i] EXCEPT !.changed = FALSE]
           e  == ImapSetFlags(c, i, f)
<1>1. c \in ContextOver(keys) /\ Exact(c)
  BY DEF Good
<1>2. w \in ContextOver(keys) /\ Exact(w)
  BY <1>1 DEF ContextOver, Exact
<1>3. /\ f.read \in BOOLEAN /\ f.old \in BOOLEAN /\ f.replied \in BOOLEAN
      /\ f.flagged \in BOOLEAN /\ f.deleted \in BOOLEAN
      /\ (~(f.read \/ f.old)) \in BOOLEAN
  BY DEF ServerFlags
<1>4. /\ "M_NEW" \in Flags /\ "M_OLD" \in Flags /\ "M_READ" \in Flags
      /\ "M_DELETE" \in Flags /\ "M_FLAG" \in Flags /\ "M_REPLIED" \in Flags
  BY DEF Flags
<1>5. e = [d EXCEPT !.hdrs[i] = h,
                    !.changed = IF c.readonly THEN 0 ELSE d.changed,
                    !.readonly = c.readonly]
  BY DEF ImapSetFlags, Import
<1> HIDE DEF w, c1, c2, c3, c4, c5, d, h, e
<1>6. Good(keys, w)
  BY <1>2 DEF Good
<1>7. Good(keys, c1)
  BY <1>3, <1>4, <1>6, AssignGood DEF c1
<1>8. Good(keys, c2)
  BY <1>3, <1>4, <1>7, AssignGood DEF c2
<1>9. Good(keys, c3)
  BY <1>3, <1>4, <1>8, AssignGood DEF c3
<1>10. Good(keys, c4)
  BY <1>3, <1>4, <1>9, AssignGood DEF c4
<1>11. Good(keys, c5)
  BY <1>3, <1>4, <1>10, AssignGood DEF c5
<1>12. Good(keys, d)
  BY <1>3, <1>4, <1>11, AssignGood DEF d
<1>13. d \in ContextOver(keys) /\ d.hdrs \in [keys -> Header] /\ Exact(d)
  BY <1>12 DEF Good, ContextOver
<1>14. /\ h \in Header
       /\ h.read = d.hdrs[i].read /\ h.old = d.hdrs[i].old
       /\ h.flagged = d.hdrs[i].flagged /\ h.deleted = d.hdrs[i].deleted
       /\ h.tagged = d.hdrs[i].tagged
  BY <1>13 DEF h, Header
<1>15. [d.hdrs EXCEPT ![i] = h] \in [keys -> Header]
  BY <1>13, <1>14
<1>16. e \in ContextOver(keys)
  BY <1>1, <1>5, <1>13, <1>15 DEF ContextOver
<1>17. /\ e.hdrs = [d.hdrs EXCEPT ![i] = h]
       /\ e.new = d.new /\ e.unread = d.unread /\ e.flagged = d.flagged
       /\ e.deleted = d.deleted /\ e.tagged = d.tagged
  BY <1>5, <1>13 DEF ContextOver
<1>18. /\ NewOnes(e.hdrs) = NewOnes(d.hdrs)
       /\ UnreadOnes(e.hdrs) = UnreadOnes(d.hdrs)
       /\ FlaggedOnes(e.hdrs) = FlaggedOnes(d.hdrs)
       /\ DeletedOnes(e.hdrs) = DeletedOnes(d.hdrs)
       /\ TaggedOnes(e.hdrs) = TaggedOnes(d.hdrs)
  BY <1>13, <1>14, <1>17
     DEF NewOnes, UnreadOnes, FlaggedOnes, DeletedOnes, TaggedOnes
<1>19. Exact(e)
  BY <1>13, <1>17, <1>18 DEF Exact
<1> QED BY <1>16, <1>19 DEF Good, e

(* A record is a context when its fields are right. *)
LEMMA ContextFields ==
    ASSUME NEW keys, NEW d, d = Fields(d), d.hdrs \in [keys -> Header],
           d.new \in Int, d.unread \in Int, d.flagged \in Int,
           d.deleted \in Int, d.tagged \in Int, d.changed \in {0, 1},
           d.readonly \in BOOLEAN
    PROVE  d \in ContextOver(keys)
BY DEF ContextOver, Fields

(* A new message is counted once, where it belongs, and a changed one is   *)
(* noticed.                                                                *)
LEMMA AddHeaderGood ==
    ASSUME NEW keys, IsFiniteSet(keys), NEW c, Good(keys, c), NEW i,
           i \notin keys, NEW h \in Header, ~h.tagged
    PROVE  /\ Good(keys \cup {i}, AddHeader(c, i, h))
           /\ AddHeader(c, i, h).readonly = c.readonly
           /\ Noticed(c) => Noticed(AddHeader(c, i, h))
<1> DEFINE g == [j \in keys \cup {i} |-> IF j = i THEN h ELSE c.hdrs[j]]
           d == AddHeader(c, i, h)
<1>1. /\ c \in ContextOver(keys) /\ Exact(c)
      /\ c.hdrs \in [keys -> Header] /\ DOMAIN c.hdrs = keys
      /\ c.new \in Int /\ c.unread \in Int /\ c.flagged \in Int
      /\ c.deleted \in Int /\ c.tagged \in Int /\ c.changed \in {0, 1}
      /\ c.readonly \in BOOLEAN
  BY DEF Good, ContextOver
<1>2. /\ h.read \in BOOLEAN /\ h.old \in BOOLEAN /\ h.flagged \in BOOLEAN
      /\ h.deleted \in BOOLEAN /\ h.changed \in BOOLEAN
  BY DEF Header
<1>3. g \in [keys \cup {i} -> Header]
  BY <1>1
<1>4. /\ d.hdrs = g /\ d.readonly = c.readonly /\ d.tagged = c.tagged
      /\ d.flagged = c.flagged + Bit(h.flagged)
      /\ d.deleted = c.deleted + Bit(h.deleted)
      /\ d.unread = c.unread + Bit(~h.read)
      /\ d.new = c.new + Bit(~h.read /\ ~h.old)
      /\ d.changed = IF h.changed THEN 1 ELSE c.changed
  BY <1>1 DEF AddHeader, ContextOver
<1>5. d = [c EXCEPT !.hdrs = g, !.changed = IF h.changed THEN 1 ELSE @,
                    !.flagged = @ + Bit(h.flagged),
                    !.deleted = @ + Bit(h.deleted),
                    !.unread = @ + Bit(~h.read),
                    !.new = @ + Bit(~h.read /\ ~h.old)]
  BY <1>1 DEF AddHeader
<1>6. /\ i \notin NewOnes(c.hdrs) /\ i \notin UnreadOnes(c.hdrs)
      /\ i \notin FlaggedOnes(c.hdrs) /\ i \notin DeletedOnes(c.hdrs)
  BY <1>1 DEF NewOnes, UnreadOnes, FlaggedOnes, DeletedOnes
<1>7. NewOnes(g) = IF ~h.read /\ ~h.old THEN NewOnes(c.hdrs) \cup {i}
                   ELSE NewOnes(c.hdrs) \ {i}
  BY <1>1 DEF NewOnes
<1>8. UnreadOnes(g) = IF ~h.read THEN UnreadOnes(c.hdrs) \cup {i}
                      ELSE UnreadOnes(c.hdrs) \ {i}
  BY <1>1 DEF UnreadOnes
<1>9. FlaggedOnes(g) = IF h.flagged THEN FlaggedOnes(c.hdrs) \cup {i}
                       ELSE FlaggedOnes(c.hdrs) \ {i}
  BY <1>1 DEF FlaggedOnes
<1>10. DeletedOnes(g) = IF h.deleted THEN DeletedOnes(c.hdrs) \cup {i}
                        ELSE DeletedOnes(c.hdrs) \ {i}
  BY <1>1 DEF DeletedOnes
<1>11. TaggedOnes(g) = TaggedOnes(c.hdrs)
  BY <1>1 DEF TaggedOnes
<1>12. ChangedOnes(g) = IF h.changed THEN ChangedOnes(c.hdrs) \cup {i}
                        ELSE ChangedOnes(c.hdrs)
  BY <1>1 DEF ChangedOnes
<1> HIDE DEF g, d
<1>13. /\ Bit(h.flagged) \in Int /\ Bit(h.deleted) \in Int
       /\ Bit(~h.read) \in Int /\ Bit(~h.read /\ ~h.old) \in Int
  BY DEF Bit
<1>14. Cardinality(NewOnes(g)) = Cardinality(NewOnes(c.hdrs))
         + Bit(~h.read /\ ~h.old) - Bit(i \in NewOnes(c.hdrs))
  BY <1>1, <1>2, <1>7, OnesFinite, Recount
<1>15. Cardinality(UnreadOnes(g)) = Cardinality(UnreadOnes(c.hdrs))
         + Bit(~h.read) - Bit(i \in UnreadOnes(c.hdrs))
  BY <1>1, <1>2, <1>8, OnesFinite, Recount
<1>16. Cardinality(FlaggedOnes(g)) = Cardinality(FlaggedOnes(c.hdrs))
         + Bit(h.flagged) - Bit(i \in FlaggedOnes(c.hdrs))
  BY <1>1, <1>2, <1>9, OnesFinite, Recount
<1>17. Cardinality(DeletedOnes(g)) = Cardinality(DeletedOnes(c.hdrs))
         + Bit(h.deleted) - Bit(i \in DeletedOnes(c.hdrs))
  BY <1>1, <1>2, <1>10, OnesFinite, Recount
<1>18. Exact(d)
  BY <1>1, <1>4, <1>6, <1>11, <1>13, <1>14, <1>15, <1>16, <1>17 DEF Exact, Bit
<1>19. d \in ContextOver(keys \cup {i})
  <2>1. /\ d.new \in Int /\ d.unread \in Int /\ d.flagged \in Int
        /\ d.deleted \in Int /\ d.tagged \in Int /\ d.changed \in {0, 1}
        /\ d.readonly \in BOOLEAN /\ d.hdrs \in [keys \cup {i} -> Header]
    BY <1>1, <1>3, <1>4, <1>13
  <2>2. d = Fields(d)
    BY <1>1, <1>5 DEF Fields, ContextOver
  <2> QED BY <2>1, <2>2, ContextFields
<1>20. Noticed(c) => Noticed(d)
  BY <1>4, <1>12 DEF Noticed
<1> QED BY <1>4, <1>18, <1>19, <1>20 DEF Good, d

(* Dropping the inactive headers counts the others anew. *)
LEMMA DropInactiveGood ==
    ASSUME NEW keys, IsFiniteSet(keys), NEW c, Good(keys, c), NEW active
    PROVE  Good(keys \cap active, DropInactive(c, active))
<1> DEFINE g == [j \in keys \cap active |-> c.hdrs[j]]
           d == DropInactive(c, active)
<1>1. /\ c.hdrs \in [keys -> Header] /\ DOMAIN c.hdrs = keys
      /\ c.readonly \in BOOLEAN
  BY DEF Good, ContextOver
<1>2. g \in [keys \cap active -> Header] /\ IsFiniteSet(keys \cap active)
  BY <1>1, FS_Subset
<1>3. /\ d.hdrs = g /\ d.readonly = c.readonly
      /\ d.new = Cardinality(NewOnes(g)) /\ d.unread = Cardinality(UnreadOnes(g))
      /\ d.flagged = Cardinality(FlaggedOnes(g))
      /\ d.deleted = Cardinality(DeletedOnes(g))
      /\ d.tagged = Cardinality(TaggedOnes(g))
      /\ d.changed = Cardinality(ChangedOnes(g)) % 2
  BY <1>1 DEF DropInactive, Good, ContextOver
<1>4. d = [c EXCEPT !.hdrs = g, !.new = Cardinality(NewOnes(g)),
                    !.unread  = Cardinality(UnreadOnes(g)),
                    !.flagged = Cardinality(FlaggedOnes(g)),
                    !.deleted = Cardinality(DeletedOnes(g)),
                    !.tagged  = Cardinality(TaggedOnes(g)),
                    !.changed = Cardinality(ChangedOnes(g)) % 2]
  BY <1>1 DEF DropInactive
<1> HIDE DEF g, d
<1>5. /\ d.new \in Int /\ d.unread \in Int /\ d.flagged \in Int
      /\ d.deleted \in Int /\ d.tagged \in Int
      /\ Cardinality(ChangedOnes(g)) \in Nat
  BY <1>2, <1>3, OnesFinite
<1>6. d.changed \in {0, 1}
  BY <1>3, <1>5
<1>7. d \in ContextOver(keys \cap active)
  <2>1. d = Fields(d)
    BY <1>4 DEF Fields, Good, ContextOver
  <2>2. d.hdrs \in [keys \cap active -> Header] /\ d.readonly \in BOOLEAN
    BY <1>1, <1>2, <1>3
  <2> QED BY <1>5, <1>6, <2>1, <2>2, ContextFields
<1> QED BY <1>3, <1>7 DEF Good, Exact, d

(* So does committing, which leaves no deleted header to count. *)
LEMMA CommitGood ==
    ASSUME NEW keys, IsFiniteSet(keys), NEW c, Good(keys, c)
    PROVE  /\ Good(keys \ DeletedOnes(c.hdrs), Commit(c)) /\ Noticed(Commit(c))
           /\ Commit(c).readonly = c.readonly
<1> DEFINE rest == keys \ DeletedOnes(c.hdrs)
           g == [j \in rest |-> [c.hdrs[j] EXCEPT !.changed = FALSE]]
           d == Commit(c)
<1>1. /\ c.hdrs \in [keys -> Header] /\ DOMAIN c.hdrs = keys
      /\ c.readonly \in BOOLEAN
  BY DEF Good, ContextOver
<1>2. IsFiniteSet(rest) /\ rest \subseteq keys
  BY FS_Subset
<1>3. \A h \in Header : /\ [h EXCEPT !.changed = FALSE] \in Header
                        /\ [h EXCEPT !.changed = FALSE].deleted = h.deleted
                        /\ [h EXCEPT !.changed = FALSE].changed = FALSE
  BY DEF Header
<1>4. g \in [rest -> Header]
  BY <1>1, <1>2, <1>3
<1>5. DeletedOnes(g) = {} /\ ChangedOnes(g) = {}
  BY <1>1, <1>3 DEF DeletedOnes, ChangedOnes
<1>6. /\ d.hdrs = g /\ d.readonly = c.readonly
      /\ d.new = Cardinality(NewOnes(g)) /\ d.unread = Cardinality(UnreadOnes(g))
      /\ d.flagged = Cardinality(FlaggedOnes(g)) /\ d.deleted = 0
      /\ d.tagged = Cardinality(TaggedOnes(g)) /\ d.changed = 0
  BY <1>1 DEF Commit, Good, ContextOver
<1>7. d = [c EXCEPT !.hdrs = g, !.new = Cardinality(NewOnes(g)),
                    !.unread  = Cardinality(UnreadOnes(g)),
                    !.flagged = Cardinality(FlaggedOnes(g)), !.deleted = 0,
                    !.tagged  = Cardinality(TaggedOnes(g)), !.changed = 0]
  BY <1>1 DEF Commit
<1> HIDE DEF rest, g, d
<1>8. d.new \in Int /\ d.unread \in Int /\ d.flagged \in Int /\ d.tagged \in Int
  BY <1>2, <1>4, <1>6, OnesFinite
<1>9. d \in ContextOver(rest)
  <2>1. d = Fields(d)
    BY <1>7 DEF Fields, Good, ContextOver
  <2>2. /\ d.hdrs \in [rest -> Header] /\ d.readonly \in BOOLEAN
        /\ d.deleted \in Int /\ d.changed \in {0, 1}
    BY <1>1, <1>4, <1>6
  <2> QED BY <1>8, <2>1, <2>2, ContextFields
<1>10. Exact(d)
  BY <1>5, <1>6, FS_EmptySet DEF Exact
<1> QED BY <1>5, <1>6, <1>9, <1>10 DEF Good, Noticed, rest, d

(* Parsing a header again counts nothing, which is right as long as it     *)
(* says neither flagged nor deleted.                                       *)
LEMMA RereadGood ==
    ASSUME NEW keys, IsFiniteSet(keys), NEW c, Good(keys, c), NEW i \in keys,
           NEW said, "flagged" \notin said, "deleted" \notin said
    PROVE  Good(keys, Reread(c, i, said))
<1> DEFINE h == c.hdrs[i]
           g == [h EXCEPT !.replied = @ \/ "replied" \in said,
                          !.flagged = @ \/ "flagged" \in said,
                          !.deleted = @ \/ "deleted" \in said]
           d == [c EXCEPT !.hdrs[i] = g]
<1>1. c \in ContextOver(keys) /\ h \in Header
  BY DEF Good, ContextOver
<1>2. g \in Header /\ g.read = h.read /\ g.old = h.old
      /\ g.flagged = h.flagged /\ g.deleted = h.deleted /\ g.tagged = h.tagged
  BY <1>1 DEF Header
<1>3. Reread(c, i, said) = IF "read" \in said THEN ResetFlag(d, i, "M_NEW")
                           ELSE d
  BY DEF Reread
<1> HIDE DEF g
<1>4. d = Fields(d) /\ c.changed \in {0, 1}
  BY <1>1 DEF Fields, ContextOver
<1>5. Same(d, After(c, i, g, c.changed))
  BY <1>1, <1>2 DEF Same, After, ContextOver, Bit
<1> HIDE DEF d
<1>6. d = After(c, i, g, c.changed)
  BY <1>4, <1>5 DEF Same, Fields, After
<1>7. Good(keys, d)
  BY <1>1, <1>2, <1>4, <1>6, AfterGood
<1>8. "M_NEW" \in Flags
  BY DEF Flags
<1> QED BY <1>3, <1>7, <1>8, ResetFlagGood

(* Renaming the trashed files that were undeleted counts nothing. *)
LEMMA RenamedGood ==
    ASSUME NEW keys, IsFiniteSet(keys), NEW c, Good(keys, c), NEW d,
           d = [c EXCEPT !.hdrs = [i \in DOMAIN c.hdrs |->
                  [c.hdrs[i] EXCEPT !.trash = @ /\ c.hdrs[i].deleted]]]
    PROVE  Good(keys, d) /\ DeletedOnes(d.hdrs) = DeletedOnes(c.hdrs)
           /\ d.readonly = c.readonly
<1> DEFINE g == [i \in keys |->
                  [c.hdrs[i] EXCEPT !.trash = @ /\ c.hdrs[i].deleted]]
<1>1. /\ c.hdrs \in [keys -> Header] /\ DOMAIN c.hdrs = keys
      /\ c.readonly \in BOOLEAN
      /\ c.new \in Int /\ c.unread \in Int /\ c.flagged \in Int
      /\ c.deleted \in Int /\ c.tagged \in Int /\ c.changed \in {0, 1}
  BY DEF Good, ContextOver
<1>2. d.hdrs = g /\ d.new = c.new /\ d.unread = c.unread
      /\ d.flagged = c.flagged /\ d.deleted = c.deleted /\ d.tagged = c.tagged
      /\ d.changed = c.changed /\ d.readonly = c.readonly
  BY <1>1 DEF Good, ContextOver
<1>3. d = Fields(d)
  BY DEF Good, ContextOver, Fields
<1>4. \A h \in Header :
         /\ [h EXCEPT !.trash = @ /\ h.deleted] \in Header
         /\ [h EXCEPT !.trash = @ /\ h.deleted].read = h.read
         /\ [h EXCEPT !.trash = @ /\ h.deleted].old = h.old
         /\ [h EXCEPT !.trash = @ /\ h.deleted].flagged = h.flagged
         /\ [h EXCEPT !.trash = @ /\ h.deleted].deleted = h.deleted
         /\ [h EXCEPT !.trash = @ /\ h.deleted].tagged = h.tagged
  BY DEF Header
<1>5. g \in [keys -> Header]
  BY <1>1, <1>4
<1>6. /\ NewOnes(g) = NewOnes(c.hdrs) /\ UnreadOnes(g) = UnreadOnes(c.hdrs)
      /\ FlaggedOnes(g) = FlaggedOnes(c.hdrs)
      /\ DeletedOnes(g) = DeletedOnes(c.hdrs)
      /\ TaggedOnes(g) = TaggedOnes(c.hdrs)
  BY <1>1, <1>4 DEF NewOnes, UnreadOnes, FlaggedOnes, DeletedOnes, TaggedOnes
<1> HIDE DEF g
<1>7. d \in ContextOver(keys)
  <2>1. /\ d.new \in Int /\ d.unread \in Int /\ d.flagged \in Int
        /\ d.deleted \in Int /\ d.tagged \in Int /\ d.changed \in {0, 1}
        /\ d.readonly \in BOOLEAN /\ d.hdrs \in [keys -> Header]
    BY <1>1, <1>2, <1>5
  <2> QED BY <1>3, <2>1, ContextFields
<1> QED BY <1>2, <1>6, <1>7 DEF Good, Exact

(* Nor does counting messages as saved. *)
LEMMA SavedGood ==
    ASSUME NEW keys, IsFiniteSet(keys), NEW c, Good(keys, c), NEW d,
           NEW done, NEW mark \in {0, 1},
           d = [c EXCEPT !.hdrs = [i \in DOMAIN c.hdrs |->
                  [c.hdrs[i] EXCEPT !.changed = @ /\ i \notin done]],
                         !.changed = mark]
    PROVE  Good(keys, d)
<1> DEFINE g == [i \in keys |->
                  [c.hdrs[i] EXCEPT !.changed = @ /\ i \notin done]]
<1>1. /\ c.hdrs \in [keys -> Header] /\ DOMAIN c.hdrs = keys
      /\ c.readonly \in BOOLEAN
      /\ c.new \in Int /\ c.unread \in Int /\ c.flagged \in Int
      /\ c.deleted \in Int /\ c.tagged \in Int /\ c.changed \in {0, 1}
  BY DEF Good, ContextOver
<1>2. d.hdrs = g /\ d.new = c.new /\ d.unread = c.unread
      /\ d.flagged = c.flagged /\ d.deleted = c.deleted /\ d.tagged = c.tagged
      /\ d.changed = mark /\ d.readonly = c.readonly
  BY <1>1 DEF Good, ContextOver
<1>3. d = Fields(d)
  BY DEF Good, ContextOver, Fields
<1>4. \A h \in Header, i \in keys :
         /\ [h EXCEPT !.changed = @ /\ i \notin done] \in Header
         /\ [h EXCEPT !.changed = @ /\ i \notin done].read = h.read
         /\ [h EXCEPT !.changed = @ /\ i \notin done].old = h.old
         /\ [h EXCEPT !.changed = @ /\ i \notin done].flagged = h.flagged
         /\ [h EXCEPT !.changed = @ /\ i \notin done].deleted = h.deleted
         /\ [h EXCEPT !.changed = @ /\ i \notin done].tagged = h.tagged
  BY DEF Header
<1>5. g \in [keys -> Header]
  BY <1>1, <1>4
<1>6. /\ NewOnes(g) = NewOnes(c.hdrs) /\ UnreadOnes(g) = UnreadOnes(c.hdrs)
      /\ FlaggedOnes(g) = FlaggedOnes(c.hdrs)
      /\ DeletedOnes(g) = DeletedOnes(c.hdrs)
      /\ TaggedOnes(g) = TaggedOnes(c.hdrs)
  BY <1>1, <1>4 DEF NewOnes, UnreadOnes, FlaggedOnes, DeletedOnes, TaggedOnes
<1> HIDE DEF g
<1>7. d \in ContextOver(keys)
  <2>1. /\ d.new \in Int /\ d.unread \in Int /\ d.flagged \in Int
        /\ d.deleted \in Int /\ d.tagged \in Int /\ d.changed \in {0, 1}
        /\ d.readonly \in BOOLEAN /\ d.hdrs \in [keys -> Header]
    BY <1>1, <1>2, <1>5
  <2> QED BY <1>3, <2>1, ContextFields
<1> QED BY <1>2, <1>6, <1>7 DEF Good, Exact

(* The inductive invariant: the context is well formed over the keys it    *)
(* holds, with exact counters.  CountersExact alone says too little of the *)
(* headers for the next step.                                              *)
CounterInv ==
    /\ DOMAIN ctx.hdrs \subseteq Keys
    /\ Good(DOMAIN ctx.hdrs, ctx)
    /\ allowed \in BOOLEAN

(* The headers of messages on an IMAP server leave the counters alone: the *)
(* condition under which they are exact (see RereadGood).                  *)
HeadersQuiet ==
    Magic = "imap" => "flagged" \notin HeaderSays /\ "deleted" \notin HeaderSays

(* The keys of a context are those of its headers, and finitely many. *)
LEMMA KeysOf ==
    ASSUME CounterInv, NEW keys, NEW c, Good(keys, c)
    PROVE  DOMAIN c.hdrs = keys /\ IsFiniteSet(DOMAIN ctx.hdrs)
<1>1. DOMAIN c.hdrs = keys
  BY DEF Good, ContextOver
<1>2. IsFiniteSet(DOMAIN ctx.hdrs)
  BY KeysAssumption, FS_Subset DEF CounterInv
<1> QED BY <1>1, <1>2

(* The first state satisfies it, *)
LEMMA CounterInvInit == Init => CounterInv /\ Noticed(ctx)
<1> SUFFICES ASSUME Init PROVE CounterInv /\ Noticed(ctx)
  OBVIOUS
<1> DEFINE none == [i \in {} |-> BlankHeader]
<1>1. /\ ctx.hdrs = none /\ ctx.readonly \in BOOLEAN
      /\ ctx.new = 0 /\ ctx.unread = 0 /\ ctx.flagged = 0 /\ ctx.deleted = 0
      /\ ctx.tagged = 0 /\ ctx.changed = 0
  BY DEF Init, EmptyContext
<1>2. ctx = Fields(ctx)
  BY DEF Init, EmptyContext, Fields
<1>3. /\ NewOnes(none) = {} /\ UnreadOnes(none) = {} /\ FlaggedOnes(none) = {}
      /\ DeletedOnes(none) = {} /\ TaggedOnes(none) = {}
      /\ ChangedOnes(none) = {} /\ DOMAIN none = {} /\ none \in [{} -> Header]
  BY DEF NewOnes, UnreadOnes, FlaggedOnes, DeletedOnes, TaggedOnes, ChangedOnes
<1> HIDE DEF none
<1>4. Exact(ctx) /\ Noticed(ctx)
  BY <1>1, <1>3, FS_EmptySet DEF Exact, Noticed
<1>5. ctx \in ContextOver({})
  <2>1. /\ ctx.hdrs \in [{} -> Header] /\ ctx.readonly \in BOOLEAN
        /\ ctx.new \in Int /\ ctx.unread \in Int /\ ctx.flagged \in Int
        /\ ctx.deleted \in Int /\ ctx.tagged \in Int /\ ctx.changed \in {0, 1}
    BY <1>1, <1>3
  <2> QED BY <1>2, <2>1, ContextFields
<1> QED BY <1>1, <1>3, <1>4, <1>5 DEF CounterInv, Good, Init

(* and every step keeps it; only an expunge can leave a changed message    *)
(* unnoticed, and only IMAP expunges.                                      *)
LEMMA CounterInvStep ==
    ASSUME HeadersQuiet
    PROVE  CounterInv /\ [Next]_vars
        => CounterInv' /\ (Magic # "imap" /\ Noticed(ctx) => Noticed(ctx'))
<1> SUFFICES ASSUME CounterInv, [Next]_vars
             PROVE  CounterInv' /\ (Magic # "imap" /\ Noticed(ctx) => Noticed(ctx'))
  OBVIOUS
<1> DEFINE keys == DOMAIN ctx.hdrs
<1>1. Good(keys, ctx) /\ IsFiniteSet(keys) /\ keys \subseteq Keys
  BY KeysOf DEF CounterInv
<1> HIDE DEF keys
<1>2. ASSUME NEW ks, ks \subseteq Keys, Good(ks, ctx'), allowed' \in BOOLEAN
      PROVE  CounterInv'
  BY <1>2, KeysOf DEF CounterInv
<1>3. ASSUME NEW i \in Keys, NEW h \in Stored(Magic), NewMessage(i, h)
      PROVE  CounterInv' /\ (Noticed(ctx) => Noticed(ctx'))
  <2>1. i \notin keys /\ h \in Header /\ ~h.tagged /\ ctx' = AddHeader(ctx, i, h)
    BY <1>3 DEF NewMessage, Stored, keys
  <2>2. Good(keys \cup {i}, ctx') /\ (Noticed(ctx) => Noticed(ctx'))
    BY <1>1, <2>1, AddHeaderGood
  <2> QED BY <1>1, <1>2, <1>3, <2>2 DEF NewMessage, CounterInv
<1>4. ASSUME NEW i \in Keys, NEW flag \in Flags, SetMessageFlag(i, flag)
      PROVE  CounterInv' /\ (Noticed(ctx) => Noticed(ctx'))
  <2>1. Good(keys, ctx') /\ (Noticed(ctx) => Noticed(ctx'))
    BY <1>1, <1>4, SetFlagGood DEF SetMessageFlag, keys
  <2> QED BY <1>1, <1>2, <1>4, <2>1 DEF SetMessageFlag, CounterInv
<1>5. ASSUME NEW i \in Keys, NEW flag \in Flags, ResetMessageFlag(i, flag)
      PROVE  CounterInv' /\ (Noticed(ctx) => Noticed(ctx'))
  <2>1. Good(keys, ctx') /\ (Noticed(ctx) => Noticed(ctx'))
    BY <1>1, <1>5, ResetFlagGood DEF ResetMessageFlag, keys
  <2> QED BY <1>1, <1>2, <1>5, <2>1 DEF ResetMessageFlag, CounterInv
<1>6. ASSUME NEW i \in Keys, NEW f \in ServerFlags, Fetch(i, f)
      PROVE  CounterInv' /\ Magic = "imap"
  <2>1. Good(keys, ctx')
    BY <1>1, <1>6, ImapSetFlagsGood DEF Fetch, keys
  <2>2. allowed' \in BOOLEAN
    BY <1>6 DEF Fetch, CounterInv
  <2> QED BY <1>1, <1>2, <1>6, <2>1, <2>2 DEF Fetch
<1>7. ASSUME NEW i \in Keys, NEW said \in SUBSET HeaderSays, ReadBody(i, said)
      PROVE  CounterInv' /\ Magic = "imap"
  <2>1. Magic = "imap" /\ i \in keys /\ allowed' = allowed
    BY <1>7 DEF ReadBody, keys
  <2>2. "flagged" \notin said /\ "deleted" \notin said
    BY <2>1 DEF HeadersQuiet
  <2>3. CASE ctx' = Reread(ctx, i, said)
    <3>1. Good(keys, ctx')
      BY <1>1, <2>1, <2>2, <2>3, RereadGood
    <3> QED BY <1>1, <1>2, <2>1, <2>3, <3>1 DEF CounterInv
  <2>4. ASSUME NEW f \in ServerFlags,
               ctx' = Reread(ImapSetFlags(ctx, i, f), i, said)
        PROVE  CounterInv'
    <3>1. Good(keys, ImapSetFlags(ctx, i, f))
      BY <1>1, <2>1, ImapSetFlagsGood
    <3>2. Good(keys, ctx')
      BY <1>1, <2>1, <2>2, <2>4, <3>1, RereadGood
    <3> QED BY <1>1, <1>2, <2>1, <3>2 DEF CounterInv
  <2> QED BY <1>7, <2>1, <2>3, <2>4 DEF ReadBody
<1>8. ASSUME NEW gone \in SUBSET Keys, Expunge(gone)
      PROVE  CounterInv' /\ Magic = "imap"
  <2>1. Good(keys \cap (keys \ gone), ctx')
    BY <1>1, <1>8, DropInactiveGood DEF Expunge, keys
  <2> QED BY <1>1, <1>2, <1>8, <2>1 DEF Expunge, CounterInv
<1>9. ASSUME Sync
      PROVE  CounterInv' /\ Noticed(ctx')
  <2> DEFINE c == [ctx EXCEPT !.hdrs = [i \in DOMAIN ctx.hdrs |->
                    [ctx.hdrs[i] EXCEPT !.trash = @ /\ ctx.hdrs[i].deleted]]]
  <2>1. Good(keys, c)
    BY <1>1, RenamedGood
  <2>2. ctx' = Commit(c)
    BY <1>9 DEF Sync
  <2> HIDE DEF c
  <2>3. Good(keys \ DeletedOnes(c.hdrs), ctx') /\ Noticed(ctx')
    BY <1>1, <2>1, <2>2, CommitGood
  <2>4. allowed' \in BOOLEAN
    BY <1>9 DEF Sync, Syncing, CounterInv
  <2>5. keys \ DeletedOnes(c.hdrs) \subseteq Keys
    BY <1>1
  <2> QED BY <1>2, <2>3, <2>4, <2>5
<1>10. ASSUME NEW done \in SUBSET Keys, SyncFailed(done)
      PROVE  CounterInv' /\ Magic = "imap"
  <2>1. PICK mark \in { ctx.changed, 0 } :
            ctx' = [ctx EXCEPT
                !.hdrs = [i \in DOMAIN ctx.hdrs |->
                    [ctx.hdrs[i] EXCEPT !.changed = @ /\ i \notin done]],
                !.changed = mark]
    BY <1>10 DEF SyncFailed
  <2>2. mark \in {0, 1}
    BY <1>1 DEF Good, ContextOver
  <2>3. Good(keys, ctx')
    BY <1>1, <2>1, <2>2, SavedGood
  <2>4. Magic = "imap" /\ allowed' \in BOOLEAN
    BY <1>10 DEF SyncFailed, Syncing, CounterInv
  <2> QED BY <1>1, <1>2, <2>3, <2>4
<1>11. CASE UNCHANGED vars
  BY <1>11 DEF vars, CounterInv
<1> QED BY <1>3, <1>4, <1>5, <1>6, <1>8, <1>9, <1>10, <1>11, <1>7 DEF Next

(* The counters stat() reports are exact in every reachable state, for     *)
(* every driver and any finite set of messages, unless an IMAP message     *)
(* says in its header that it is flagged or deleted.                       *)
THEOREM CountersAreExact == ASSUME HeadersQuiet PROVE Spec => []CountersExact
<1>1. Init => CounterInv
  BY CounterInvInit
<1>2. CounterInv /\ [Next]_vars => CounterInv'
  BY CounterInvStep
<1>3. CounterInv => CountersExact
  BY DEF CounterInv, Good, CountersExact
<1> QED BY <1>1, <1>2, <1>3, PTL DEF Spec

(* Under the same condition the context stays well formed. *)
THEOREM TypeCorrect == ASSUME HeadersQuiet PROVE Spec => []TypeOK
<1>1. Init => CounterInv
  BY CounterInvInit
<1>2. CounterInv /\ [Next]_vars => CounterInv'
  BY CounterInvStep
<1>3. CounterInv => TypeOK
  BY DEF CounterInv, Good, TypeOK
<1> QED BY <1>1, <1>2, <1>3, PTL DEF Spec

(* A mailbox that is not an IMAP one never holds a changed message that    *)
(* mx_close_mailbox would overlook.                                        *)
THEOREM ChangesAreNoticed == ASSUME Magic # "imap" PROVE Spec => []ChangesNoticed
<1> HeadersQuiet
  BY DEF HeadersQuiet
<1>1. Init => CounterInv /\ Noticed(ctx)
  BY CounterInvInit
<1>2. (CounterInv /\ Noticed(ctx)) /\ [Next]_vars => (CounterInv /\ Noticed(ctx))'
  BY CounterInvStep
<1>3. CounterInv /\ Noticed(ctx) => ChangesNoticed
  BY DEF ChangesNoticed
<1> QED BY <1>1, <1>2, <1>3, PTL DEF Spec
----------------------------------------------------------------------------
(* From c to d no file name changes, and a trashed message is undeleted    *)
(* only if d is marked as changed.                                         *)
KeepsTrash(c, d) ==
    /\ DOMAIN d.hdrs = DOMAIN c.hdrs
    /\ c.changed # 0 => d.changed # 0
    /\ \A j \in DOMAIN c.hdrs :
          /\ d.hdrs[j].trash = c.hdrs[j].trash
          /\ c.hdrs[j].deleted /\ c.hdrs[j].trash /\ Magic = "maildir"
                => d.hdrs[j].deleted \/ d.changed # 0

(* Only the maildir driver knows trashed file names, and such a message is *)
(* deleted, or shows that it no longer is.                                 *)
TrashNoticed(c) ==
    \A j \in DOMAIN c.hdrs :
       c.hdrs[j].trash => Magic = "maildir" /\ (c.hdrs[j].deleted \/ c.changed # 0)

(* What keeps the trash keeps it noticed. *)
LEMMA KeepsTrashNoticed ==
    ASSUME NEW c, NEW d, KeepsTrash(c, d), TrashNoticed(c)
    PROVE  TrashNoticed(d)
BY DEF KeepsTrash, TrashNoticed

(* It is enough to look at the one header a flag operation writes. *)
LEMMA KeepsTrashAt ==
    ASSUME NEW keys, NEW c \in ContextOver(keys), NEW i \in keys, NEW g, NEW d,
           d.hdrs = [c.hdrs EXCEPT ![i] = g], g.trash = c.hdrs[i].trash,
           c.changed # 0 => d.changed # 0,
           g.deleted = c.hdrs[i].deleted \/ g.deleted = TRUE
              \/ d.changed # 0 \/ ~(Magic = "maildir" /\ g.trash)
    PROVE  KeepsTrash(c, d)
<1>1. c.hdrs \in [keys -> Header]
  BY DEF ContextOver
<1>2. /\ d.hdrs[i] = g /\ DOMAIN d.hdrs = keys /\ DOMAIN c.hdrs = keys
      /\ \A j \in keys : j # i => d.hdrs[j] = c.hdrs[j]
  BY <1>1
<1> QED BY <1>2 DEF KeepsTrash

(* Each flag operation does. *)
LEMMA FlagsKeepTrash ==
    ASSUME NEW keys, NEW c \in ContextOver(keys), NEW i \in keys
    PROVE  /\ KeepsTrash(c, c)
           /\ KeepsTrash(c, MarkDeleted(c, i)) /\ KeepsTrash(c, MarkNew(c, i))
           /\ KeepsTrash(c, MarkRead(c, i)) /\ KeepsTrash(c, MarkOld(c, i))
           /\ KeepsTrash(c, MarkReplied(c, i)) /\ KeepsTrash(c, MarkFlagged(c, i))
           /\ KeepsTrash(c, MarkTagged(c, i)) /\ KeepsTrash(c, Undelete(c, i))
           /\ KeepsTrash(c, UnmarkOld(c, i)) /\ KeepsTrash(c, MarkUnread(c, i))
           /\ KeepsTrash(c, UnmarkReplied(c, i)) /\ KeepsTrash(c, UnmarkFlagged(c, i))
           /\ KeepsTrash(c, UnmarkTagged(c, i))
<1> DEFINE h == c.hdrs[i]
<1>1. h \in Header /\ c.hdrs \in [keys -> Header] /\ c.changed \in {0, 1}
  BY DEF ContextOver
<1>2. KeepsTrash(c, c)
  BY DEF KeepsTrash
<1>3. KeepsTrash(c, MarkDeleted(c, i))
  <2> DEFINE g == [h EXCEPT !.deleted = TRUE, !.changed = @ \/ Magic = "imap"]
             d == MarkDeleted(c, i)
  <2>1. CASE h.deleted
    BY <1>2, <2>1 DEF MarkDeleted
  <2>2. CASE ~(h.deleted)
    <3>1. d.hdrs = [c.hdrs EXCEPT ![i] = g] /\ (c.changed # 0 => d.changed # 0)
      BY <1>1, <2>2 DEF MarkDeleted, ContextOver
    <3>2. /\ g.trash = h.trash
          /\ g.deleted = h.deleted \/ g.deleted = TRUE
             \/ d.changed # 0 \/ ~(Magic = "maildir" /\ g.trash)
      BY <1>1, <2>2 DEF MarkDeleted, ContextOver, Header
    <3> HIDE DEF g, d
    <3> QED BY <3>1, <3>2, KeepsTrashAt DEF d
  <2> QED BY <2>1, <2>2
<1>4. KeepsTrash(c, MarkNew(c, i))
  <2> DEFINE g == [h EXCEPT !.old = FALSE, !.read = FALSE, !.changed = TRUE]
             d == MarkNew(c, i)
  <2>1. CASE ~h.read /\ ~h.old
    BY <1>2, <2>1 DEF MarkNew
  <2>2. CASE ~(~h.read /\ ~h.old)
    <3>1. d.hdrs = [c.hdrs EXCEPT ![i] = g] /\ (c.changed # 0 => d.changed # 0)
      BY <1>1, <2>2 DEF MarkNew, ContextOver
    <3>2. /\ g.trash = h.trash
          /\ g.deleted = h.deleted \/ g.deleted = TRUE
             \/ d.changed # 0 \/ ~(Magic = "maildir" /\ g.trash)
      BY <1>1, <2>2 DEF MarkNew, ContextOver, Header
    <3> HIDE DEF g, d
    <3> QED BY <3>1, <3>2, KeepsTrashAt DEF d
  <2> QED BY <2>1, <2>2
<1>5. KeepsTrash(c, MarkRead(c, i))
  <2> DEFINE g == [h EXCEPT !.read = TRUE, !.changed = TRUE]
             d == MarkRead(c, i)
  <2>1. CASE h.read
    BY <1>2, <2>1 DEF MarkRead
  <2>2. CASE ~(h.read)
    <3>1. d.hdrs = [c.hdrs EXCEPT ![i] = g] /\ (c.changed # 0 => d.changed # 0)
      BY <1>1, <2>2 DEF MarkRead, ContextOver
    <3>2. /\ g.trash = h.trash
          /\ g.deleted = h.deleted \/ g.deleted = TRUE
             \/ d.changed # 0 \/ ~(Magic = "maildir" /\ g.trash)
      BY <1>1, <2>2 DEF MarkRead, ContextOver, Header
    <3> HIDE DEF g, d
    <3> QED BY <3>1, <3>2, KeepsTrashAt DEF d
  <2> QED BY <2>1, <2>2
<1>6. KeepsTrash(c, MarkOld(c, i))
  <2> DEFINE g == [h EXCEPT !.old = TRUE, !.changed = TRUE]
             d == MarkOld(c, i)
  <2>1. CASE h.old
    BY <1>2, <2>1 DEF MarkOld
  <2>2. CASE ~(h.old)
    <3>1. d.hdrs = [c.hdrs EXCEPT ![i] = g] /\ (c.changed # 0 => d.changed # 0)
      BY <1>1, <2>2 DEF MarkOld, ContextOver
    <3>2. /\ g.trash = h.trash
          /\ g.deleted = h.deleted \/ g.deleted = TRUE
             \/ d.changed # 0 \/ ~(Magic = "maildir" /\ g.trash)
      BY <1>1, <2>2 DEF MarkOld, ContextOver, Header
    <3> HIDE DEF g, d
    <3> QED BY <3>1, <3>2, KeepsTrashAt DEF d
  <2> QED BY <2>1, <2>2
<1>7. KeepsTrash(c, MarkReplied(c, i))
  <2> DEFINE g == [h EXCEPT !.replied = TRUE, !.read = TRUE, !.changed = TRUE]
             d == MarkReplied(c, i)
  <2>1. CASE h.replied
    BY <1>2, <2>1 DEF MarkReplied
  <2>2. CASE ~(h.replied)
    <3>1. d.hdrs = [c.hdrs EXCEPT ![i] = g] /\ (c.changed # 0 => d.changed # 0)
      BY <1>1, <2>2 DEF MarkReplied, ContextOver
    <3>2. /\ g.trash = h.trash
          /\ g.deleted = h.deleted \/ g.deleted = TRUE
             \/ d.changed # 0 \/ ~(Magic = "maildir" /\ g.trash)
      BY <1>1, <2>2 DEF MarkReplied, ContextOver, Header
    <3> HIDE DEF g, d
    <3> QED BY <3>1, <3>2, KeepsTrashAt DEF d
  <2> QED BY <2>1, <2>2
<1>8. KeepsTrash(c, MarkFlagged(c, i))
  <2> DEFINE g == [h EXCEPT !.flagged = TRUE, !.changed = TRUE]
             d == MarkFlagged(c, i)
  <2>1. CASE h.flagged
    BY <1>2, <2>1 DEF MarkFlagged
  <2>2. CASE ~(h.flagged)
    <3>1. d.hdrs = [c.hdrs EXCEPT ![i] = g] /\ (c.changed # 0 => d.changed # 0)
      BY <1>1, <2>2 DEF MarkFlagged, ContextOver
    <3>2. /\ g.trash = h.trash
          /\ g.deleted = h.deleted \/ g.deleted = TRUE
             \/ d.changed # 0 \/ ~(Magic = "maildir" /\ g.trash)
      BY <1>1, <2>2 DEF MarkFlagged, ContextOver, Header
    <3> HIDE DEF g, d
    <3> QED BY <3>1, <3>2, KeepsTrashAt DEF d
  <2> QED BY <2>1, <2>2
<1>9. KeepsTrash(c, MarkTagged(c, i))
  <2> DEFINE g == [h EXCEPT !.tagged = TRUE]
             d == MarkTagged(c, i)
  <2>1. CASE h.tagged
    BY <1>2, <2>1 DEF MarkTagged
  <2>2. CASE ~(h.tagged)
    <3>1. d.hdrs = [c.hdrs EXCEPT ![i] = g] /\ (c.changed # 0 => d.changed # 0)
      BY <1>1, <2>2 DEF MarkTagged, ContextOver
    <3>2. /\ g.trash = h.trash
          /\ g.deleted = h.deleted \/ g.deleted = TRUE
             \/ d.changed # 0 \/ ~(Magic = "maildir" /\ g.trash)
      BY <1>1, <2>2 DEF MarkTagged, ContextOver, Header
    <3> HIDE DEF g, d
    <3> QED BY <3>1, <3>2, KeepsTrashAt DEF d
  <2> QED BY <2>1, <2>2
<1>10. KeepsTrash(c, Undelete(c, i))
  <2> DEFINE g == [h EXCEPT !.deleted = FALSE, !.changed = @ \/ Magic = "imap"]
             d == Undelete(c, i)
  <2>1. CASE ~h.deleted
    BY <1>2, <2>1 DEF Undelete
  <2>2. CASE h.deleted
    <3>1. d.hdrs = [c.hdrs EXCEPT ![i] = g] /\ (c.changed # 0 => d.changed # 0)
      BY <1>1, <2>2 DEF Undelete, ContextOver
    <3>2. g.trash = h.trash
      BY <1>1 DEF Header
    <3>3. d.changed = IF Magic = "imap" \/ (Magic = "maildir" /\ h.trash)
                      THEN 1 ELSE c.changed
      BY <1>1, <2>2 DEF Undelete, ContextOver
    <3>4. d.changed # 0 \/ ~(Magic = "maildir" /\ g.trash)
      <4> HIDE DEF g, d
      <4> QED BY <3>2, <3>3
    <3> HIDE DEF g, d
    <3> QED BY <3>1, <3>2, <3>4, KeepsTrashAt DEF d
  <2> QED BY <2>1, <2>2
<1>11. KeepsTrash(c, UnmarkOld(c, i))
  <2> DEFINE g == [h EXCEPT !.old = FALSE, !.changed = TRUE]
             d == UnmarkOld(c, i)
  <2>1. CASE ~h.old
    BY <1>2, <2>1 DEF UnmarkOld
  <2>2. CASE ~(~h.old)
    <3>1. d.hdrs = [c.hdrs EXCEPT ![i] = g] /\ (c.changed # 0 => d.changed # 0)
      BY <1>1, <2>2 DEF UnmarkOld, ContextOver
    <3>2. /\ g.trash = h.trash
          /\ g.deleted = h.deleted \/ g.deleted = TRUE
             \/ d.changed # 0 \/ ~(Magic = "maildir" /\ g.trash)
      BY <1>1, <2>2 DEF UnmarkOld, ContextOver, Header
    <3> HIDE DEF g, d
    <3> QED BY <3>1, <3>2, KeepsTrashAt DEF d
  <2> QED BY <2>1, <2>2
<1>12. KeepsTrash(c, MarkUnread(c, i))
  <2> DEFINE g == [h EXCEPT !.read = FALSE, !.changed = TRUE]
             d == MarkUnread(c, i)
  <2>1. CASE ~h.read
    BY <1>2, <2>1 DEF MarkUnread
  <2>2. CASE ~(~h.read)
    <3>1. d.hdrs = [c.hdrs EXCEPT ![i] = g] /\ (c.changed # 0 => d.changed # 0)
      BY <1>1, <2>2 DEF MarkUnread, ContextOver
    <3>2. /\ g.trash = h.trash
          /\ g.deleted = h.deleted \/ g.deleted = TRUE
             \/ d.changed # 0 \/ ~(Magic = "maildir" /\ g.trash)
      BY <1>1, <2>2 DEF MarkUnread, ContextOver, Header
    <3> HIDE DEF g, d
    <3> QED BY <3>1, <3>2, KeepsTrashAt DEF d
  <2> QED BY <2>1, <2>2
<1>13. KeepsTrash(c, UnmarkReplied(c, i))
  <2> DEFINE g == [h EXCEPT !.replied = FALSE, !.changed = TRUE]
             d == UnmarkReplied(c, i)
  <2>1. CASE ~h.replied
    BY <1>2, <2>1 DEF UnmarkReplied
  <2>2. CASE ~(~h.replied)
    <3>1. d.hdrs = [c.hdrs EXCEPT ![i] = g] /\ (c.changed # 0 => d.changed # 0)
      BY <1>1, <2>2 DEF UnmarkReplied, ContextOver
    <3>2. /\ g.trash = h.trash
          /\ g.deleted = h.deleted \/ g.deleted = TRUE
             \/ d.changed # 0 \/ ~(Magic = "maildir" /\ g.trash)
      BY <1>1, <2>2 DEF UnmarkReplied, ContextOver, Header
    <3> HIDE DEF g, d
    <3> QED BY <3>1, <3>2, KeepsTrashAt DEF d
  <2> QED BY <2>1, <2>2
<1>14. KeepsTrash(c, UnmarkFlagged(c, i))
  <2> DEFINE g == [h EXCEPT !.flagged = FALSE, !.changed = TRUE]
             d == UnmarkFlagged(c, i)
  <2>1. CASE ~h.flagged
    BY <1>2, <2>1 DEF UnmarkFlagged
  <2>2. CASE ~(~h.flagged)
    <3>1. d.hdrs = [c.hdrs EXCEPT ![i] = g] /\ (c.changed # 0 => d.changed # 0)
      BY <1>1, <2>2 DEF UnmarkFlagged, ContextOver
    <3>2. /\ g.trash = h.trash
          /\ g.deleted = h.deleted \/ g.deleted = TRUE
             \/ d.changed # 0 \/ ~(Magic = "maildir" /\ g.trash)
      BY <1>1, <2>2 DEF UnmarkFlagged, ContextOver, Header
    <3> HIDE DEF g, d
    <3> QED BY <3>1, <3>2, KeepsTrashAt DEF d
  <2> QED BY <2>1, <2>2
<1>15. KeepsTrash(c, UnmarkTagged(c, i))
  <2> DEFINE g == [h EXCEPT !.tagged = FALSE]
             d == UnmarkTagged(c, i)
  <2>1. CASE ~h.tagged
    BY <1>2, <2>1 DEF UnmarkTagged
  <2>2. CASE ~(~h.tagged)
    <3>1. d.hdrs = [c.hdrs EXCEPT ![i] = g] /\ (c.changed # 0 => d.changed # 0)
      BY <1>1, <2>2 DEF UnmarkTagged, ContextOver
    <3>2. /\ g.trash = h.trash
          /\ g.deleted = h.deleted \/ g.deleted = TRUE
             \/ d.changed # 0 \/ ~(Magic = "maildir" /\ g.trash)
      BY <1>1, <2>2 DEF UnmarkTagged, ContextOver, Header
    <3> HIDE DEF g, d
    <3> QED BY <3>1, <3>2, KeepsTrashAt DEF d
  <2> QED BY <2>1, <2>2
<1> QED BY <1>2, <1>3, <1>4, <1>5, <1>6, <1>7, <1>8, <1>9,
            <1>10, <1>11, <1>12, <1>13, <1>14, <1>15

(* Setting any flag does. *)
LEMMA SetFlagKeepsTrash ==
    ASSUME NEW keys, NEW c \in ContextOver(keys), NEW i \in keys,
           NEW flag \in Flags
    PROVE  KeepsTrash(c, SetFlag(c, i, flag))
<1>1. CASE c.readonly /\ flag # "M_TAG"
  BY <1>1, FlagsKeepTrash DEF SetFlag
<1>2. CASE ~(c.readonly /\ flag # "M_TAG")
  <2>1. CASE flag = "M_DELETE"
    <3>1. SetFlag(c, i, flag) = MarkDeleted(c, i)
      BY <1>2, <2>1 DEF SetFlag
    <3> QED BY <3>1, FlagsKeepTrash
  <2>2. CASE flag = "M_NEW"
    <3>1. SetFlag(c, i, flag) = MarkNew(c, i)
      BY <1>2, <2>2 DEF SetFlag
    <3> QED BY <3>1, FlagsKeepTrash
  <2>3. CASE flag = "M_OLD"
    <3>1. SetFlag(c, i, flag) = MarkOld(c, i)
      BY <1>2, <2>3 DEF SetFlag
    <3> QED BY <3>1, FlagsKeepTrash
  <2>4. CASE flag = "M_READ"
    <3>1. SetFlag(c, i, flag) = MarkRead(c, i)
      BY <1>2, <2>4 DEF SetFlag
    <3> QED BY <3>1, FlagsKeepTrash
  <2>5. CASE flag = "M_REPLIED"
    <3>1. SetFlag(c, i, flag) = MarkReplied(c, i)
      BY <1>2, <2>5 DEF SetFlag
    <3> QED BY <3>1, FlagsKeepTrash
  <2>6. CASE flag = "M_FLAG"
    <3>1. SetFlag(c, i, flag) = MarkFlagged(c, i)
      BY <1>2, <2>6 DEF SetFlag
    <3> QED BY <3>1, FlagsKeepTrash
  <2>7. CASE flag = "M_TAG"
    <3>1. SetFlag(c, i, flag) = MarkTagged(c, i)
      BY <1>2, <2>7 DEF SetFlag
    <3> QED BY <3>1, FlagsKeepTrash
  <2> QED BY <2>1, <2>2, <2>3, <2>4, <2>5, <2>6, <2>7 DEF Flags
<1> QED BY <1>1, <1>2

(* Resetting any flag does. *)
LEMMA ResetFlagKeepsTrash ==
    ASSUME NEW keys, NEW c \in ContextOver(keys), NEW i \in keys,
           NEW flag \in Flags
    PROVE  KeepsTrash(c, ResetFlag(c, i, flag))
<1>1. CASE c.readonly /\ flag # "M_TAG"
  BY <1>1, FlagsKeepTrash DEF ResetFlag
<1>2. CASE ~(c.readonly /\ flag # "M_TAG")
  <2>1. CASE flag = "M_DELETE"
    <3>1. ResetFlag(c, i, flag) = Undelete(c, i)
      BY <1>2, <2>1 DEF ResetFlag
    <3> QED BY <3>1, FlagsKeepTrash
  <2>2. CASE flag = "M_NEW"
    <3>1. ResetFlag(c, i, flag) = MarkRead(c, i)
      BY <1>2, <2>2 DEF ResetFlag
    <3> QED BY <3>1, FlagsKeepTrash
  <2>3. CASE flag = "M_OLD"
    <3>1. ResetFlag(c, i, flag) = UnmarkOld(c, i)
      BY <1>2, <2>3 DEF ResetFlag
    <3> QED BY <3>1, FlagsKeepTrash
  <2>4. CASE flag = "M_READ"
    <3>1. ResetFlag(c, i, flag) = MarkUnread(c, i)
      BY <1>2, <2>4 DEF ResetFlag
    <3> QED BY <3>1, FlagsKeepTrash
  <2>5. CASE flag = "M_REPLIED"
    <3>1. ResetFlag(c, i, flag) = UnmarkReplied(c, i)
      BY <1>2, <2>5 DEF ResetFlag
    <3> QED BY <3>1, FlagsKeepTrash
  <2>6. CASE flag = "M_FLAG"
    <3>1. ResetFlag(c, i, flag) = UnmarkFlagged(c, i)
      BY <1>2, <2>6 DEF ResetFlag
    <3> QED BY <3>1, FlagsKeepTrash
  <2>7. CASE flag = "M_TAG"
    <3>1. ResetFlag(c, i, flag) = UnmarkTagged(c, i)
      BY <1>2, <2>7 DEF ResetFlag
    <3> QED BY <3>1, FlagsKeepTrash
  <2> QED BY <2>1, <2>2, <2>3, <2>4, <2>5, <2>6, <2>7 DEF Flags
<1> QED BY <1>1, <1>2

(* No step of a mailbox that is not an IMAP one lets an undeletion go      *)
(* unnoticed.                                                              *)
LEMMA TrashStep ==
    ASSUME Magic # "imap"
    PROVE  CounterInv /\ TrashNoticed(ctx) /\ [Next]_vars => TrashNoticed(ctx')
<1> SUFFICES ASSUME CounterInv, TrashNoticed(ctx), [Next]_vars
             PROVE  TrashNoticed(ctx')
  OBVIOUS
<1> DEFINE keys == DOMAIN ctx.hdrs
<1>1. ctx \in ContextOver(keys) /\ ctx.hdrs \in [keys -> Header]
  BY DEF CounterInv, Good, ContextOver
<1>2. ASSUME NEW i \in Keys, NEW h \in Stored(Magic), NewMessage(i, h)
      PROVE  TrashNoticed(ctx')
  <2>1. /\ i \notin keys /\ ctx' = AddHeader(ctx, i, h)
        /\ ~h.changed /\ (h.trash => h.deleted /\ Magic = "maildir")
    BY <1>2 DEF NewMessage, Stored
  <2>2. /\ ctx'.hdrs = [j \in keys \cup {i} |-> IF j = i THEN h ELSE ctx.hdrs[j]]
        /\ ctx'.changed = ctx.changed
    BY <1>1, <2>1 DEF AddHeader, ContextOver
  <2> QED BY <2>1, <2>2 DEF TrashNoticed
<1>3. ASSUME NEW i \in Keys, NEW flag \in Flags, SetMessageFlag(i, flag)
      PROVE  TrashNoticed(ctx')
  <2>1. KeepsTrash(ctx, ctx')
    BY <1>1, <1>3, SetFlagKeepsTrash DEF SetMessageFlag
  <2> QED BY <2>1, KeepsTrashNoticed
<1>4. ASSUME NEW i \in Keys, NEW flag \in Flags, ResetMessageFlag(i, flag)
      PROVE  TrashNoticed(ctx')
  <2>1. KeepsTrash(ctx, ctx')
    BY <1>1, <1>4, ResetFlagKeepsTrash DEF ResetMessageFlag
  <2> QED BY <2>1, KeepsTrashNoticed
<1>5. ASSUME Sync
      PROVE  TrashNoticed(ctx')
  <2> DEFINE renamed == [i \in keys |->
                [ctx.hdrs[i] EXCEPT !.trash = @ /\ ctx.hdrs[i].deleted]]
             c == [ctx EXCEPT !.hdrs = renamed]
             rest == keys \ DeletedOnes(renamed)
  <2>1. ctx' = Commit(c) /\ c.hdrs = renamed
    BY <1>1, <1>5 DEF Sync, ContextOver
  <2>2. c.hdrs = renamed /\ DOMAIN c.hdrs = keys
    BY <2>1
  <2>3. \A h \in Header :
           /\ [h EXCEPT !.trash = @ /\ h.deleted] \in Header
           /\ [h EXCEPT !.trash = @ /\ h.deleted].deleted = h.deleted
           /\ [h EXCEPT !.trash = @ /\ h.deleted].trash = (h.trash /\ h.deleted)
           /\ [h EXCEPT !.changed = FALSE].trash = h.trash
    BY DEF Header
  <2>4. \A j \in keys : /\ renamed[j] \in Header
                        /\ renamed[j].trash => renamed[j].deleted
    BY <1>1, <2>3
  <2>5. ctx'.hdrs = [j \in keys \ DeletedOnes(renamed) |->
                        [renamed[j] EXCEPT !.changed = FALSE]]
    <3> HIDE DEF renamed
    <3>1. Commit(c).hdrs = [j \in DOMAIN c.hdrs \ DeletedOnes(c.hdrs) |->
                              [c.hdrs[j] EXCEPT !.changed = FALSE]]
      BY <1>1 DEF Commit, ContextOver
    <3> HIDE DEF c
    <3> QED BY <2>1, <2>2, <3>1
  <2>6. \A j \in rest : ~renamed[j].deleted
    BY DEF DeletedOnes
  <2> HIDE DEF renamed
  <2>7. \A j \in rest : ~ctx'.hdrs[j].trash
    BY <2>3, <2>4, <2>5, <2>6
  <2>8. DOMAIN ctx'.hdrs = rest
    BY <2>5
  <2> HIDE DEF rest
  <2> QED BY <2>7, <2>8 DEF TrashNoticed
<1>6. CASE UNCHANGED vars
  BY <1>6 DEF vars
<1> QED BY <1>2, <1>3, <1>4, <1>5, <1>6
         DEF Next, Fetch, ReadBody, Expunge, SyncFailed

(* In a maildir a file name that says trashed for a message which is kept  *)
(* is never overlooked by mx_close_mailbox.                                *)
THEOREM UndeletesAreNoticed == ASSUME Magic # "imap" PROVE Spec => []UndeletesNoticed
<1> HeadersQuiet
  BY DEF HeadersQuiet
<1>1. Init => CounterInv /\ TrashNoticed(ctx)
  <2>1. Init => DOMAIN ctx.hdrs = {}
    BY DEF Init, EmptyContext
  <2> QED BY <2>1, CounterInvInit DEF TrashNoticed
<1>2. (CounterInv /\ TrashNoticed(ctx)) /\ [Next]_vars
         => (CounterInv /\ TrashNoticed(ctx))'
  BY CounterInvStep, TrashStep
<1>3. TrashNoticed(ctx) => UndeletesNoticed
  BY DEF TrashNoticed, UndeletesNoticed
<1> QED BY <1>1, <1>2, <1>3, PTL DEF Spec

----------------------------------------------------------------------------
(* Nothing of a read-only context waits to be written. *)
Clean(c) == c.readonly => c.changed = 0 /\ ChangedOnes(c.hdrs) = {}

(* From c to d only header i is written. *)
Elsewhere(c, d, i) ==
    /\ DOMAIN d.hdrs = DOMAIN c.hdrs
    /\ \A j \in DOMAIN c.hdrs : j # i => d.hdrs[j] = c.hdrs[j]

(* A flag operation writes only the header it is about. *)
LEMMA AssignElsewhere ==
    ASSUME NEW keys, NEW c \in ContextOver(keys), NEW i \in keys,
           NEW flag \in Flags, NEW b \in BOOLEAN
    PROVE  Elsewhere(c, Assign(c, i, flag, b), i)
<1>1. c.hdrs \in [keys -> Header]
  BY DEF ContextOver
<1>2. Elsewhere(c, c, i)
  BY DEF Elsewhere
<1>3. ASSUME NEW g, NEW d, d.hdrs = [c.hdrs EXCEPT ![i] = g]
      PROVE  Elsewhere(c, d, i)
  BY <1>1, <1>3 DEF Elsewhere
<1>4. Elsewhere(c, MarkDeleted(c, i), i)
  <2>1. MarkDeleted(c, i).hdrs = c.hdrs \/ \E g : MarkDeleted(c, i).hdrs = [c.hdrs EXCEPT ![i] = g]
    BY DEF MarkDeleted, ContextOver
  <2> QED BY <1>2, <1>3, <2>1 DEF Elsewhere
<1>5. Elsewhere(c, MarkNew(c, i), i)
  <2>1. MarkNew(c, i).hdrs = c.hdrs \/ \E g : MarkNew(c, i).hdrs = [c.hdrs EXCEPT ![i] = g]
    BY DEF MarkNew, ContextOver
  <2> QED BY <1>2, <1>3, <2>1 DEF Elsewhere
<1>6. Elsewhere(c, MarkRead(c, i), i)
  <2>1. MarkRead(c, i).hdrs = c.hdrs \/ \E g : MarkRead(c, i).hdrs = [c.hdrs EXCEPT ![i] = g]
    BY DEF MarkRead, ContextOver
  <2> QED BY <1>2, <1>3, <2>1 DEF Elsewhere
<1>7. Elsewhere(c, MarkOld(c, i), i)
  <2>1. MarkOld(c, i).hdrs = c.hdrs \/ \E g : MarkOld(c, i).hdrs = [c.hdrs EXCEPT ![i] = g]
    BY DEF MarkOld, ContextOver
  <2> QED BY <1>2, <1>3, <2>1 DEF Elsewhere
<1>8. Elsewhere(c, MarkReplied(c, i), i)
  <2>1. MarkReplied(c, i).hdrs = c.hdrs \/ \E g : MarkReplied(c, i).hdrs = [c.hdrs EXCEPT ![i] = g]
    BY DEF MarkReplied, ContextOver
  <2> QED BY <1>2, <1>3, <2>1 DEF Elsewhere
<1>9. Elsewhere(c, MarkFlagged(c, i), i)
  <2>1. MarkFlagged(c, i).hdrs = c.hdrs \/ \E g : MarkFlagged(c, i).hdrs = [c.hdrs EXCEPT ![i] = g]
    BY DEF MarkFlagged, ContextOver
  <2> QED BY <1>2, <1>3, <2>1 DEF Elsewhere
<1>10. Elsewhere(c, MarkTagged(c, i), i)
  <2>1. MarkTagged(c, i).hdrs = c.hdrs \/ \E g : MarkTagged(c, i).hdrs = [c.hdrs EXCEPT ![i] = g]
    BY DEF MarkTagged, ContextOver
  <2> QED BY <1>2, <1>3, <2>1 DEF Elsewhere
<1>11. Elsewhere(c, Undelete(c, i), i)
  <2>1. Undelete(c, i).hdrs = c.hdrs \/ \E g : Undelete(c, i).hdrs = [c.hdrs EXCEPT ![i] = g]
    BY DEF Undelete, ContextOver
  <2> QED BY <1>2, <1>3, <2>1 DEF Elsewhere
<1>12. Elsewhere(c, UnmarkOld(c, i), i)
  <2>1. UnmarkOld(c, i).hdrs = c.hdrs \/ \E g : UnmarkOld(c, i).hdrs = [c.hdrs EXCEPT ![i] = g]
    BY DEF UnmarkOld, ContextOver
  <2> QED BY <1>2, <1>3, <2>1 DEF Elsewhere
<1>13. Elsewhere(c, MarkUnread(c, i), i)
  <2>1. MarkUnread(c, i).hdrs = c.hdrs \/ \E g : MarkUnread(c, i).hdrs = [c.hdrs EXCEPT ![i] = g]
    BY DEF MarkUnread, ContextOver
  <2> QED BY <1>2, <1>3, <2>1 DEF Elsewhere
<1>14. Elsewhere(c, UnmarkReplied(c, i), i)
  <2>1. UnmarkReplied(c, i).hdrs = c.hdrs \/ \E g : UnmarkReplied(c, i).hdrs = [c.hdrs EXCEPT ![i] = g]
    BY DEF UnmarkReplied, ContextOver
  <2> QED BY <1>2, <1>3, <2>1 DEF Elsewhere
<1>15. Elsewhere(c, UnmarkFlagged(c, i), i)
  <2>1. UnmarkFlagged(c, i).hdrs = c.hdrs \/ \E g : UnmarkFlagged(c, i).hdrs = [c.hdrs EXCEPT ![i] = g]
    BY DEF UnmarkFlagged, ContextOver
  <2> QED BY <1>2, <1>3, <2>1 DEF Elsewhere
<1>16. Elsewhere(c, UnmarkTagged(c, i), i)
  <2>1. UnmarkTagged(c, i).hdrs = c.hdrs \/ \E g : UnmarkTagged(c, i).hdrs = [c.hdrs EXCEPT ![i] = g]
    BY DEF UnmarkTagged, ContextOver
  <2> QED BY <1>2, <1>3, <2>1 DEF Elsewhere
<1>17. Elsewhere(c, SetFlag(c, i, flag), i)
  BY <1>2, <1>4, <1>5, <1>7, <1>6, <1>8, <1>9, <1>10
     DEF SetFlag, Flags
<1>18. Elsewhere(c, ResetFlag(c, i, flag), i)
  BY <1>2, <1>11, <1>6, <1>12, <1>13, <1>14, <1>15, <1>16
     DEF ResetFlag, Flags
<1> QED BY <1>17, <1>18 DEF Assign

(* Setting or resetting a flag keeps a read-only context clean. *)
LEMMA FlagsClean ==
    ASSUME NEW keys, IsFiniteSet(keys), NEW c, Good(keys, c), Clean(c),
           NEW i \in keys, NEW flag \in Flags
    PROVE  Clean(SetFlag(c, i, flag)) /\ Clean(ResetFlag(c, i, flag))
<1>1. c \in ContextOver(keys) /\ c.hdrs \in [keys -> Header]
  BY DEF Good, ContextOver
<1>2. /\ SetFlag(c, i, flag).readonly = c.readonly
      /\ ResetFlag(c, i, flag).readonly = c.readonly
  BY SetFlagGood, ResetFlagGood
<1>3. CASE ~c.readonly
  BY <1>2, <1>3 DEF Clean
<1>4. CASE c.readonly /\ flag # "M_TAG"
  BY <1>4 DEF SetFlag, ResetFlag
<1>5. CASE c.readonly /\ flag = "M_TAG"
  <2>1. /\ SetFlag(c, i, flag) = MarkTagged(c, i)
        /\ ResetFlag(c, i, flag) = UnmarkTagged(c, i)
    BY <1>5 DEF SetFlag, ResetFlag
  <2>2. ASSUME NEW g, g.changed = c.hdrs[i].changed,
               NEW d, d.hdrs = [c.hdrs EXCEPT ![i] = g], d.changed = c.changed
        PROVE  Clean(d)
    <3>1. ChangedOnes(d.hdrs) = ChangedOnes(c.hdrs)
      BY <1>1, <2>2 DEF ChangedOnes
    <3> QED BY <1>5, <2>2, <3>1 DEF Clean
  <2>3. Clean(MarkTagged(c, i))
    <3> DEFINE g == [c.hdrs[i] EXCEPT !.tagged = TRUE]
    <3>1. g.changed = c.hdrs[i].changed
      BY <1>1 DEF Header
    <3>2. CASE c.hdrs[i].tagged
      BY <3>2 DEF MarkTagged
    <3>3. CASE ~c.hdrs[i].tagged
      <4>1. /\ MarkTagged(c, i).hdrs = [c.hdrs EXCEPT ![i] = g]
            /\ MarkTagged(c, i).changed = c.changed
        BY <1>1, <3>3 DEF MarkTagged, ContextOver
      <4> HIDE DEF g
      <4> QED BY <2>2, <3>1, <4>1
    <3> QED BY <3>2, <3>3
  <2>4. Clean(UnmarkTagged(c, i))
    <3> DEFINE g == [c.hdrs[i] EXCEPT !.tagged = FALSE]
    <3>1. g.changed = c.hdrs[i].changed
      BY <1>1 DEF Header
    <3>2. CASE ~c.hdrs[i].tagged
      BY <3>2 DEF UnmarkTagged
    <3>3. CASE c.hdrs[i].tagged
      <4>1. /\ UnmarkTagged(c, i).hdrs = [c.hdrs EXCEPT ![i] = g]
            /\ UnmarkTagged(c, i).changed = c.changed
        BY <1>1, <3>3 DEF UnmarkTagged, ContextOver
      <4> HIDE DEF g
      <4> QED BY <2>2, <3>1, <4>1
    <3> QED BY <3>2, <3>3
  <2> QED BY <2>1, <2>3, <2>4
<1> QED BY <1>3, <1>4, <1>5

(* So does importing what an IMAP server reports, although the context is  *)
(* writable meanwhile.                                                     *)
LEMMA ImapSetFlagsClean ==
    ASSUME NEW keys, IsFiniteSet(keys), NEW c, Good(keys, c), Clean(c),
           NEW i \in keys, NEW f \in ServerFlags
    PROVE  /\ Clean(ImapSetFlags(c, i, f))
           /\ ImapSetFlags(c, i, f).readonly = c.readonly
<1> DEFINE w  == [c EXCEPT !.readonly = FALSE]
           c1 == Assign(w,  i, "M_NEW", ~(f.read \/ f.old))
           c2 == Assign(c1, i, "M_OLD", f.old)
           c3 == Assign(c2, i, "M_READ", f.read)
           c4 == Assign(c3, i, "M_DELETE", f.deleted)
           c5 == Assign(c4, i, "M_FLAG", f.flagged)
           d  == Assign(c5, i, "M_REPLIED", f.replied)
           h  == [d.hdrs[i] EXCEPT !.changed = FALSE]
           e  == ImapSetFlags(c, i, f)
<1>1. c \in ContextOver(keys) /\ Exact(c) /\ c.hdrs \in [keys -> Header]
  BY DEF Good, ContextOver
<1>2. w \in ContextOver(keys) /\ Exact(w) /\ w.hdrs = c.hdrs
  BY <1>1 DEF ContextOver, Exact
<1>3. /\ f.read \in BOOLEAN /\ f.old \in BOOLEAN /\ f.replied \in BOOLEAN
      /\ f.flagged \in BOOLEAN /\ f.deleted \in BOOLEAN
      /\ (~(f.read \/ f.old)) \in BOOLEAN
  BY DEF ServerFlags
<1>4. /\ "M_NEW" \in Flags /\ "M_OLD" \in Flags /\ "M_READ" \in Flags
      /\ "M_DELETE" \in Flags /\ "M_FLAG" \in Flags /\ "M_REPLIED" \in Flags
  BY DEF Flags
<1>5. e = [d EXCEPT !.hdrs[i] = h,
                    !.changed = IF c.readonly THEN 0 ELSE d.changed,
                    !.readonly = c.readonly]
  BY DEF ImapSetFlags, Import
<1> HIDE DEF w, c1, c2, c3, c4, c5, d, h, e
<1>6. Good(keys, w)
  BY <1>2 DEF Good
<1>7. Good(keys, c1) /\ Elsewhere(w, c1, i)
  BY <1>2, <1>3, <1>4, <1>6, AssignGood, AssignElsewhere DEF c1
<1>8. Good(keys, c2) /\ Elsewhere(c1, c2, i)
  BY <1>3, <1>4, <1>7, AssignGood, AssignElsewhere DEF c2, Good
<1>9. Good(keys, c3) /\ Elsewhere(c2, c3, i)
  BY <1>3, <1>4, <1>8, AssignGood, AssignElsewhere DEF c3, Good
<1>10. Good(keys, c4) /\ Elsewhere(c3, c4, i)
  BY <1>3, <1>4, <1>9, AssignGood, AssignElsewhere DEF c4, Good
<1>11. Good(keys, c5) /\ Elsewhere(c4, c5, i)
  BY <1>3, <1>4, <1>10, AssignGood, AssignElsewhere DEF c5, Good
<1>12. Good(keys, d) /\ Elsewhere(c5, d, i)
  BY <1>3, <1>4, <1>11, AssignGood, AssignElsewhere DEF d, Good
<1>13. Elsewhere(w, d, i)
  BY <1>7, <1>8, <1>9, <1>10, <1>11, <1>12 DEF Elsewhere
<1>14. d \in ContextOver(keys) /\ d.hdrs \in [keys -> Header]
  BY <1>12 DEF Good, ContextOver
<1>15. ~h.changed
  BY <1>14 DEF h, Header
<1>16. /\ e.hdrs = [d.hdrs EXCEPT ![i] = h] /\ e.readonly = c.readonly
       /\ c.readonly => e.changed = 0
  BY <1>5, <1>14 DEF ContextOver
<1>17. ASSUME c.readonly, NEW j \in keys
       PROVE  ~e.hdrs[j].changed
  <2>1. CASE j = i
    BY <1>14, <1>15, <1>16, <2>1
  <2>2. CASE j # i
    <3>1. e.hdrs[j] = c.hdrs[j]
      BY <1>1, <1>2, <1>13, <1>14, <1>16, <2>2 DEF Elsewhere
    <3> QED BY <1>1, <1>17, <3>1 DEF Clean, ChangedOnes
  <2> QED BY <2>1, <2>2
<1>18. DOMAIN e.hdrs = keys
  BY <1>14, <1>16
<1> QED BY <1>16, <1>17, <1>18 DEF Clean, ChangedOnes, e

(* So does parsing a header again. *)
LEMMA RereadClean ==
    ASSUME NEW keys, NEW c \in ContextOver(keys), Clean(c), NEW i \in keys,
           NEW said
    PROVE  Clean(Reread(c, i, said)) /\ Reread(c, i, said).readonly = c.readonly
<1> DEFINE h == c.hdrs[i]
           g == [h EXCEPT !.replied = @ \/ "replied" \in said,
                          !.flagged = @ \/ "flagged" \in said,
                          !.deleted = @ \/ "deleted" \in said]
           d == [c EXCEPT !.hdrs[i] = g]
<1>1. c.hdrs \in [keys -> Header] /\ h \in Header
  BY DEF ContextOver
<1>2. g.changed = h.changed
  BY <1>1 DEF Header
<1>3. Reread(c, i, said) = IF "read" \in said THEN ResetFlag(d, i, "M_NEW")
                           ELSE d
  BY DEF Reread
<1>4. /\ DOMAIN d = DOMAIN c /\ d.hdrs = [c.hdrs EXCEPT ![i] = g]
      /\ d.readonly = c.readonly /\ d.changed = c.changed
      /\ DOMAIN c = { "hdrs", "new", "unread", "flagged", "deleted", "tagged",
                      "changed", "readonly" }
  BY DEF ContextOver
<1> HIDE DEF g, d
<1>5. ChangedOnes(d.hdrs) = ChangedOnes(c.hdrs)
  BY <1>1, <1>2, <1>4 DEF ChangedOnes
<1>6. ResetFlag(d, i, "M_NEW") = IF d.readonly THEN d ELSE MarkRead(d, i)
  BY DEF ResetFlag
<1>7. MarkRead(d, i).readonly = d.readonly
  BY <1>4 DEF MarkRead
<1> QED BY <1>3, <1>4, <1>5, <1>6, <1>7 DEF Clean

(* What a step may do to a read-only context. *)
ReadonlyStep ==
    /\ ctx'.readonly = ctx.readonly
    /\ ctx.readonly => ctx'.changed = 0 /\ ChangedOnes(ctx'.hdrs) = {}

(* Every step obeys it. *)
LEMMA CleanStep ==
    ASSUME HeadersQuiet
    PROVE  CounterInv /\ Clean(ctx) /\ [Next]_vars => ReadonlyStep /\ Clean(ctx')
<1> SUFFICES ASSUME CounterInv, Clean(ctx), [Next]_vars
             PROVE  ctx'.readonly = ctx.readonly /\ Clean(ctx')
  BY DEF ReadonlyStep, Clean
<1> DEFINE keys == DOMAIN ctx.hdrs
           Kept == ctx'.readonly = ctx.readonly /\ Clean(ctx')
<1>1. /\ Good(keys, ctx) /\ IsFiniteSet(keys) /\ ctx \in ContextOver(keys)
      /\ ctx.hdrs \in [keys -> Header]
  BY KeysOf DEF CounterInv, Good, ContextOver
<1>2. ASSUME NEW i \in Keys, NEW h \in Stored(Magic), NewMessage(i, h)
      PROVE  Kept
  <2>1. i \notin keys /\ ctx' = AddHeader(ctx, i, h) /\ ~h.changed
    BY <1>2 DEF NewMessage, Stored
  <2>2. /\ ctx'.hdrs = [j \in keys \cup {i} |-> IF j = i THEN h ELSE ctx.hdrs[j]]
        /\ ctx'.changed = ctx.changed /\ ctx'.readonly = ctx.readonly
    BY <1>1, <2>1 DEF AddHeader, ContextOver
  <2>3. ChangedOnes(ctx'.hdrs) = ChangedOnes(ctx.hdrs)
    BY <2>1, <2>2 DEF ChangedOnes
  <2> QED BY <2>2, <2>3 DEF Clean
<1>3. ASSUME NEW i \in Keys, NEW flag \in Flags, SetMessageFlag(i, flag)
      PROVE  Kept
  BY <1>1, <1>3, FlagsClean, SetFlagGood DEF SetMessageFlag
<1>4. ASSUME NEW i \in Keys, NEW flag \in Flags, ResetMessageFlag(i, flag)
      PROVE  Kept
  BY <1>1, <1>4, FlagsClean, ResetFlagGood DEF ResetMessageFlag
<1>5. ASSUME NEW i \in Keys, NEW f \in ServerFlags, Fetch(i, f)
      PROVE  Kept
  BY <1>1, <1>5, ImapSetFlagsClean DEF Fetch
<1>6. ASSUME NEW i \in Keys, NEW said \in SUBSET HeaderSays, ReadBody(i, said)
      PROVE  Kept
  <2>1. i \in keys
    BY <1>6 DEF ReadBody
  <2>2. CASE ctx' = Reread(ctx, i, said)
    BY <1>1, <2>1, <2>2, RereadClean
  <2>3. ASSUME NEW f \in ServerFlags,
               ctx' = Reread(ImapSetFlags(ctx, i, f), i, said)
        PROVE  Kept
    <3> DEFINE c == ImapSetFlags(ctx, i, f)
    <3>1. c \in ContextOver(keys)
      BY <1>1, <2>1, ImapSetFlagsGood DEF Good
    <3>2. Clean(c) /\ c.readonly = ctx.readonly
      BY <1>1, <2>1, ImapSetFlagsClean
    <3> HIDE DEF c
    <3>3. ctx' = Reread(c, i, said)
      BY <2>3 DEF c
    <3> QED BY <2>1, <3>1, <3>2, <3>3, RereadClean
  <2> QED BY <1>6, <2>2, <2>3 DEF ReadBody
<1>7. ASSUME NEW gone \in SUBSET Keys, Expunge(gone)
      PROVE  Kept
  <2> DEFINE g == [j \in keys \cap (keys \ gone) |-> ctx.hdrs[j]]
  <2>1. ctx' = DropInactive(ctx, keys \ gone)
    BY <1>7 DEF Expunge
  <2>2. /\ ctx'.hdrs = g /\ ctx'.readonly = ctx.readonly
        /\ ctx'.changed = Cardinality(ChangedOnes(g)) % 2
    BY <1>1, <2>1 DEF DropInactive, ContextOver
  <2>3. ChangedOnes(g) \subseteq ChangedOnes(ctx.hdrs)
    BY DEF ChangedOnes
  <2> HIDE DEF g
  <2>4. ASSUME ctx.readonly PROVE ctx'.changed = 0 /\ ChangedOnes(ctx'.hdrs) = {}
    <3>1. ChangedOnes(g) = {} /\ Cardinality(ChangedOnes(g)) = 0
      BY <2>3, <2>4, FS_EmptySet DEF Clean
    <3> QED BY <2>2, <3>1
  <2> QED BY <2>2, <2>4 DEF Clean
<1>8. ASSUME Sync
      PROVE  Kept
  <2>1. ~ctx.readonly /\ ctx'.readonly = ctx.readonly
    BY <1>1, <1>8 DEF Sync, Syncing, Commit, ContextOver
  <2> QED BY <2>1 DEF Clean
<1>9. ASSUME NEW done \in SUBSET Keys, SyncFailed(done)
      PROVE  Kept
  <2>1. ~ctx.readonly /\ ctx'.readonly = ctx.readonly
    BY <1>1, <1>9 DEF SyncFailed, Syncing, ContextOver
  <2> QED BY <2>1 DEF Clean
<1>10. CASE UNCHANGED vars
  BY <1>10 DEF vars
<1> QED BY <1>2, <1>3, <1>4, <1>5, <1>6, <1>7, <1>8, <1>9, <1>10 DEF Next

(* A context opened read-only stays read-only and never has anything to    *)
(* write, whatever flags the server reports meanwhile.                     *)
THEOREM ReadonlyContextStaysClean == ASSUME HeadersQuiet PROVE Spec => ReadonlyStaysClean
<1>1. Init => CounterInv /\ Clean(ctx)
  <2>1. Init => ctx.changed = 0 /\ DOMAIN ctx.hdrs = {}
    BY DEF Init, EmptyContext
  <2> QED BY <2>1, CounterInvInit DEF Clean, ChangedOnes
<1>2. (CounterInv /\ Clean(ctx)) /\ [Next]_vars
         => (CounterInv /\ Clean(ctx))' /\ [ReadonlyStep]_vars
  BY CounterInvStep, CleanStep
<1> QED BY <1>1, <1>2, PTL DEF Spec, ReadonlyStaysClean, ReadonlyStep
=============================================================================
