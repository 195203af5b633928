------------------------------- MODULE Addresses -------------------------------
(***************************************************************************)
(* The forms of an address and the conversions between them: Address       *)
(* (types/_address.py), the cells it is written to and read from, and the  *)
(* forms the clients work with (provider/_address.py).  A behaviour starts *)
(* from a text that was typed, or a cell, and converts it again and again. *)
(*                                                                         *)
(* A checksum is right or wrong; whether a friendly text has characters in *)
(* which the two base64 alphabets differ depends on the account.           *)
(***************************************************************************)
EXTENDS Integers

CONSTANTS
    Hashes,      \* hash parts; "zero" is 32 zero bytes
    Special,     \* those whose friendly texts have + and /, or - and _
    MaxSteps     \* bound: conversions in a row

VARIABLES
    value,       \* what the last conversion gave
    steps,       \* conversions done
    meant,       \* the account of the first form, [wc, hash_part], or None
    flag,        \* whether it is bounceable: "yes", "no", or "unknown" for a
                 \* form that does not say
    test,        \* whether it is said to be of the test network only
    writer       \* who wrote the letters: the "user", the "library", or its
                 \* "helper" userfriendly_to_raw

addressVars == <<value, steps, meant, flag, test, writer>>

None == [none |-> TRUE]
Raised == [kind |-> "raised"]
Flag(is_bounceable) == IF is_bounceable THEN "yes" ELSE "no"

\* A raw text "wc:hash"; letters is "upper" or "short" for capital letters and for
\* leading zeros left out, "bare" or "BARE" for the hash alone.
RawText(wc, hash_part, letters) ==
    [kind |-> "raw", wc |-> wc, hash_part |-> hash_part, letters |-> letters]

\* A friendly text: a byte each for tag and workchain, and which alphabet it uses.
FriendlyText(tag, wc, hash_part, letters, crc_ok) ==
    [kind |-> "friendly", tag |-> tag, wc |-> wc, hash_part |-> hash_part,
     letters |-> letters, crc_ok |-> crc_ok]

\* The digits of a hash part in capital letters; zeros have none.
Capital(hash_part) == IF hash_part = "zero" THEN "lower" ELSE "upper"

\* The tags without and with the test flag; others are unknown.
Tag(is_bounceable, is_test_only) ==
    (IF is_bounceable THEN 17 ELSE 81) + (IF is_test_only THEN 128 ELSE 0)
Tags == {Tag(b, t) : b \in BOOLEAN, t \in BOOLEAN}
IsBounceable(tag) == tag % 128 = 17

Letters(hash_part, is_url_safe) ==
    IF hash_part \notin Special THEN "same" ELSE IF is_url_safe THEN "url" ELSE "plain"

AddressObject(wc, hash_part, is_user_friendly, is_url_safe, is_bounceable, is_test_only) ==
    [kind |-> "address", wc |-> wc, hash_part |-> hash_part,
     is_user_friendly |-> is_user_friendly, is_url_safe |-> is_url_safe,
     is_bounceable |-> is_bounceable, is_test_only |-> is_test_only]

-----------------------------------------------------------------------------
(* Address                                                                  *)

\* parse_friendly_address; the alphabets may be mixed here.
FromFriendly(text) ==
    IF text.crc_ok /\ text.tag \in Tags /\ text.wc \in {0, -1}
    THEN AddressObject(text.wc, text.hash_part, TRUE, text.letters \in {"url", "mixed"},
                       IsBounceable(text.tag), text.tag >= 128)
    ELSE Raised

\* Address.from_string
FromString(text) ==
    IF text.kind = "friendly" THEN FromFriendly(text)
    ELSE IF text.wc \in {0, -1} /\ text.letters \notin {"short", "bare", "BARE"}
         THEN AddressObject(text.wc, text.hash_part, FALSE, FALSE, FALSE, FALSE)
         ELSE Raised

\* Address.to_string with the arguments that are given; bytearray takes no -1.
Given(option, own) == IF option = "own" THEN own ELSE option = "yes"
ToString(address, friendly, url_safe, bounceable, test_only) ==
    IF ~Given(friendly, address.is_user_friendly)
    THEN RawText(address.wc, address.hash_part, "lower")
    ELSE IF address.wc = -1 THEN Raised
    ELSE FriendlyText(Tag(Given(bounceable, address.is_bounceable),
                          Given(test_only, address.is_test_only)),
                      address.wc, address.hash_part,
                      Letters(address.hash_part, Given(url_safe, address.is_url_safe)), TRUE)

\* to_buffer
ToBuffer(address) ==
    IF address.wc = -1 THEN Raised
    ELSE [kind |-> "buffer", hash_part |-> address.hash_part, wc |-> address.wc]

\* BitString.write_address
ToCell(address) == [kind |-> "cell", address |-> [wc |-> address.wc, hash_part |-> address.hash_part]]

\* Address.from_cell: a built cell always has bits enough, so that no address is
\* read as the zero account.
FromCell(cell) ==
    LET read == IF cell.address = None THEN [wc |-> 0, hash_part |-> "zero"] ELSE cell.address
    IN  FromString(RawText(read.wc, read.hash_part, "lower"))

\* Slice.read_msg_addr
ReadMsgAddr(cell) ==
    IF cell.address = None THEN [kind |-> "no address"]
    ELSE FromString(RawText(cell.address.wc, cell.address.hash_part, "lower"))

\* userfriendly_to_raw of the tonlib helpers: capital letters, and no look at the tag
\* or the checksum.
UserfriendlyToRaw(text) == RawText(text.wc, text.hash_part, Capital(text.hash_part))

-----------------------------------------------------------------------------
(* The forms of the clients                                                 *)

\* account_forms
Forms(raw_form, given_type, test_only) ==
    [kind |-> "forms", raw_form |-> raw_form, given_type |-> given_type, test_only |-> test_only]

\* read_friendly_address
ReadFriendly(text) ==
    IF text.crc_ok /\ text.tag \in Tags /\ text.letters # "mixed"
    THEN Forms(RawText(text.wc, text.hash_part, "lower"),
               IF IsBounceable(text.tag) THEN "friendly_bounceable"
               ELSE "friendly_non_bounceable", text.tag >= 128)
    ELSE Raised

\* detect_address: a raw form stays as it was typed; a hash alone is one of the
\* masterchain.
DetectAddress(text) ==
    IF text.kind = "friendly" THEN ReadFriendly(text)
    ELSE IF text.letters \in {"bare", "BARE"}
         THEN Forms(RawText(-1, text.hash_part, IF text.letters = "bare" THEN "lower" ELSE "upper"),
                    "raw_form", FALSE)
         ELSE Forms(text, "raw_form", FALSE)

\* A friendly form, without the test flag.
Form(forms, is_bounceable, is_url_safe) ==
    FriendlyText(Tag(is_bounceable, FALSE), forms.raw_form.wc, forms.raw_form.hash_part,
                 Letters(forms.raw_form.hash_part, is_url_safe), TRUE)

\* Mutant: it looks for "bounceable" in the given type, which both have.
PrepareAddress_substring(text) ==
    LET forms == DetectAddress(text) IN
    IF forms = Raised THEN Raised
    ELSE Form(forms, forms.given_type \in {"friendly_bounceable", "friendly_non_bounceable"}, FALSE)

\* prepare_address
PrepareAddress(text) ==
    LET forms == DetectAddress(text) IN
    IF forms = Raised THEN Raised
    ELSE Form(forms, forms.given_type # "friendly_non_bounceable", FALSE)

-----------------------------------------------------------------------------
\* What may be typed: raw forms and friendly ones, with either alphabet or both,
\* a wrong checksum, an unknown tag or a workchain the library does not know.
Typed ==
    {RawText(wc, h, letters) :
        wc \in {-1, 0, 1}, h \in Hashes, letters \in {"lower", "upper", "short"}}
    \cup
    {RawText(-1, h, letters) : h \in Hashes, letters \in {"bare", "BARE"}}
    \cup
    {FriendlyText(tag, wc, h, letters, crc_ok) :
        tag \in Tags \cup {0}, wc \in {-1, 0, 1}, h \in Hashes,
        letters \in {"same", "plain", "url", "mixed"}, crc_ok \in BOOLEAN}

IsText(form) == form.kind \in {"raw", "friendly"}

\* The account a form is about, whatever its kind.
Account(form) ==
    CASE form.kind \in {"raw", "friendly", "address"} ->
            [wc |-> form.wc, hash_part |-> form.hash_part]
      [] form.kind = "cell" -> form.address
      [] form.kind = "forms" -> [wc |-> form.raw_form.wc, hash_part |-> form.raw_form.hash_part]

Init ==
    /\ steps = 0
    /\ \/ /\ value \in {t \in Typed :
                         t.kind = "friendly" => (t.letters = "same" <=> t.hash_part \notin Special)}
          /\ flag = IF value.kind = "friendly" THEN Flag(IsBounceable(value.tag)) ELSE "unknown"
          /\ test = (value.kind = "friendly" /\ value.tag >= 128)
       \/ value = [kind |-> "cell", address |-> None] /\ flag = "unknown" /\ test = FALSE
    /\ meant = Account(value) /\ writer = "user"

\* A conversion leads to another form, which says f of bounceability and t of the test
\* network, in the letters of w.
Convert(form, f, t, w) ==
    /\ steps < MaxSteps
    /\ value' = form /\ flag' = f /\ test' = t /\ writer' = w
    /\ steps' = steps + 1 /\ UNCHANGED meant

\* What the friendly texts made of a form without a flag say: an Address is not
\* bounceable then, prepare_address takes it for bounceable.
Known(default) == IF flag = "unknown" THEN default ELSE flag

Read ==
    /\ IsText(value)
    /\ \/ Convert(FromString(value), flag, test, "library")
       \/ Convert(DetectAddress(value), flag, test,
                  IF value.kind = "friendly" THEN "library" ELSE writer)
       \/ Convert(PrepareAddress(value), Known("yes"), FALSE, "library")
       \/ value.kind = "friendly" /\ Convert(UserfriendlyToRaw(value), "unknown", FALSE, "helper")

Write ==
    /\ value.kind = "address"
    /\ \E friendly, url_safe, bounceable, test_only \in {"own", "yes", "no"} :
          LET form == ToString(value, friendly, url_safe, bounceable, test_only) IN
          Convert(form, IF form.kind = "raw" THEN "unknown"
                        ELSE IF bounceable = "own" THEN Known("no") ELSE bounceable,
                  form.kind # "raw" /\ Given(test_only, test), "library")

\* from_any, to_buffer and write_address.
Use ==
    /\ value.kind = "address"
    /\ \/ Convert(ToBuffer(value), "unknown", FALSE, "library")
       \/ Convert(ToCell(value), "unknown", FALSE, "library")

ReadCell ==
    /\ value.kind = "cell"
    /\ \/ Convert(FromCell(value), "unknown", FALSE, "library")
       \/ Convert(ReadMsgAddr(value), "unknown", FALSE, "library")

PickForm ==
    /\ value.kind = "forms"
    /\ \/ Convert(value.raw_form, "unknown", FALSE, writer)
       \/ \E is_bounceable, is_url_safe \in BOOLEAN :
             Convert(Form(value, is_bounceable, is_url_safe), Flag(is_bounceable),
                     FALSE, "library")

\* The chain ends with a call that raises, with a form that is not converted, or
\* at the bound.
Ended ==
    /\ steps = MaxSteps \/ value.kind \in {"raised", "buffer", "no address"}
    /\ UNCHANGED addressVars

Next == Read \/ Write \/ Use \/ ReadCell \/ PickForm \/ Ended

Spec == Init /\ [][Next]_addressVars

-----------------------------------------------------------------------------
\* Whatever way it goes, a form is about the account the first one was about; only
\* a cell without an address is read as one, the zero account.
AccountKept ==
    value.kind \in {"raw", "friendly", "address", "cell", "forms"} =>
        \/ Account(value) = meant
        \/ meant = None /\ Account(value) = [wc |-> 0, hash_part |-> "zero"]

\* A form that says whether the account is bounceable says what the form said that
\* last did, or what was asked for.
FlagKept ==
    /\ value.kind = "friendly" /\ value.tag \in Tags => Flag(IsBounceable(value.tag)) = flag
    /\ value.kind = "address" /\ flag # "unknown" => Flag(value.is_bounceable) = flag
    /\ value.kind = "forms" /\ flag # "unknown" =>
          value.given_type = (IF flag = "yes" THEN "friendly_bounceable"
                              ELSE "friendly_non_bounceable")

\* The test flag is that of the form that last said it or of what was asked for: it
\* is kept from text to address and back, and by the forms of the clients in
\* test_only, which leave it out of their friendly texts.
TestFlagKept ==
    /\ value.kind = "friendly" /\ value.tag \in Tags => (value.tag >= 128 <=> test)
    /\ value.kind = "address" => (value.is_test_only <=> test)
    /\ value.kind = "forms" => (value.test_only <=> test)

\* What the library itself has printed, every reader takes.  The search for a
\* transaction compares the raw form with the lower case of a block's list: it finds
\* the account by all that the library prints but what userfriendly_to_raw writes,
\* which detect_address hands on in its capital letters.
PrintedIsRead ==
    writer # "user" /\ IsText(value) /\ value.wc \in {0, -1} =>
        /\ FromString(value) # Raised
        /\ DetectAddress(value) # Raised
        /\ DetectAddress(value).raw_form = RawText(value.wc, value.hash_part, "lower")
               <=> writer = "library" \/ value.hash_part = "zero"

\* The conversions keep what a form says.
FormsKept ==
    /\ steps \in 0 .. MaxSteps /\ flag \in {"yes", "no", "unknown"}
    /\ AccountKept
    /\ FlagKept
    /\ TestFlagKept
    /\ PrintedIsRead
=================================================================================
