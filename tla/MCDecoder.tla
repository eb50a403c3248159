------------------------------ MODULE MCDecoder -------------------------------
(***************************************************************************)
(* Documents for TLC, in the chunks a reader gives them in, and values for *)
(* the encoder with the pieces of their documents, with what each codec    *)
(* says of every tail of them and of what failing writers leave.           *)
(***************************************************************************)
EXTENDS Session

(* What the encoder writes for a Boolean in binary. *)
Binary == <<"bplist", "00.">>

(* A binary list and a truncated one, XML lists whole and malformed, text  *)
(* lists, two of which hold markup in a string, and nothing at all.        *)
Bplist    == <<"bplist", "00...">>
Truncated == <<"bplist00">>
XmlArray  == <<"<array><string>a</string>", "<string>b</string></array>">>
BadXml    == <<"<plist>", "<integer>x</integer></plist>">>
TextArray == <<"(1,", "2)">>
GnuArray  == <<"(1,", "<*I2>)">>
HoldsTrue  == <<"{ a = \"", "<true/>\"; }">>
HoldsPlist == <<"{ a = \"", "<plist/>\"; }">>

MCDocuments ==
  {Bplist, Truncated, XmlArray, BadXml, TextArray, GnuArray, HoldsTrue, HoldsPlist, << >>}

MCBuilds == SUBSET Codecs

(* The encoder writes true, an array of a NaN, or a value without a tree.  *)
MCValues        == {"yes", "[nan]", "nil"}
MCTargets       == {"Xml", "Binary", "GnuStep"}
MCIndents       == {"", "tab"}
MCSerializes(v) == v # "nil"
MCHoldsNaN(v)   == v = "[nan]"
MCPieces(v, f, i) ==
  CASE f = "Xml"     -> <<"<?xml?><plist>", v \o i, "</plist>">>
    [] f = "Binary"  -> Binary
    [] f = "GnuStep" -> IF v = "yes" THEN <<"<*B", "Y>">>
                        ELSE <<"(", i \o "<*Rnan>,", ")">>

(* The values in XML pieces after any prologs: a plist ends with its first *)
(* value, and nothing after that is read.                                  *)
Prolog == "<?xml?><plist>"
Unwrapped(bytes) ==
  {v \in MCValues : \E k \in DOMAIN bytes :
     /\ bytes[k] \in {v \o i : i \in MCIndents}
     /\ \A j \in 1 .. k - 1 : bytes[j] = Prolog}

MCHasMagic(bytes) == bytes # << >> /\ Head(bytes) \in {"bplist", "bplist00"}

MCBinaryParse(bytes) ==
  CASE bytes = Bplist -> Ok("no", "Binary")
    [] bytes = Binary -> Ok("yes", "Binary")
    [] OTHER          -> Err("Parse")

Recognized == {BadXml, Tail(BadXml), HoldsPlist, Tail(HoldsPlist)}

MCXmlParse(bytes) ==
  CASE bytes = XmlArray       -> Ok("[a, b]", "Xml")
    [] bytes = Tail(XmlArray) -> Ok("b", "Xml")
    [] bytes \in {HoldsTrue, Tail(HoldsTrue)} -> Ok("yes", "Xml")
    [] Unwrapped(bytes) # {}  -> Ok(CHOOSE v \in Unwrapped(bytes) : TRUE, "Xml")
    [] bytes \in Recognized \/ (bytes # << >> /\ Head(bytes) = Prolog) -> Err("Parse")
    [] OTHER                  -> Err("InvalidPlist")

MCTextParse(bytes) ==
  CASE bytes = TextArray  -> Ok("[1, 2]", "OpenStep")
    [] bytes = GnuArray   -> Ok("[1, 2]", "GnuStep")
    [] bytes = Truncated  -> Ok("bplist00", "OpenStep")
    [] bytes = HoldsTrue  -> Ok("{a: <true/>}", "OpenStep")
    [] bytes = HoldsPlist -> Ok("{a: <plist/>}", "OpenStep")
    [] bytes = << >>      -> Ok("{}", "OpenStep")
    [] bytes = MCPieces("yes", "GnuStep", "") -> Ok("yes", "GnuStep")
    [] \E i \in MCIndents : bytes = MCPieces("[nan]", "GnuStep", i) -> Ok("[nan]", "GnuStep")
    [] OTHER              -> Err("Parse")

(* The caller asks for something a string or a dictionary is not. *)
MCMaps(value) == value \in {"[nan]", "[a, b]", "[1, 2]", "no", "yes"}

=============================================================================
