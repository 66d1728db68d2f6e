SPECIFICATION Spec
SYMMETRY WebSymmetry
CONSTANTS
  NoChat = NoChat
  Accounts = {a1, a2, a3}
  Chats = {c1, c2}
INVARIANTS
  TypeOK
  ConsentOnRecord
  LinkWorksOnce
  StopIsComplete
PROPERTIES
  ImplementsMembership
